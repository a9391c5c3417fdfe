--------------------------- MODULE AuthoringProofs ---------------------------
(***************************************************************************)
(* Proofs about the parts that MCAuthoring follows.  A behaviour of it is  *)
(* one of each part, most of them standing still, so what is proved of     *)
(* a part by its own steps holds there as well, and without the bounds     *)
(* that MCAuthoring sets its parts.                                        *)
(***************************************************************************)
EXTENDS MCAuthoring, FiniteSetTheorems, TLAPS

-----------------------------------------------------------------------------
(* The watch of a source.                                                  *)
(*                                                                         *)
(* Two claims of a watch are kept apart by its row, and the row is written *)
(* whole by requests that read it before.  What makes that harmless, while *)
(* no row is written over one that was not read, is the time between two   *)
(* runs: a request that drops the lease of another leaves a row that is    *)
(* not due before that lease has passed.                                   *)

WatchRows == [enabled : BOOLEAN, next : Nat, status : W!Statuses, capture : Nat,
         lease : Watchers \cup {W!None}, until : Nat]
RowIsTrue(held) ==
    /\ held \in WatchRows
    /\ held.lease = W!None <=> held.until = W!Never
    /\ held.enabled <=> held.next # W!Never

Captures == [bytes : Pages, by : Watchers, looked : Nat]
Notices == [by : Watchers, kind : {"capture_changed", "watch_failed"}, capture : Nat]
WatchSteps == W!Running \cup {"idle", "configuring", "told", "lost", "done"}

\* What request r has read and will write, by where it is: j is its job, at a
\* moment when some captures are kept.
WatchJob(r, j, moment, kept) ==
    /\ j.step \in WatchSteps
    /\ j.step = "idle" => j = W!Idle
    /\ j.step = "configuring" => RowIsTrue(j.held) /\ j.at \in 0 .. moment /\ j.on \in BOOLEAN
    /\ j.step \in W!Running => j.lease \in {r, W!None} /\ j.until \in 0 .. moment + W!Lease
    /\ j.step \in {"begin", "fetching"} => j = [step |-> j.step, lease |-> j.lease, until |-> j.until]
    /\ j.step \in {"looking", "capturing"} => j.bytes \in Pages
    /\ j.step = "capturing" =>
          /\ j.looked \in 0 .. Len(kept)
          /\ j.looked # 0 => kept[j.looked].bytes # j.bytes
    /\ j.step \in {"reading", "writing"} =>
          j.status \in {"changed", "unchanged", "failed"} /\ j.capture \in Nat
    /\ j.step = "writing" => RowIsTrue(j.held) /\ j.held.enabled /\ j.at \in 0 .. moment

WatchJobs ==
    /\ inWatch = [r \in Watchers |-> inWatch[r]]
    /\ \A r \in Watchers : WatchJob(r, inWatch[r], hour, captures)

WatchTypes ==
    /\ hour \in 0 .. MaxTime /\ page \in Pages /\ purged \in BOOLEAN
    /\ RowIsTrue(watch)
    /\ captures \in Seq(Captures) /\ notices \subseteq Notices
    /\ deaths \in 0 .. MaxDeaths /\ wanted \in BOOLEAN
    /\ stale \subseteq Watchers /\ crossed \in BOOLEAN
    /\ WatchJobs

\* A row that is held and was not written since is the row, and no lease lasts
\* longer than one that was taken at the moment it was read.
LastsUntil(q, moment) ==
    inWatch[q].step \in W!Running /\ inWatch[q].lease = q => inWatch[q].until <= moment + W!Lease
HeldIsRead == \A r \in W!Holders \ stale :
    /\ inWatch[r].held = watch
    /\ \A q \in Watchers : LastsUntil(q, inWatch[r].at)

\* A lease that has not passed is the row's, or the row is not due before.
LeaseOrLater(r) ==
    \/ watch.lease = r /\ watch.until = inWatch[r].until
    \/ watch.lease = W!None /\ (watch.enabled => inWatch[r].until <= watch.next)
LeasesHold == crossed \/ \A r \in Watchers : W!Leased(r) => LeaseOrLater(r)

\* A request keeps one capture, and carries its number to its alert.
OwnCapture(i) ==
    LET j == inWatch[captures[i].by] IN
    /\ j.step \in {"reading", "writing", "told", "lost"}
    /\ j.step \in {"reading", "writing"} => j.status = "changed" /\ j.capture = i
CapturesAreOwn == \A i \in DOMAIN captures : OwnCapture(i)
KeptCapture(r) ==
    LET j == inWatch[r] IN
    j.step \in {"reading", "writing"} /\ j.status = "changed" =>
        j.capture \in DOMAIN captures /\ captures[j.capture].by = r
ChangesAreKept ==
    /\ \A r \in Watchers : KeptCapture(r)
    /\ \A a \in notices : a.kind = "capture_changed" => a.capture \in DOMAIN captures

WatchInv ==
    /\ WatchTypes /\ HeldIsRead /\ LeasesHold /\ CapturesAreOwn /\ ChangesAreKept
    /\ W!OneLeaseAtATime /\ W!SwitchIsKept /\ W!ChangesAreTold /\ W!TwinsWereRaced

\* A step that writes no row: whoever reads it holds it as it is, and whoever
\* holds a lease had it before.
QuietStep(r) ==
    /\ inWatch' = [inWatch EXCEPT ![r] = inWatch'[r]]
    /\ UNCHANGED <<hour, watch, stale, crossed, wanted>>
    /\ inWatch'[r].step \in {"configuring", "writing"} =>
          inWatch'[r].held = watch /\ inWatch'[r].at = hour
    /\ inWatch'[r].step \in W!Running /\ inWatch'[r].lease # W!None =>
          /\ inWatch[r].step \in W!Running
          /\ inWatch'[r].lease = inWatch[r].lease /\ inWatch'[r].until = inWatch[r].until

WritesRow(r) == W!runDueSourceWatch(r) \/ W!ConfigureWatch(r) \/ W!RecordWatchRun(r)

LEMMA WatchTypeOK == ASSUME WatchTypes PROVE W!TypeOK
  <1>1. \A i \in DOMAIN captures : captures[i] \in Captures
    BY DEF WatchTypes
  <1>2. \A r \in Watchers : inWatch[r].step \in WatchSteps
    BY DEF WatchTypes, WatchJobs, WatchJob
  <1> QED BY <1>1, <1>2
    DEF WatchTypes, RowIsTrue, WatchRows, Captures, WatchSteps, W!TypeOK, W!Statuses

\* The rows that are written.
LEMMA ConfiguredRow ==
    ASSUME NEW held, RowIsTrue(held), NEW setting \in BOOLEAN, NEW at \in Nat
    PROVE  /\ RowIsTrue(W!Configured(held, setting, at))
           /\ W!Configured(held, setting, at).enabled = setting
           /\ W!Configured(held, setting, at).lease = W!None
           /\ setting => W!Configured(held, setting, at).next = at + W!Interval
  <1> DEFINE next == IF setting THEN at + W!Interval ELSE W!Never
             a == [held EXCEPT !.enabled = setting]
             b == [a EXCEPT !.next = next]
             c == [b EXCEPT !.lease = W!None]
             d == [c EXCEPT !.until = W!Never]
  <1>1. next \in Nat /\ (setting => next = at + W!Interval) /\ (next # W!Never) = setting
    BY DEF W!Interval, W!Never
  <1>2. a \in WatchRows /\ a.enabled = setting BY DEF RowIsTrue, WatchRows
  <1> HIDE DEF next, a
  <1>3. b \in WatchRows /\ b.enabled = setting /\ b.next = next BY <1>1, <1>2 DEF WatchRows
  <1> HIDE DEF b
  <1>4. c \in WatchRows /\ c.enabled = setting /\ c.next = next /\ c.lease = W!None
    BY <1>3 DEF WatchRows
  <1> HIDE DEF c
  <1>5. d \in WatchRows /\ d.enabled = setting /\ d.next = next /\ d.lease = W!None /\ d.until = W!Never
    BY <1>4 DEF WatchRows, W!Never
  <1>6. W!Configured(held, setting, at) = d
    BY DEF W!Configured, next, a, b, c
  <1> HIDE DEF d
  <1> QED BY <1>1, <1>5, <1>6 DEF RowIsTrue

LEMMA RanRow ==
    ASSUME NEW held, RowIsTrue(held), held.enabled, NEW at \in Nat, NEW capture \in Nat,
           NEW status \in W!Statuses
    PROVE  /\ RowIsTrue(W!Ran(held, status, capture, at))
           /\ W!Ran(held, status, capture, at).enabled
           /\ W!Ran(held, status, capture, at).lease = W!None
           /\ W!Ran(held, status, capture, at).next = at + W!Interval
  <1> DEFINE a == [held EXCEPT !.status = status]
             b == [a EXCEPT !.capture = capture]
             c == [b EXCEPT !.lease = W!None]
             d == [c EXCEPT !.until = W!Never]
             e == [d EXCEPT !.next = at + W!Interval]
  <1>1. at + W!Interval \in Nat /\ at + W!Interval # W!Never BY DEF W!Interval, W!Never
  <1>2. a \in WatchRows /\ a.enabled = held.enabled BY DEF RowIsTrue, WatchRows
  <1> HIDE DEF a
  <1>3. b \in WatchRows /\ b.enabled = held.enabled BY <1>2 DEF WatchRows
  <1> HIDE DEF b
  <1>4. c \in WatchRows /\ c.enabled = held.enabled /\ c.lease = W!None BY <1>3 DEF WatchRows
  <1> HIDE DEF c
  <1>5. d \in WatchRows /\ d.enabled = held.enabled /\ d.lease = W!None /\ d.until = W!Never
    BY <1>4 DEF WatchRows, W!Never
  <1> HIDE DEF d
  <1>6. /\ e \in WatchRows /\ e.enabled = held.enabled
        /\ e.lease = W!None /\ e.until = W!Never /\ e.next = at + W!Interval
    BY <1>1, <1>5 DEF WatchRows
  <1>7. W!Ran(held, status, capture, at) = e
    BY DEF W!Ran, a, b, c, d
  <1> HIDE DEF e
  <1> QED BY <1>1, <1>6, <1>7 DEF RowIsTrue

LEMMA ClaimedRow ==
    ASSUME NEW held, RowIsTrue(held), NEW r \in Watchers, NEW until \in Nat \ {0},
           NEW claimed, claimed = [held EXCEPT !.lease = r, !.until = until]
    PROVE  /\ RowIsTrue(claimed) /\ claimed.enabled = held.enabled /\ claimed.next = held.next
           /\ claimed.lease = r /\ claimed.until = until
  BY WatchersAssumption DEF RowIsTrue, WatchRows, W!None, W!Never

\* A job is as true later, with the captures there are or one more.
LEMMA WatchJobLasts ==
    ASSUME NEW r, NEW j, NEW h \in Nat, NEW k \in Nat, h <= k,
           NEW kept \in Seq(Captures), NEW more, more = kept \/ \E c \in Captures : more = Append(kept, c),
           WatchJob(r, j, h, kept)
    PROVE  WatchJob(r, j, k, more)
  <1>1. Len(kept) <= Len(more) /\ \A i \in 1 .. Len(kept) : more[i] = kept[i]
    OBVIOUS
  <1> QED BY <1>1 DEF WatchJob, W!Lease

\* One job changes; the others are as true as they were.
LEMMA OneJobOfWatch ==
    ASSUME WatchTypes, NEW r \in Watchers, NEW k, inWatch' = [inWatch EXCEPT ![r] = k],
           hour' = hour, captures' = captures \/ \E c \in Captures : captures' = Append(captures, c),
           WatchJob(r, k, hour, captures')
    PROVE  WatchJobs'
  <1>1. inWatch' = [q \in Watchers |-> inWatch'[q]] BY DEF WatchTypes, WatchJobs
  <1>2. ASSUME NEW q \in Watchers PROVE WatchJob(q, inWatch'[q], hour', captures')
    <2>1. CASE q = r BY <2>1 DEF WatchTypes, WatchJobs
    <2>2. CASE q # r
      <3>1. inWatch'[q] = inWatch[q] BY <2>2 DEF WatchTypes, WatchJobs
      <3>2. hour \in Nat /\ WatchJob(q, inWatch[q], hour, captures) /\ captures \in Seq(Captures)
        BY DEF WatchTypes, WatchJobs
      <3> QED BY <3>1, <3>2, WatchJobLasts
    <2> QED BY <2>1, <2>2
  <1> QED BY <1>1, <1>2 DEF WatchJobs

\* The steps of a run that write no row keep the types.
LEMMA GoesOfWatch ==
    ASSUME WatchTypes, NEW r \in Watchers, NEW step \in {"begin", "fetching"}, W!Goes(r, step),
           \/ W!At(r, "idle") \/ W!At(r, "begin"),
           UNCHANGED <<hour, captures>>
    PROVE  WatchJobs'
  <1> DEFINE k == [inWatch[r] EXCEPT !.step = step]
  <1>1. inWatch' = [inWatch EXCEPT ![r] = k] BY DEF W!Goes
  <1>2. WatchJob(r, inWatch[r], hour, captures) /\ hour \in Nat BY DEF WatchTypes, WatchJobs
  <1>3. /\ inWatch[r] = [step |-> inWatch[r].step, lease |-> inWatch[r].lease, until |-> inWatch[r].until]
        /\ inWatch[r].lease \in {r, W!None} /\ inWatch[r].until \in 0 .. hour + W!Lease
    BY <1>2 DEF WatchJob, W!At, W!Running, W!Idle, W!Never, W!Lease
  <1>4. k = [step |-> step, lease |-> inWatch[r].lease, until |-> inWatch[r].until]
    BY <1>3
  <1>5. /\ k.step = step /\ k.lease \in {r, W!None} /\ k.until \in 0 .. hour + W!Lease
        /\ k = [step |-> k.step, lease |-> k.lease, until |-> k.until]
    BY <1>3, <1>4
  <1> HIDE DEF k
  <1>6. WatchJob(r, k, hour, captures) BY <1>5 DEF WatchJob, WatchSteps, W!Running
  <1> QED BY <1>1, <1>6, OneJobOfWatch

LEMMA EndsOfWatch ==
    ASSUME WatchTypes, NEW r \in Watchers, NEW step \in {"lost", "told", "done"}, W!EndsAs(r, step),
           UNCHANGED <<hour, captures>>
    PROVE  WatchJobs' /\ inWatch'[r].step = step
  <1> DEFINE k == [W!Idle EXCEPT !.step = step]
  <1>1. inWatch' = [inWatch EXCEPT ![r] = k] BY DEF W!EndsAs
  <1>2. k.step = step BY DEF W!Idle
  <1> HIDE DEF k
  <1>3. WatchJob(r, k, hour, captures) BY <1>2 DEF WatchJob, WatchSteps, W!Running
  <1> QED BY <1>1, <1>2, <1>3, OneJobOfWatch DEF WatchTypes, WatchJobs

LEMMA TypesOfAsking ==
    ASSUME WatchTypes, NEW r \in Watchers, NEW setting \in BOOLEAN, W!setSourceWatch(r, setting)
    PROVE  WatchTypes'
  <1>1. hour \in 0 .. hour /\ RowIsTrue(watch) BY DEF WatchTypes
  <1>2. WatchJob(r, W!Asks(r, setting), hour, captures)
    BY <1>1 DEF W!Asks, W!WatchBySource, WatchJob, WatchSteps, W!Running
  <1>3. WatchJobs' BY <1>2, OneJobOfWatch DEF W!setSourceWatch, W!world
  <1> QED BY <1>3 DEF W!setSourceWatch, W!world, WatchTypes, RowIsTrue

LEMMA TypesOfRunning ==
    ASSUME WatchTypes, NEW r \in Watchers, W!runSourceWatch(r) \/ W!Begin(r)
    PROVE  WatchTypes'
  <1>1. UNCHANGED <<hour, captures>> BY DEF W!runSourceWatch, W!Begin, W!world
  <1>2. WatchJobs'
    BY <1>1, GoesOfWatch, EndsOfWatch DEF W!runSourceWatch, W!Begin
  <1> QED BY <1>2 DEF W!runSourceWatch, W!Begin, W!world, WatchTypes, RowIsTrue

LEMMA TypesOfEnding ==
    ASSUME WatchTypes, NEW r \in Watchers, W!Die(r)
    PROVE  WatchTypes'
  <1>1. WatchJobs' BY EndsOfWatch DEF W!Die, W!world
  <1>2. deaths' \in 0 .. MaxDeaths BY WatchersAssumption DEF W!Die, WatchTypes
  <1> QED BY <1>1, <1>2 DEF W!Die, W!world, WatchTypes, RowIsTrue

\* A run that has its answer, whatever it is.
LEMMA RecordingOfWatch ==
    ASSUME WatchTypes, NEW r \in Watchers, NEW status \in {"changed", "unchanged", "failed"},
           NEW capture \in Nat, W!Recording(r, status, capture), inWatch[r].step \in W!Running,
           hour' = hour, captures' = captures \/ \E c \in Captures : captures' = Append(captures, c)
    PROVE  WatchJobs'
  <1> DEFINE k == [step |-> "reading", lease |-> inWatch[r].lease, until |-> inWatch[r].until,
                   status |-> status, capture |-> capture]
  <1>1. inWatch' = [inWatch EXCEPT ![r] = k] BY DEF W!Recording
  <1>2. inWatch[r].lease \in {r, W!None} /\ inWatch[r].until \in 0 .. hour + W!Lease
    BY DEF WatchTypes, WatchJobs, WatchJob
  <1>3. WatchJob(r, k, hour, captures')
    BY <1>2 DEF WatchJob, WatchSteps, W!Running
  <1> HIDE DEF k
  <1> QED BY <1>1, <1>3, OneJobOfWatch

LEMMA TypesOfFetching ==
    ASSUME WatchTypes, NEW r \in Watchers, W!Fetch(r)
    PROVE  WatchTypes'
  <1>1. inWatch[r].step \in W!Running BY DEF W!Fetch, W!At, W!Running
  <1>2. CASE W!Fails(r)
    <2>1. WatchJobs' BY <1>1, <1>2, RecordingOfWatch DEF W!Fails, W!Fetch, W!world, W!Never
    <2> QED BY <2>1 DEF W!Fetch, W!world, WatchTypes, RowIsTrue
  <1>3. ASSUME NEW bytes \in W!Answers,
               inWatch' = [inWatch EXCEPT ![r] = [step |-> "looking", lease |-> inWatch[r].lease,
                                                  until |-> inWatch[r].until, bytes |-> bytes]]
        PROVE  WatchTypes'
    <2> DEFINE k == [step |-> "looking", lease |-> inWatch[r].lease,
                     until |-> inWatch[r].until, bytes |-> bytes]
    <2>1. inWatch[r].lease \in {r, W!None} /\ inWatch[r].until \in 0 .. hour + W!Lease
      BY <1>1 DEF WatchTypes, WatchJobs, WatchJob
    <2>2. WatchJob(r, k, hour, captures)
      BY <2>1 DEF WatchJob, WatchSteps, W!Running, W!Answers, WatchTypes
    <2> HIDE DEF k
    <2>3. WatchJobs' BY <1>3, <2>2, OneJobOfWatch DEF W!Fetch, W!world, k
    <2> QED BY <2>3 DEF W!Fetch, W!world, WatchTypes, RowIsTrue
  <1> QED BY <1>2, <1>3 DEF W!Fetch

LEMMA TypesOfLooking ==
    ASSUME WatchTypes, NEW r \in Watchers, W!Look(r)
    PROVE  WatchTypes'
  <1>1. inWatch[r].step \in W!Running /\ inWatch[r].step = "looking"
    BY DEF W!Look, W!At, W!Running
  <1>2. CASE W!Recording(r, "unchanged", W!Never)
    <2>1. WatchJobs' BY <1>1, <1>2, RecordingOfWatch DEF W!Look, W!world, W!Never
    <2> QED BY <2>1 DEF W!Look, W!world, WatchTypes, RowIsTrue
  <1>3. CASE ~W!IsLatest(inWatch[r].bytes) /\ ~W!Recording(r, "unchanged", W!Never)
    <2> DEFINE k == [step |-> "capturing", lease |-> inWatch[r].lease, until |-> inWatch[r].until,
                     bytes |-> inWatch[r].bytes, looked |-> Len(captures)]
    <2>1. /\ inWatch[r].lease \in {r, W!None} /\ inWatch[r].until \in 0 .. hour + W!Lease
          /\ inWatch[r].bytes \in Pages
      BY <1>1 DEF WatchTypes, WatchJobs, WatchJob
    <2>2. /\ Len(captures) \in Nat
          /\ Len(captures) # 0 => captures[Len(captures)].bytes # inWatch[r].bytes
      BY <1>3 DEF W!IsLatest, WatchTypes
    <2>3. WatchJob(r, k, hour, captures)
      BY <2>1, <2>2 DEF WatchJob, WatchSteps, W!Running
    <2> HIDE DEF k
    <2>4. WatchJobs' BY <1>3, <2>3, OneJobOfWatch DEF W!Look, W!world, k
    <2> QED BY <2>4 DEF W!Look, W!world, WatchTypes, RowIsTrue
  <1> QED BY <1>2, <1>3 DEF W!Look

LEMMA TypesOfCapturing ==
    ASSUME WatchTypes, NEW r \in Watchers, W!AddCapture(r)
    PROVE  WatchTypes'
  <1>1. inWatch[r].step \in W!Running /\ inWatch[r].step = "capturing"
    BY DEF W!AddCapture, W!At, W!Running
  <1>2. CASE W!Fails(r) /\ UNCHANGED captures
    <2>1. WatchJobs' BY <1>1, <1>2, RecordingOfWatch DEF W!Fails, W!AddCapture, W!world, W!Never
    <2> QED BY <1>2, <2>1 DEF W!AddCapture, W!world, WatchTypes, RowIsTrue
  <1>3. CASE ~(W!Fails(r) /\ UNCHANGED captures)
    <2> DEFINE c == [bytes |-> inWatch[r].bytes, by |-> r, looked |-> inWatch[r].looked]
    <2>1. captures' = Append(captures, c) /\ W!Recording(r, "changed", Len(captures) + 1)
      BY <1>3 DEF W!AddCapture
    <2>2. captures \in Seq(Captures) BY DEF WatchTypes
    <2>3. c \in Captures
      BY <1>1, <2>2 DEF WatchTypes, WatchJobs, WatchJob, Captures
    <2> HIDE DEF c
    <2>4. Len(captures) + 1 \in Nat /\ captures' \in Seq(Captures) BY <2>1, <2>2, <2>3
    <2>5. WatchJobs' BY <1>1, <2>1, <2>3, <2>4, RecordingOfWatch DEF W!AddCapture, W!world
    <2> QED BY <2>4, <2>5 DEF W!AddCapture, W!world, WatchTypes, RowIsTrue
  <1> QED BY <1>2, <1>3

LEMMA TypesOfReading ==
    ASSUME WatchTypes, NEW r \in Watchers, W!ReadWatch(r)
    PROVE  WatchTypes'
  <1>1. inWatch[r].step \in W!Running /\ inWatch[r].step = "reading"
    BY DEF W!ReadWatch, W!At, W!Running
  <1>2. CASE W!EndsAs(r, "lost")
    <2>1. WatchJobs' BY <1>2, EndsOfWatch DEF W!ReadWatch, W!world
    <2> QED BY <2>1 DEF W!ReadWatch, W!world, WatchTypes, RowIsTrue
  <1>3. CASE ~W!EndsAs(r, "lost")
    <2> DEFINE j == inWatch[r]
               k == [step |-> "writing", lease |-> j.lease, until |-> j.until,
                     held |-> W!WatchBySource, at |-> hour, status |-> j.status, capture |-> j.capture]
    <2>1. W!MayRecord(r) /\ inWatch' = [inWatch EXCEPT ![r] = k]
      BY <1>3 DEF W!ReadWatch
    <2>2. /\ inWatch[r].lease \in {r, W!None} /\ inWatch[r].until \in 0 .. hour + W!Lease
          /\ inWatch[r].status \in {"changed", "unchanged", "failed"} /\ inWatch[r].capture \in Nat
          /\ hour \in 0 .. hour /\ RowIsTrue(watch)
      BY <1>1 DEF WatchTypes, WatchJobs, WatchJob
    <2>3. WatchJob(r, k, hour, captures)
      BY <2>1, <2>2 DEF WatchJob, WatchSteps, W!Running, W!WatchBySource, W!MayRecord
    <2> HIDE DEF k
    <2>4. WatchJobs' BY <2>1, <2>3, OneJobOfWatch DEF W!ReadWatch, W!world
    <2> QED BY <2>4 DEF W!ReadWatch, W!world, WatchTypes, RowIsTrue
  <1> QED BY <1>2, <1>3

LEMMA TypesOfConfiguring ==
    ASSUME WatchTypes, NEW r \in Watchers, W!ConfigureWatch(r)
    PROVE  WatchTypes'
  <1>1. inWatch[r].step = "configuring" BY DEF W!ConfigureWatch, W!At
  <1>2. WatchJobs' BY EndsOfWatch DEF W!ConfigureWatch, W!world
  <1>3. RowIsTrue(inWatch[r].held) /\ inWatch[r].on \in BOOLEAN /\ inWatch[r].at \in 0 .. hour
    BY <1>1 DEF WatchTypes, WatchJobs, WatchJob
  <1>4. RowIsTrue(W!Configured(inWatch[r].held, inWatch[r].on, inWatch[r].at))
    BY <1>3, ConfiguredRow
  <1>5. RowIsTrue(watch)' /\ stale' \subseteq Watchers /\ crossed' \in BOOLEAN
    BY <1>4 DEF W!ConfigureWatch, W!UpsertWatch, W!Writes, W!Holders, RowIsTrue
  <1> QED BY <1>2, <1>3, <1>5 DEF W!ConfigureWatch, W!world, WatchTypes

LEMMA TypesOfClaiming ==
    ASSUME WatchTypes, NEW r \in Watchers, W!runDueSourceWatch(r)
    PROVE  WatchTypes'
  <1> DEFINE k == [step |-> "begin", lease |-> r, until |-> hour + W!Lease]
  <1>1. inWatch' = [inWatch EXCEPT ![r] = k] /\ UNCHANGED <<hour, captures>>
    BY DEF W!runDueSourceWatch, W!world
  <1>2. hour \in Nat BY DEF WatchTypes
  <1>3. WatchJob(r, k, hour, captures)
    BY <1>2 DEF WatchJob, WatchSteps, W!Running, W!Lease
  <1> HIDE DEF k
  <1>4. WatchJobs' BY <1>1, <1>3, OneJobOfWatch
  <1>5. hour + W!Lease \in Nat \ {0} BY <1>2 DEF W!Lease
  <1>6. RowIsTrue([watch EXCEPT !.lease = r, !.until = hour + W!Lease])
    BY <1>5, ClaimedRow DEF WatchTypes
  <1>7. RowIsTrue(watch)' /\ stale' \subseteq Watchers
    BY <1>6 DEF W!runDueSourceWatch, W!ClaimDueWatch, W!Writes, W!Holders, RowIsTrue
  <1> QED BY <1>4, <1>7 DEF W!runDueSourceWatch, W!world, WatchTypes

LEMMA TypesOfRecording ==
    ASSUME WatchTypes, NEW r \in Watchers, W!RecordWatchRun(r)
    PROVE  WatchTypes'
  <1>1. inWatch[r].step = "writing" BY DEF W!RecordWatchRun, W!At
  <1>2. WatchJobs' BY EndsOfWatch DEF W!RecordWatchRun, W!world
  <1>3. /\ RowIsTrue(inWatch[r].held) /\ inWatch[r].held.enabled /\ inWatch[r].at \in 0 .. hour
        /\ inWatch[r].status \in W!Statuses /\ inWatch[r].capture \in Nat
    BY <1>1 DEF WatchTypes, WatchJobs, WatchJob, W!Statuses
  <1>4. RowIsTrue(W!Ran(inWatch[r].held, inWatch[r].status, inWatch[r].capture, inWatch[r].at))
    BY <1>3, RanRow
  <1>5. RowIsTrue(watch)' /\ stale' \subseteq Watchers /\ crossed' \in BOOLEAN
    BY <1>4 DEF W!RecordWatchRun, W!UpsertWatch, W!Writes, W!Holders, RowIsTrue
  <1>6. W!NewAlert(r) \subseteq Notices
    BY <1>3 DEF W!NewAlert, Notices
  <1> QED BY <1>2, <1>5, <1>6 DEF W!RecordWatchRun, W!world, WatchTypes

LEMMA TypesOfTheWorld ==
    ASSUME WatchTypes, W!Around
    PROVE  WatchTypes'
  <1>1. /\ hour \in Nat /\ hour' \in 0 .. MaxTime /\ hour <= hour'
        /\ page' \in Pages /\ purged' \in BOOLEAN /\ captures \in Seq(Captures)
    <2>1. hour \in 0 .. MaxTime /\ MaxTime \in Nat /\ page \in Pages /\ purged \in BOOLEAN
      BY WatchersAssumption DEF WatchTypes
    <2>2. (hour' = hour + 1 /\ hour < MaxTime) \/ hour' = hour
      BY DEF W!Around, W!Tick, W!PageChanges, W!Purge
    <2>3. page' \in Pages /\ purged' \in BOOLEAN
      BY <2>1 DEF W!Around, W!Tick, W!PageChanges, W!Purge
    <2> QED BY <2>1, <2>2, <2>3 DEF WatchTypes
  <1>2. WatchJobs'
    <2> SUFFICES ASSUME NEW r \in Watchers PROVE WatchJob(r, inWatch[r], hour', captures)
      BY DEF WatchJobs, W!Around, WatchTypes
    <2> QED BY <1>1, WatchJobLasts DEF WatchTypes, WatchJobs
  <1> QED BY <1>1, <1>2 DEF W!Around, WatchTypes, RowIsTrue

LEMMA TypesOfWatch ==
    ASSUME WatchTypes, W!Next
    PROVE  WatchTypes'
  BY TypesOfTheWorld, TypesOfAsking, TypesOfConfiguring, TypesOfClaiming, TypesOfRunning,
     TypesOfFetching, TypesOfLooking, TypesOfCapturing, TypesOfReading, TypesOfRecording, TypesOfEnding
  DEF W!Next

-----------------------------------------------------------------------------
\* Every step of a request is quiet or writes the row.
LEMMA ChangeOfJob ==
    ASSUME WatchTypes, NEW r \in Watchers, NEW k, inWatch' = [inWatch EXCEPT ![r] = k]
    PROVE  inWatch'[r] = k /\ inWatch' = [inWatch EXCEPT ![r] = inWatch'[r]]
  BY DEF WatchTypes, WatchJobs

LEMMA QuietAsking ==
    ASSUME WatchTypes, NEW r \in Watchers, NEW setting \in BOOLEAN, W!setSourceWatch(r, setting)
    PROVE  QuietStep(r)
  <1>1. inWatch' = [inWatch EXCEPT ![r] = W!Asks(r, setting)] BY DEF W!setSourceWatch
  <1>2. inWatch'[r] = W!Asks(r, setting) /\ inWatch' = [inWatch EXCEPT ![r] = inWatch'[r]]
    BY <1>1, ChangeOfJob
  <1> QED BY <1>2 DEF QuietStep, W!setSourceWatch, W!world, W!Asks, W!WatchBySource, W!Running

LEMMA QuietEnds ==
    ASSUME WatchTypes, NEW r \in Watchers, NEW step \in {"lost", "told", "done"}, W!EndsAs(r, step),
           UNCHANGED <<hour, watch, stale, crossed, wanted>>
    PROVE  QuietStep(r)
  <1> DEFINE k == [W!Idle EXCEPT !.step = step]
  <1>1. inWatch'[r] = k /\ inWatch' = [inWatch EXCEPT ![r] = inWatch'[r]]
    BY ChangeOfJob DEF W!EndsAs
  <1>2. k.step = step BY DEF W!Idle
  <1> HIDE DEF k
  <1> QED BY <1>1, <1>2 DEF QuietStep, W!Running

LEMMA QuietGoing ==
    ASSUME WatchTypes, NEW r \in Watchers, W!runSourceWatch(r) \/ W!Begin(r)
    PROVE  QuietStep(r)
  <1>1. CASE W!EndsAs(r, "done") /\ W!Begin(r)
    BY <1>1, QuietEnds DEF W!Begin, W!world
  <1>2. ASSUME NEW step \in {"begin", "fetching"}, W!Goes(r, step), W!At(r, "idle") \/ W!At(r, "begin")
        PROVE  QuietStep(r)
    <2> DEFINE k == [inWatch[r] EXCEPT !.step = step]
    <2>1. inWatch'[r] = k /\ inWatch' = [inWatch EXCEPT ![r] = inWatch'[r]]
      BY <1>2, ChangeOfJob DEF W!Goes
    <2>2. /\ inWatch[r] = [step |-> inWatch[r].step, lease |-> inWatch[r].lease, until |-> inWatch[r].until]
          /\ inWatch[r].step \in W!Running \/ inWatch[r].lease = W!None
      BY <1>2 DEF WatchTypes, WatchJobs, WatchJob, W!At, W!Running, W!Idle
    <2>3. k.step = step /\ k.lease = inWatch[r].lease /\ k.until = inWatch[r].until
      BY <2>2
    <2> HIDE DEF k
    <2>4. UNCHANGED <<hour, watch, stale, crossed, wanted>>
      BY DEF W!runSourceWatch, W!Begin, W!world
    <2> QED BY <2>1, <2>2, <2>3, <2>4 DEF QuietStep
  <1> QED BY <1>1, <1>2 DEF W!runSourceWatch, W!Begin

\* What a run that goes on carries of its lease.
LEMMA QuietRunning ==
    ASSUME WatchTypes, NEW r \in Watchers, inWatch[r].step \in W!Running,
           NEW k, inWatch' = [inWatch EXCEPT ![r] = k],
           k.lease = inWatch[r].lease, k.until = inWatch[r].until,
           k.step \in {"looking", "capturing", "reading"} \/ (k.held = watch /\ k.at = hour),
           UNCHANGED <<hour, watch, stale, crossed, wanted>>
    PROVE  QuietStep(r)
  <1>1. inWatch'[r] = k /\ inWatch' = [inWatch EXCEPT ![r] = inWatch'[r]]
    BY ChangeOfJob
  <1> QED BY <1>1 DEF QuietStep

LEMMA QuietRecording ==
    ASSUME WatchTypes, NEW r \in Watchers, inWatch[r].step \in W!Running, NEW status, NEW capture,
           W!Recording(r, status, capture), UNCHANGED <<hour, watch, stale, crossed, wanted>>
    PROVE  QuietStep(r)
  <1> DEFINE k == [step |-> "reading", lease |-> inWatch[r].lease, until |-> inWatch[r].until,
                   status |-> status, capture |-> capture]
  <1>1. inWatch' = [inWatch EXCEPT ![r] = k] BY DEF W!Recording
  <1>2. /\ k.lease = inWatch[r].lease /\ k.until = inWatch[r].until
        /\ k.step \in {"looking", "capturing", "reading"} \/ (k.held = watch /\ k.at = hour)
      OBVIOUS
  <1> HIDE DEF k
  <1> QED BY <1>1, <1>2, QuietRunning

LEMMA QuietFetching ==
    ASSUME WatchTypes, NEW r \in Watchers, W!Fetch(r) \/ W!Look(r)
    PROVE  QuietStep(r)
  <1>1. inWatch[r].step \in W!Running /\ UNCHANGED <<hour, watch, stale, crossed, wanted>>
    BY DEF W!Fetch, W!Look, W!At, W!Running, W!world
  <1>2. CASE \E status, capture : W!Recording(r, status, capture)
    BY <1>1, <1>2, QuietRecording
  <1>3. ASSUME NEW bytes, inWatch' = [inWatch EXCEPT ![r] = [step |-> "looking", lease |-> inWatch[r].lease,
                                      until |-> inWatch[r].until, bytes |-> bytes]]
        PROVE  QuietStep(r)
    <2> DEFINE k == [step |-> "looking", lease |-> inWatch[r].lease,
                     until |-> inWatch[r].until, bytes |-> bytes]
    <2>1. inWatch' = [inWatch EXCEPT ![r] = k] BY <1>3
    <2>2. /\ k.lease = inWatch[r].lease /\ k.until = inWatch[r].until
          /\ k.step \in {"looking", "capturing", "reading"} \/ (k.held = watch /\ k.at = hour)
      OBVIOUS
    <2> HIDE DEF k
    <2> QED BY <1>1, <2>1, <2>2, QuietRunning
  <1>4. ASSUME inWatch' = [inWatch EXCEPT ![r] = [step |-> "capturing", lease |-> inWatch[r].lease,
                           until |-> inWatch[r].until, bytes |-> inWatch[r].bytes, looked |-> Len(captures)]]
        PROVE  QuietStep(r)
    <2> DEFINE k == [step |-> "capturing", lease |-> inWatch[r].lease, until |-> inWatch[r].until,
                     bytes |-> inWatch[r].bytes, looked |-> Len(captures)]
    <2>1. inWatch' = [inWatch EXCEPT ![r] = k] BY <1>4
    <2>2. /\ k.lease = inWatch[r].lease /\ k.until = inWatch[r].until
          /\ k.step \in {"looking", "capturing", "reading"} \/ (k.held = watch /\ k.at = hour)
      OBVIOUS
    <2> HIDE DEF k
    <2> QED BY <1>1, <2>1, <2>2, QuietRunning
  <1> QED BY <1>2, <1>3, <1>4 DEF W!Fetch, W!Look, W!Fails

LEMMA QuietCapturing ==
    ASSUME WatchTypes, NEW r \in Watchers, W!AddCapture(r)
    PROVE  QuietStep(r)
  <1>1. inWatch[r].step \in W!Running /\ UNCHANGED <<hour, watch, stale, crossed, wanted>>
    BY DEF W!AddCapture, W!At, W!Running, W!world
  <1>2. \E status, capture : W!Recording(r, status, capture)
    BY DEF W!AddCapture, W!Fails
  <1> QED BY <1>1, <1>2, QuietRecording

LEMMA QuietReading ==
    ASSUME WatchTypes, NEW r \in Watchers, W!ReadWatch(r)
    PROVE  QuietStep(r)
  <1>1. inWatch[r].step \in W!Running /\ UNCHANGED <<hour, watch, stale, crossed, wanted>>
    BY DEF W!ReadWatch, W!At, W!Running, W!world
  <1>2. CASE W!EndsAs(r, "lost")
    BY <1>1, <1>2, QuietEnds
  <1>3. CASE ~W!EndsAs(r, "lost")
    <2> DEFINE j == inWatch[r]
               k == [step |-> "writing", lease |-> j.lease, until |-> j.until,
                     held |-> W!WatchBySource, at |-> hour, status |-> j.status, capture |-> j.capture]
    <2>1. inWatch' = [inWatch EXCEPT ![r] = k]
      BY <1>3 DEF W!ReadWatch
    <2>2. k.lease = inWatch[r].lease /\ k.until = inWatch[r].until /\ k.held = watch /\ k.at = hour
      BY DEF W!WatchBySource
    <2> HIDE DEF k
    <2> QED BY <1>1, <2>1, <2>2, QuietRunning
  <1> QED BY <1>2, <1>3

LEMMA StepsOfWatch ==
    ASSUME WatchTypes, W!Next
    PROVE  W!Around \/ \E r \in Watchers : QuietStep(r) \/ WritesRow(r)
  <1> SUFFICES ASSUME NEW r \in Watchers,
                      \/ \E setting \in BOOLEAN : W!setSourceWatch(r, setting)
                      \/ W!runSourceWatch(r) \/ W!Begin(r) \/ W!Fetch(r) \/ W!Look(r)
                      \/ W!AddCapture(r) \/ W!ReadWatch(r) \/ W!Die(r)
               PROVE  QuietStep(r)
    BY DEF W!Next, WritesRow
  <1>1. CASE W!Die(r) BY <1>1, QuietEnds DEF W!Die, W!world
  <1> QED BY <1>1, QuietAsking, QuietGoing, QuietFetching, QuietCapturing, QuietReading

-----------------------------------------------------------------------------
(* Leases, and the switch.                                                 *)

\* The leases, as far as rows are written by who has read them.
LeasedApart == HeldIsRead /\ LeasesHold /\ W!OneLeaseAtATime /\ W!SwitchIsKept

LEMMA LeasesInQuiet ==
    ASSUME WatchTypes, LeasedApart, NEW r \in Watchers, QuietStep(r)
    PROVE  LeasedApart'
  <1>1. ASSUME NEW q \in Watchers
        PROVE  /\ q # r => inWatch'[q] = inWatch[q]
               /\ inWatch'[q].step \in W!Running /\ inWatch'[q].lease = q =>
                     /\ inWatch[q].step \in W!Running /\ inWatch[q].lease = q
                     /\ inWatch'[q].until = inWatch[q].until
    BY WatchersAssumption DEF QuietStep, WatchTypes, WatchJobs, W!None
  <1>2. \A q \in Watchers : W!Leased(q)' => W!Leased(q) /\ inWatch'[q].until = inWatch[q].until
    BY <1>1 DEF W!Leased, QuietStep
  <1>3. HeldIsRead'
    <2> SUFFICES ASSUME NEW h \in Watchers, inWatch'[h].step \in {"configuring", "writing"}, h \notin stale
                 PROVE  /\ inWatch'[h].held = watch'
                        /\ \A q \in Watchers : LastsUntil(q, inWatch[h].at)'
      BY DEF HeldIsRead, W!Holders, W!At, QuietStep
    <2>0. watch' = watch /\ hour' = hour BY DEF QuietStep
    <2>1. CASE h = r
      <3>1. inWatch'[h].held = watch /\ inWatch'[h].at = hour BY <2>1 DEF QuietStep
      <3>2. ASSUME NEW q \in Watchers PROVE LastsUntil(q, hour)'
        BY <1>1 DEF LastsUntil, WatchTypes, WatchJobs, WatchJob, QuietStep
      <3> QED BY <2>0, <3>1, <3>2 DEF LastsUntil
    <2>2. CASE h # r
      <3>1. inWatch'[h] = inWatch[h] BY <2>2, <1>1
      <3>2. inWatch[h].held = watch /\ \A q \in Watchers : LastsUntil(q, inWatch[h].at)
        BY <3>1 DEF LeasedApart, HeldIsRead, W!Holders, W!At
      <3> QED BY <2>0, <3>1, <3>2, <1>1 DEF LastsUntil
    <2> QED BY <2>1, <2>2
  <1>4. LeasesHold'
    BY <1>2 DEF LeasedApart, LeasesHold, LeaseOrLater, QuietStep
  <1> QED BY <1>2, <1>3, <1>4 DEF LeasedApart, W!OneLeaseAtATime, W!SwitchIsKept, QuietStep

LEMMA LeasesInTime ==
    ASSUME WatchTypes, WatchTypes', LeasedApart, W!Around
    PROVE  LeasedApart'
  <1>1. hour <= hour' /\ hour \in Nat /\ hour' \in Nat
    BY DEF W!Around, W!Tick, W!PageChanges, W!Purge, WatchTypes
  <1>2. UNCHANGED <<watch, inWatch, stale, crossed, wanted>> BY DEF W!Around
  <1>3. \A q \in Watchers : inWatch[q].step \in W!Running => inWatch[q].until \in Nat
    BY <1>1 DEF WatchTypes, WatchJobs, WatchJob, W!Lease
  <1>4. \A q \in Watchers : W!Leased(q)' => W!Leased(q)
    BY <1>1, <1>2, <1>3 DEF W!Leased
  <1>5. HeldIsRead' BY <1>2 DEF LeasedApart, HeldIsRead, W!Holders, W!At, LastsUntil
  <1> QED BY <1>2, <1>4, <1>5
    DEF LeasedApart, LeasesHold, LeaseOrLater, W!OneLeaseAtATime, W!SwitchIsKept

\* Nobody is inside a lease when the watch is due.
LEMMA DueToNobody ==
    ASSUME WatchTypes, LeasesHold, ~crossed, W!Due, NEW q \in Watchers
    PROVE  ~W!Leased(q)
  <1> SUFFICES ASSUME W!Leased(q) PROVE FALSE OBVIOUS
  <1>1. inWatch[q].until > hour /\ LeaseOrLater(q) BY DEF W!Leased, LeasesHold
  <1>2. hour \in Nat /\ watch.next \in Nat /\ watch.until \in Nat /\ inWatch[q].until \in Nat
    BY DEF WatchTypes, RowIsTrue, WatchRows, W!Leased, WatchJobs, WatchJob, W!Lease
  <1> QED BY <1>1, <1>2, WatchersAssumption DEF LeaseOrLater, W!Due, W!None

LEMMA LeasesInClaim ==
    ASSUME WatchTypes, LeasedApart, NEW r \in Watchers, W!runDueSourceWatch(r)
    PROVE  LeasedApart'
  <1> DEFINE k == [step |-> "begin", lease |-> r, until |-> hour + W!Lease]
  <1>1. /\ inWatch'[r] = k /\ \A q \in Watchers : q # r => inWatch'[q] = inWatch[q]
        /\ UNCHANGED <<hour, crossed, wanted>>
    BY DEF W!runDueSourceWatch, W!world, WatchTypes, WatchJobs
  <1>2. hour \in Nat /\ hour + W!Lease \in Nat \ {0} BY DEF WatchTypes, W!Lease
  <1>3. /\ watch' = [watch EXCEPT !.lease = r, !.until = hour + W!Lease]
        /\ stale' = W!Holders \ {r} /\ W!At(r, "idle") /\ W!Due
    BY DEF W!runDueSourceWatch, W!ClaimDueWatch, W!Writes
  <1>4. watch'.lease = r /\ watch'.until = hour + W!Lease /\ watch'.enabled = watch.enabled
    <2>1. RowIsTrue(watch) BY DEF WatchTypes
    <2> HIDE DEF k
    <2> QED BY <1>2, <1>3, <2>1 DEF RowIsTrue, WatchRows
  <1>5. HeldIsRead'
    <2>1. W!Holders' \subseteq stale'
      BY <1>1, <1>3 DEF W!Holders, W!At
    <2> QED BY <2>1 DEF HeldIsRead
  <1>6. ASSUME ~crossed, NEW q \in Watchers, W!Leased(q)' PROVE q = r
    BY <1>1, <1>3, <1>6, DueToNobody DEF LeasedApart, W!Leased
  <1>7. LeasesHold' BY <1>1, <1>4, <1>6 DEF LeasesHold, LeaseOrLater
  <1>8. W!OneLeaseAtATime' BY <1>1, <1>6 DEF W!OneLeaseAtATime
  <1> QED BY <1>1, <1>4, <1>5, <1>7, <1>8 DEF LeasedApart, W!SwitchIsKept

\* Whoever writes the row it has read leaves it without a lease, and not due
\* before those that there were have passed.
LEMMA LeasesInWriting ==
    ASSUME WatchTypes, LeasedApart, NEW r \in Watchers, inWatch[r].step \in {"configuring", "writing"},
           NEW step \in {"told", "done"}, W!EndsAs(r, step), NEW written, W!UpsertWatch(r, written),
           UNCHANGED <<hour, captures>>,
           written.lease = W!None,
           written.enabled => written.next = inWatch[r].at + W!Interval,
           crossed \/ r \in stale \/ written.enabled = wanted'
    PROVE  LeasedApart'
  <1>1. /\ inWatch'[r].step = step /\ \A q \in Watchers : q # r => inWatch'[q] = inWatch[q]
        /\ step \notin W!Running
    BY EndsOfWatch DEF W!EndsAs, W!Running, WatchTypes, WatchJobs
  <1>2. /\ watch' = written /\ stale' = W!Holders \ {r}
        /\ ~crossed' => ~crossed /\ r \notin stale
    BY DEF W!UpsertWatch, W!Writes
  <1>3. HeldIsRead'
    <2>1. W!Holders' \subseteq stale'
      BY <1>1, <1>2 DEF W!Holders, W!At
    <2> QED BY <2>1 DEF HeldIsRead
  <1>4. \A q \in Watchers : W!Leased(q)' => W!Leased(q) /\ inWatch'[q] = inWatch[q]
    BY <1>1 DEF W!Leased
  <1>5. ASSUME ~crossed' PROVE \A q \in Watchers : W!Leased(q)' => LeaseOrLater(q)'
    <2> SUFFICES ASSUME NEW q \in Watchers, W!Leased(q), inWatch'[q] = inWatch[q]
                 PROVE  LeaseOrLater(q)'
      BY <1>4
    <2>1. r \in W!Holders \ stale BY <1>2, <1>5 DEF W!Holders, W!At
    <2>2. inWatch[q].until <= inWatch[r].at + W!Lease
      BY <2>1 DEF LeasedApart, HeldIsRead, LastsUntil, W!Leased
    <2>3. inWatch[q].until \in Nat /\ inWatch[r].at \in Nat
      BY DEF WatchTypes, WatchJobs, WatchJob, W!Leased, W!Lease
    <2>4. inWatch[q].until <= inWatch[r].at + W!Interval
      BY <2>2, <2>3 DEF W!Lease, W!Interval
    <2> QED BY <1>2, <2>4 DEF LeaseOrLater
  <1>6. LeasesHold' BY <1>5 DEF LeasesHold
  <1>7. W!OneLeaseAtATime' BY <1>2, <1>4 DEF LeasedApart, W!OneLeaseAtATime
  <1>8. W!SwitchIsKept' BY <1>2 DEF W!SwitchIsKept
  <1> QED BY <1>3, <1>6, <1>7, <1>8 DEF LeasedApart

LEMMA LeasesInConfiguring ==
    ASSUME WatchTypes, LeasedApart, NEW r \in Watchers, W!ConfigureWatch(r)
    PROVE  LeasedApart'
  <1> DEFINE written == W!Configured(inWatch[r].held, inWatch[r].on, inWatch[r].at)
  <1>1. inWatch[r].step = "configuring" BY DEF W!ConfigureWatch, W!At
  <1>2. RowIsTrue(inWatch[r].held) /\ inWatch[r].on \in BOOLEAN /\ inWatch[r].at \in Nat
    BY <1>1 DEF WatchTypes, WatchJobs, WatchJob
  <1>3. /\ written.enabled = inWatch[r].on /\ written.lease = W!None
        /\ inWatch[r].on => written.next = inWatch[r].at + W!Interval
    BY <1>2, ConfiguredRow
  <1>4. /\ W!UpsertWatch(r, written) /\ W!EndsAs(r, "done") /\ wanted' = inWatch[r].on
        /\ UNCHANGED <<hour, captures>>
    BY DEF W!ConfigureWatch, W!world
  <1> HIDE DEF written
  <1> QED BY <1>1, <1>3, <1>4, LeasesInWriting

LEMMA LeasesInRecording ==
    ASSUME WatchTypes, LeasedApart, NEW r \in Watchers, W!RecordWatchRun(r)
    PROVE  LeasedApart'
  <1> DEFINE written == W!Ran(inWatch[r].held, inWatch[r].status, inWatch[r].capture, inWatch[r].at)
  <1>1. inWatch[r].step = "writing" BY DEF W!RecordWatchRun, W!At
  <1>2. /\ RowIsTrue(inWatch[r].held) /\ inWatch[r].held.enabled /\ inWatch[r].at \in Nat
        /\ inWatch[r].status \in W!Statuses /\ inWatch[r].capture \in Nat
    BY <1>1 DEF WatchTypes, WatchJobs, WatchJob, W!Statuses
  <1>3. /\ RowIsTrue(written) /\ written.enabled /\ written.lease = W!None
        /\ written.next = inWatch[r].at + W!Interval
    <2>1. RowIsTrue(written) BY <1>2, RanRow
    <2>2. written.enabled BY <1>2, RanRow
    <2>3. written.lease = W!None BY <1>2, RanRow, SMTT(60)
    <2>4. written.next = inWatch[r].at + W!Interval BY <1>2, RanRow, SMTT(60)
    <2> QED BY <2>1, <2>2, <2>3, <2>4
  <1>4. /\ W!UpsertWatch(r, written) /\ W!EndsAs(r, "told") /\ UNCHANGED <<hour, captures, wanted>>
    BY DEF W!RecordWatchRun, W!world
  <1>5. crossed \/ r \in stale \/ written.enabled = wanted'
    <2>1. r \notin stale => watch.enabled = TRUE /\ written.enabled = TRUE
      BY <1>3, <1>1, <1>2 DEF LeasedApart, HeldIsRead, W!Holders, W!At, RowIsTrue, WatchRows
    <2> QED BY <1>3, <1>4, <2>1 DEF LeasedApart, W!SwitchIsKept
  <1> HIDE DEF written
  <1> QED BY <1>1, <1>3, <1>4, <1>5, LeasesInWriting

-----------------------------------------------------------------------------
(* Captures, and what is told of them.                                     *)

CapturesTold == CapturesAreOwn /\ ChangesAreKept /\ W!ChangesAreTold /\ W!TwinsWereRaced

\* A request that keeps no capture and tells of none.
MovesOn(j, k) ==
    \/ /\ j.step \in {"reading", "writing"}
       /\ \/ k.step = "lost"
          \/ k.step = "writing" /\ k.status = j.status /\ k.capture = j.capture
    \/ /\ j.step \notin {"reading", "writing", "told", "lost"}
       /\ k.step \in {"reading", "writing"} => k.status # "changed"

LEMMA CapturesInMoving ==
    ASSUME WatchTypes, CapturesTold, NEW r \in Watchers, NEW k, inWatch' = [inWatch EXCEPT ![r] = k],
           MovesOn(inWatch[r], k), UNCHANGED <<captures, notices>>
    PROVE  CapturesTold'
  <1>1. inWatch'[r] = k /\ \A q \in Watchers : q # r => inWatch'[q] = inWatch[q]
    BY DEF WatchTypes, WatchJobs
  <1>2. \A i \in DOMAIN captures : captures[i].by \in Watchers
    <2>1. \A i \in DOMAIN captures : captures[i] \in Captures BY DEF WatchTypes
    <2> QED BY <2>1 DEF Captures
  <1>3. \A a \in notices : a.by \in Watchers
    BY DEF WatchTypes, Notices
  <1>4. ASSUME NEW i \in DOMAIN captures
        PROVE  OwnCapture(i)'
    BY <1>1, <1>2 DEF CapturesTold, CapturesAreOwn, OwnCapture, MovesOn
  <1>5. ASSUME NEW q \in Watchers PROVE KeptCapture(q)'
    BY <1>1 DEF CapturesTold, ChangesAreKept, KeptCapture, MovesOn
  <1>6. ASSUME NEW i \in DOMAIN captures,
               ~ \E a \in notices : a.capture = i /\ a.by = captures[i].by
        PROVE  inWatch'[captures[i].by].step \in {"reading", "writing", "lost"}
    <2>1. inWatch[captures[i].by].step \in {"reading", "writing", "lost"}
      BY <1>6 DEF CapturesTold, W!ChangesAreTold
    <2> QED BY <2>1, <1>1, <1>2 DEF MovesOn
  <1>7. ASSUME NEW a \in notices PROVE inWatch'[a.by].step = "told"
    <2>1. inWatch[a.by].step = "told" BY DEF CapturesTold, W!ChangesAreTold
    <2> QED BY <2>1, <1>1, <1>3 DEF MovesOn
  <1>8. W!ChangesAreTold' BY <1>6, <1>7 DEF CapturesTold, W!ChangesAreTold
  <1> QED BY <1>4, <1>5, <1>8 DEF CapturesTold, CapturesAreOwn, ChangesAreKept, W!TwinsWereRaced

LEMMA CapturesInEnding ==
    ASSUME WatchTypes, CapturesTold, NEW r \in Watchers, NEW step \in {"lost", "done"}, W!EndsAs(r, step),
           \/ inWatch[r].step \notin {"reading", "writing", "told", "lost"}
           \/ step = "lost" /\ inWatch[r].step \in {"reading", "writing"},
           UNCHANGED <<captures, notices>>
    PROVE  CapturesTold'
  <1> DEFINE k == [W!Idle EXCEPT !.step = step]
  <1>1. inWatch' = [inWatch EXCEPT ![r] = k] /\ k.step = step BY DEF W!EndsAs, W!Idle
  <1> HIDE DEF k
  <1>2. MovesOn(inWatch[r], k) BY <1>1 DEF MovesOn
  <1> QED BY <1>1, <1>2, CapturesInMoving

LEMMA CapturesInAsking ==
    ASSUME WatchTypes, CapturesTold, NEW r \in Watchers, NEW setting \in BOOLEAN,
           W!setSourceWatch(r, setting)
    PROVE  CapturesTold'
  <1>1. MovesOn(inWatch[r], W!Asks(r, setting))
    BY DEF MovesOn, W!Asks, W!setSourceWatch, W!At
  <1> QED BY <1>1, CapturesInMoving DEF W!setSourceWatch, W!world

LEMMA CapturesInClaiming ==
    ASSUME WatchTypes, CapturesTold, NEW r \in Watchers, W!runDueSourceWatch(r)
    PROVE  CapturesTold'
  <1> DEFINE k == [step |-> "begin", lease |-> r, until |-> hour + W!Lease]
  <1>1. MovesOn(inWatch[r], k) /\ inWatch' = [inWatch EXCEPT ![r] = k]
    BY DEF MovesOn, W!runDueSourceWatch, W!At
  <1> HIDE DEF k
  <1> QED BY <1>1, CapturesInMoving DEF W!runDueSourceWatch, W!world

LEMMA CapturesInGoing ==
    ASSUME WatchTypes, CapturesTold, NEW r \in Watchers, W!runSourceWatch(r) \/ W!Begin(r)
    PROVE  CapturesTold'
  <1>1. inWatch[r].step \in {"idle", "begin"} /\ UNCHANGED <<captures, notices>>
    BY DEF W!runSourceWatch, W!Begin, W!At
  <1>2. CASE W!EndsAs(r, "done") BY <1>1, <1>2, CapturesInEnding
  <1>3. ASSUME NEW step \in {"begin", "fetching"}, W!Goes(r, step)
        PROVE  CapturesTold'
    <2> DEFINE k == [inWatch[r] EXCEPT !.step = step]
    <2>1. inWatch' = [inWatch EXCEPT ![r] = k] BY <1>3 DEF W!Goes
    <2>2. inWatch[r] = [step |-> inWatch[r].step, lease |-> inWatch[r].lease, until |-> inWatch[r].until]
      BY <1>1 DEF WatchTypes, WatchJobs, WatchJob, W!Idle
    <2>3. k.step = step BY <2>2
    <2> HIDE DEF k
    <2>4. MovesOn(inWatch[r], k) BY <1>1, <2>3 DEF MovesOn
    <2> QED BY <1>1, <2>1, <2>4, CapturesInMoving
  <1> QED BY <1>2, <1>3 DEF W!runSourceWatch, W!Begin

LEMMA CapturesInAnswering ==
    ASSUME WatchTypes, CapturesTold, NEW r \in Watchers,
           inWatch[r].step \in {"fetching", "looking", "capturing"},
           NEW status \in {"unchanged", "failed"}, W!Recording(r, status, W!Never),
           UNCHANGED <<captures, notices>>
    PROVE  CapturesTold'
  <1> DEFINE k == [step |-> "reading", lease |-> inWatch[r].lease, until |-> inWatch[r].until,
                   status |-> status, capture |-> W!Never]
  <1>1. inWatch' = [inWatch EXCEPT ![r] = k] BY DEF W!Recording
  <1>2. MovesOn(inWatch[r], k) BY DEF MovesOn
  <1> HIDE DEF k
  <1> QED BY <1>1, <1>2, CapturesInMoving

LEMMA CapturesInFetching ==
    ASSUME WatchTypes, CapturesTold, NEW r \in Watchers, W!Fetch(r) \/ W!Look(r)
    PROVE  CapturesTold'
  <1>1. inWatch[r].step \in {"fetching", "looking"} /\ UNCHANGED <<captures, notices>>
    BY DEF W!Fetch, W!Look, W!At
  <1>2. CASE W!Recording(r, "unchanged", W!Never) \/ W!Fails(r)
    BY <1>1, <1>2, CapturesInAnswering DEF W!Fails
  <1>3. ASSUME NEW k, inWatch' = [inWatch EXCEPT ![r] = k], k.step \in {"looking", "capturing"}
        PROVE  CapturesTold'
    <2>1. MovesOn(inWatch[r], k) BY <1>1, <1>3 DEF MovesOn
    <2> QED BY <1>1, <1>3, <2>1, CapturesInMoving
  <1>4. CASE \E bytes : inWatch' = [inWatch EXCEPT ![r] = [step |-> "looking", lease |-> inWatch[r].lease,
                                    until |-> inWatch[r].until, bytes |-> bytes]]
    BY <1>3, <1>4
  <1>5. CASE inWatch' = [inWatch EXCEPT ![r] = [step |-> "capturing", lease |-> inWatch[r].lease,
                         until |-> inWatch[r].until, bytes |-> inWatch[r].bytes, looked |-> Len(captures)]]
    BY <1>3, <1>5
  <1> QED BY <1>2, <1>4, <1>5 DEF W!Fetch, W!Look

LEMMA CapturesInReading ==
    ASSUME WatchTypes, CapturesTold, NEW r \in Watchers, W!ReadWatch(r)
    PROVE  CapturesTold'
  <1>1. inWatch[r].step = "reading" /\ UNCHANGED <<captures, notices>>
    BY DEF W!ReadWatch, W!At
  <1>2. CASE W!EndsAs(r, "lost") BY <1>1, <1>2, CapturesInEnding
  <1>3. CASE ~W!EndsAs(r, "lost")
    <2> DEFINE j == inWatch[r]
               k == [step |-> "writing", lease |-> j.lease, until |-> j.until,
                     held |-> W!WatchBySource, at |-> hour, status |-> j.status, capture |-> j.capture]
    <2>1. inWatch' = [inWatch EXCEPT ![r] = k]
      BY <1>3 DEF W!ReadWatch
    <2>2. MovesOn(inWatch[r], k) BY <1>1 DEF MovesOn
    <2> HIDE DEF k
    <2> QED BY <1>1, <2>1, <2>2, CapturesInMoving
  <1> QED BY <1>2, <1>3

LEMMA CapturesInCapturing ==
    ASSUME WatchTypes, CapturesTold, NEW r \in Watchers, W!AddCapture(r)
    PROVE  CapturesTold'
  <1>1. inWatch[r].step = "capturing" /\ notices' = notices
    BY DEF W!AddCapture, W!At
  <1>2. CASE W!Fails(r) /\ UNCHANGED captures
    BY <1>1, <1>2, CapturesInAnswering DEF W!Fails
  <1>3. CASE ~(W!Fails(r) /\ UNCHANGED captures)
    <2> DEFINE c == [bytes |-> inWatch[r].bytes, by |-> r, looked |-> inWatch[r].looked]
               n == Len(captures)
               k == [step |-> "reading", lease |-> inWatch[r].lease, until |-> inWatch[r].until,
                     status |-> "changed", capture |-> n + 1]
    <2>1. captures' = Append(captures, c) /\ inWatch' = [inWatch EXCEPT ![r] = k]
      BY <1>3 DEF W!AddCapture, W!Recording
    <2>2. /\ k.step = "reading" /\ k.status = "changed" /\ k.capture = n + 1
          /\ c.bytes = inWatch[r].bytes /\ c.by = r /\ c.looked = inWatch[r].looked
      OBVIOUS
    <2>3. /\ captures \in Seq(Captures) /\ n \in Nat
          /\ c.looked \in 0 .. n
          /\ c.looked # 0 => captures[c.looked].bytes # c.bytes
      BY <1>1 DEF WatchTypes, WatchJobs, WatchJob
    <2> HIDE DEF c, k
    <2>4. inWatch'[r] = k /\ \A q \in Watchers : q # r => inWatch'[q] = inWatch[q]
      BY <2>1 DEF WatchTypes, WatchJobs
    <2>5. /\ DOMAIN captures = 1 .. n /\ DOMAIN captures' = 1 .. n + 1 /\ Len(captures') = n + 1
          /\ captures'[n + 1] = c /\ \A i \in 1 .. n : captures'[i] = captures[i]
      BY <2>1, <2>3
    <2>6. \A i \in 1 .. n : captures[i].by \in Watchers
      <3>1. \A i \in 1 .. n : captures[i] \in Captures BY <2>3
      <3> QED BY <3>1 DEF Captures
    <2>7. \A a \in notices : a.by \in Watchers BY DEF WatchTypes, Notices
    <2>8. ASSUME NEW i \in 1 .. n
          PROVE  captures[i].by # r /\ inWatch'[captures[i].by] = inWatch[captures[i].by]
      <3>1. OwnCapture(i) BY <2>5 DEF CapturesTold, CapturesAreOwn
      <3> QED BY <3>1, <1>1, <2>4, <2>6 DEF OwnCapture
    <2>9. ASSUME NEW i \in 1 .. n + 1 PROVE OwnCapture(i)'
      <3>1. CASE i = n + 1 BY <3>1, <2>2, <2>4, <2>5 DEF OwnCapture
      <3>2. CASE i # n + 1
        <4>1. i \in 1 .. n BY <2>3, <3>2
        <4>2. OwnCapture(i) BY <4>1, <2>5 DEF CapturesTold, CapturesAreOwn
        <4>3. captures'[i] = captures[i] /\ inWatch'[captures[i].by] = inWatch[captures[i].by]
          BY <4>1, <2>5, <2>8
        <4> QED BY <4>2, <4>3 DEF OwnCapture
      <3> QED BY <3>1, <3>2
    <2>10. ASSUME NEW q \in Watchers PROVE KeptCapture(q)'
      <3>1. CASE q = r BY <3>1, <2>2, <2>3, <2>4, <2>5 DEF KeptCapture
      <3>2. CASE q # r
        <4>1. inWatch'[q] = inWatch[q] /\ KeptCapture(q)
          BY <3>2, <2>4 DEF CapturesTold, ChangesAreKept
        <4> QED BY <4>1, <2>3, <2>5 DEF KeptCapture
      <3> QED BY <3>1, <3>2
    <2>11. ASSUME NEW a \in notices, a.kind = "capture_changed"
           PROVE  a.capture \in 1 .. n
      BY <2>5, <2>11 DEF CapturesTold, ChangesAreKept
    <2>12. W!ChangesAreTold'
      <3>1. ASSUME NEW i \in 1 .. n + 1
            PROVE  \/ \E a \in notices : a.capture = i /\ a.by = captures'[i].by
                   \/ inWatch'[captures'[i].by].step \in {"reading", "writing", "lost"}
        <4>1. CASE i = n + 1 BY <4>1, <2>2, <2>4, <2>5
        <4>2. CASE i # n + 1
          <5>1. i \in 1 .. n BY <2>3, <4>2
          <5>2. captures'[i] = captures[i] /\ inWatch'[captures[i].by] = inWatch[captures[i].by]
            BY <5>1, <2>5, <2>8
          <5> QED BY <5>1, <5>2, <2>5 DEF CapturesTold, W!ChangesAreTold
        <4> QED BY <4>1, <4>2
      <3>2. ASSUME NEW a \in notices PROVE inWatch'[a.by].step = "told"
        <4>1. inWatch[a.by].step = "told" BY DEF CapturesTold, W!ChangesAreTold
        <4> QED BY <4>1, <1>1, <2>4, <2>7
      <3>3. ASSUME NEW a \in notices, a.kind = "capture_changed"
            PROVE  captures'[a.capture].by = a.by
        <4>1. captures[a.capture].by = a.by BY <3>3 DEF CapturesTold, W!ChangesAreTold
        <4> QED BY <4>1, <2>5, <2>11, <3>3
      <3> QED BY <1>1, <2>5, <3>1, <3>2, <3>3 DEF W!ChangesAreTold
    <2>13. ASSUME NEW i \in 1 .. n, captures'[i].bytes = captures'[i + 1].bytes
           PROVE  captures'[i + 1].looked < i
      <3>1. CASE i = n
        <4>1. captures[n].bytes = c.bytes /\ captures'[i + 1] = c /\ n # 0
          BY <3>1, <2>3, <2>5, <2>13
        <4>2. c.looked # n BY <4>1, <2>3
        <4>3. c.looked < n BY <4>2, <2>3
        <4> QED BY <3>1, <4>1, <4>3
      <3>2. CASE i # n
        <4>1. i \in 1 .. n - 1 /\ i + 1 \in 1 .. n BY <2>3, <3>2
        <4>2. captures'[i] = captures[i] /\ captures'[i + 1] = captures[i + 1] BY <4>1, <2>5
        <4> QED BY <4>1, <4>2, <2>13 DEF CapturesTold, W!TwinsWereRaced
      <3> QED BY <3>1, <3>2
    <2>14. W!TwinsWereRaced' BY <2>3, <2>5, <2>13 DEF W!TwinsWereRaced
    <2>15. CapturesAreOwn' BY <2>5, <2>9 DEF CapturesAreOwn
    <2>16. ChangesAreKept' BY <1>1, <2>3, <2>5, <2>10, <2>11 DEF ChangesAreKept
    <2> QED BY <2>12, <2>14, <2>15, <2>16 DEF CapturesTold
  <1> QED BY <1>2, <1>3

LEMMA CapturesInRecording ==
    ASSUME WatchTypes, CapturesTold, NEW r \in Watchers, W!RecordWatchRun(r)
    PROVE  CapturesTold'
  <1>1. inWatch[r].step = "writing" /\ captures' = captures /\ notices' = notices \cup W!NewAlert(r)
    BY DEF W!RecordWatchRun, W!At, W!world
  <1>2. inWatch'[r].step = "told" /\ \A q \in Watchers : q # r => inWatch'[q] = inWatch[q]
    BY EndsOfWatch DEF W!EndsAs, W!RecordWatchRun, W!world, WatchTypes, WatchJobs
  <1>3. \A i \in DOMAIN captures : captures[i].by \in Watchers
    <2>1. \A i \in DOMAIN captures : captures[i] \in Captures BY DEF WatchTypes
    <2> QED BY <2>1 DEF Captures
  <1>4. \A a \in notices : a.by \in Watchers BY DEF WatchTypes, Notices
  <1>5. \A a \in W!NewAlert(r) :
           /\ a.by = r /\ a.capture = inWatch[r].capture
           /\ a.kind = "capture_changed" => inWatch[r].status = "changed"
    BY DEF W!NewAlert
  <1>6. ASSUME NEW i \in DOMAIN captures PROVE OwnCapture(i)'
    <2>1. OwnCapture(i) BY DEF CapturesTold, CapturesAreOwn
    <2> QED BY <2>1, <1>1, <1>2, <1>3 DEF OwnCapture
  <1>7. ASSUME NEW q \in Watchers PROVE KeptCapture(q)'
    BY <1>1, <1>2 DEF CapturesTold, ChangesAreKept, KeptCapture
  <1>8. ASSUME NEW a \in notices', a.kind = "capture_changed"
        PROVE  a.capture \in DOMAIN captures /\ captures[a.capture].by = a.by
    <2>1. CASE a \in notices BY <1>8, <2>1 DEF CapturesTold, ChangesAreKept, W!ChangesAreTold
    <2>2. CASE a \in W!NewAlert(r)
      BY <1>8, <2>2, <1>1, <1>5 DEF CapturesTold, ChangesAreKept, KeptCapture
    <2> QED BY <1>1, <2>1, <2>2
  <1>9. ASSUME NEW i \in DOMAIN captures
        PROVE  \/ \E a \in notices' : a.capture = i /\ a.by = captures[i].by
               \/ inWatch'[captures[i].by].step \in {"reading", "writing", "lost"}
    <2>1. CASE captures[i].by = r
      <3>1. inWatch[r].status = "changed" /\ inWatch[r].capture = i
        BY <2>1, <1>1 DEF CapturesTold, CapturesAreOwn, OwnCapture
      <3>2. [by |-> r, kind |-> "capture_changed", capture |-> i] \in W!NewAlert(r)
        BY <3>1 DEF W!NewAlert
      <3> QED BY <2>1, <3>2, <1>1
    <2>2. CASE captures[i].by # r
      BY <2>2, <1>1, <1>2, <1>3 DEF CapturesTold, W!ChangesAreTold
    <2> QED BY <2>1, <2>2
  <1>10. ASSUME NEW a \in notices' PROVE inWatch'[a.by].step = "told"
    <2>1. CASE a \in notices
      <3>1. inWatch[a.by].step = "told" BY <2>1 DEF CapturesTold, W!ChangesAreTold
      <3> QED BY <2>1, <3>1, <1>1, <1>2, <1>4
    <2>2. CASE a \in W!NewAlert(r) BY <2>2, <1>2, <1>5
    <2> QED BY <1>1, <2>1, <2>2
  <1>11. W!ChangesAreTold' BY <1>1, <1>8, <1>9, <1>10 DEF W!ChangesAreTold
  <1> QED BY <1>1, <1>6, <1>7, <1>8, <1>11
    DEF CapturesTold, CapturesAreOwn, ChangesAreKept, W!TwinsWereRaced

LEMMA CapturesOfWatch ==
    ASSUME WatchTypes, CapturesTold, W!Next
    PROVE  CapturesTold'
  <1>1. CASE W!Around
    <2>1. UNCHANGED <<captures, notices, inWatch>> BY <1>1 DEF W!Around
    <2> QED BY <2>1
      DEF CapturesTold, CapturesAreOwn, OwnCapture, ChangesAreKept, KeptCapture,
          W!ChangesAreTold, W!TwinsWereRaced
  <1>2. ASSUME NEW r \in Watchers, W!ConfigureWatch(r) PROVE CapturesTold'
    BY <1>2, CapturesInEnding DEF W!ConfigureWatch, W!At
  <1>3. ASSUME NEW r \in Watchers, W!Die(r) PROVE CapturesTold'
    BY <1>3, CapturesInEnding DEF W!Die, W!Running
  <1> QED BY <1>1, <1>2, <1>3, CapturesInAsking, CapturesInClaiming, CapturesInGoing,
             CapturesInFetching, CapturesInReading, CapturesInCapturing, CapturesInRecording
      DEF W!Next

LEMMA LeasesOfWatch ==
    ASSUME WatchTypes, LeasedApart, W!Next
    PROVE  LeasedApart'
  <1>1. CASE W!Around BY <1>1, TypesOfWatch, LeasesInTime
  <1>2. ASSUME NEW r \in Watchers, QuietStep(r) PROVE LeasedApart'
    BY <1>2, LeasesInQuiet
  <1>3. ASSUME NEW r \in Watchers, WritesRow(r) PROVE LeasedApart'
    BY <1>3, LeasesInClaim, LeasesInConfiguring, LeasesInRecording DEF WritesRow
  <1> QED BY <1>1, <1>2, <1>3, StepsOfWatch

-----------------------------------------------------------------------------
\* A behaviour of MCAuthoring is one of the watch: its part of a step is a step
\* of the watch, or none.
LEMMA WatchBegins == ASSUME AuthoringInit PROVE WatchInv
  <1>1. W!Init BY DEF AuthoringInit
  <1>2. \A r \in Watchers : inWatch[r] = W!Idle /\ inWatch[r].step = "idle"
    BY <1>1 DEF W!Init, W!Idle
  <1>3. RowIsTrue(watch) /\ watch.enabled = TRUE
    BY <1>1 DEF W!Init, W!NewWatch, RowIsTrue, WatchRows, W!Statuses, W!Interval, W!Never, W!None
  <1>4. WatchJobs
    <2>1. inWatch = [r \in Watchers |-> inWatch[r]] BY <1>1 DEF W!Init
    <2>2. ASSUME NEW r \in Watchers PROVE WatchJob(r, inWatch[r], hour, captures)
      BY <1>2 DEF WatchJob, WatchSteps, W!Running
    <2> QED BY <2>1, <2>2 DEF WatchJobs
  <1>5. WatchTypes
    <2>1. captures \in Seq(Captures) /\ notices \subseteq Notices /\ stale \subseteq Watchers
      BY <1>1 DEF W!Init
    <2>2. hour \in 0 .. MaxTime /\ deaths \in 0 .. MaxDeaths
      BY <1>1, WatchersAssumption DEF W!Init
    <2> QED BY <1>1, <1>3, <1>4, <2>1, <2>2 DEF WatchTypes, W!Init
  <1>6. HeldIsRead BY <1>2 DEF HeldIsRead, W!Holders, W!At
  <1>7. LeasesHold /\ W!OneLeaseAtATime
    BY <1>2 DEF LeasesHold, W!OneLeaseAtATime, W!Leased, W!Running
  <1>8. CapturesAreOwn /\ ChangesAreKept /\ W!ChangesAreTold /\ W!TwinsWereRaced
    BY <1>1, <1>2
    DEF W!Init, CapturesAreOwn, ChangesAreKept, KeptCapture, W!ChangesAreTold, W!TwinsWereRaced
  <1>9. W!SwitchIsKept BY <1>1, <1>3 DEF W!Init, W!SwitchIsKept
  <1> QED BY <1>5, <1>6, <1>7, <1>8, <1>9 DEF WatchInv

LEMMA WatchLastsInSteps ==
    ASSUME WatchInv, W!Next PROVE WatchInv'
  <1>1. WatchTypes' BY TypesOfWatch DEF WatchInv
  <1>2. LeasedApart' BY LeasesOfWatch DEF WatchInv, LeasedApart
  <1>3. CapturesTold' BY CapturesOfWatch DEF WatchInv, CapturesTold
  <1> QED BY <1>1, <1>2, <1>3 DEF WatchInv, LeasedApart, CapturesTold

LEMMA WatchStands ==
    ASSUME WatchInv, UNCHANGED watching PROVE WatchInv'
  <1>1. UNCHANGED <<hour, page, purged, captures, watch, notices, inWatch, deaths, wanted, stale, crossed>>
    BY DEF watching
  <1>2. WatchTypes' BY <1>1 DEF WatchInv, WatchTypes, WatchJobs
  <1>3. HeldIsRead' /\ LeasesHold' /\ W!OneLeaseAtATime' /\ W!SwitchIsKept'
    BY <1>1 DEF WatchInv, HeldIsRead, W!Holders, W!At, LastsUntil, LeasesHold, LeaseOrLater, W!Leased,
        W!OneLeaseAtATime, W!SwitchIsKept
  <1>4. CapturesAreOwn' /\ ChangesAreKept' /\ W!ChangesAreTold' /\ W!TwinsWereRaced'
    BY <1>1 DEF WatchInv, CapturesAreOwn, OwnCapture, ChangesAreKept, KeptCapture,
        W!ChangesAreTold, W!TwinsWereRaced
  <1> QED BY <1>2, <1>3, <1>4 DEF WatchInv

LEMMA WatchLasts ==
    ASSUME WatchInv, [AuthoringNext]_all PROVE WatchInv'
  <1>1. W!Next \/ UNCHANGED watching
    BY DEF AuthoringNext, all, bringing
  <1> QED BY <1>1, WatchLastsInSteps, WatchStands

\* The watch in its inductive invariant, for all requests, pages and times.
THEOREM WatchCorrect == AuthoringSpec => []WatchInv
  BY WatchBegins, WatchLasts, PTL DEF AuthoringSpec

\* Two workers are never inside their leases of a watch at once and the switch
\* is where it was put, unless a row was written over one that was not read; a
\* capture that a watch has kept is told of; and the same bytes are kept twice
\* in a row only by runs that raced.
THEOREM WatchesAreKept == AuthoringSpec => []WatchIsKept
  <1>1. WatchInv => WatchIsKept
    BY WatchTypeOK DEF WatchInv, WatchIsKept
  <1> QED BY <1>1, WatchCorrect, PTL

-----------------------------------------------------------------------------
(* The intake of candidates.                                               *)

CandidateRows == [status : {N!None, "pending", "approved", "rejected"},
                  source : Reviewers \cup {N!None}, content : BOOLEAN]
Rulings == [step : {"idle", "storing", "marking", "done", "refused"},
            of : Candidates \cup {N!None}, decision : {N!None, "approved", "rejected"}]

\* A review holds what it read, and has stored the bytes that it read of.
RulingIsOf(r) ==
    /\ ruling[r].step \in {"storing", "marking", "done"} =>
          ruling[r].of \in Candidates /\ ruling[r].decision \in {"approved", "rejected"}
    /\ ruling[r].step = "marking" /\ ruling[r].decision = "approved" /\ ruling[r].of \in Imports =>
          r \in stored
    /\ r \in sources => ruling[r].step = "done"
SourceIsOf(c) == candidate[c].status # "approved" => candidate[c].source = N!None

IntakeInv ==
    /\ candidate \in [Candidates -> CandidateRows] /\ ruling \in [Reviewers -> Rulings]
    /\ sources \subseteq Reviewers /\ stored \subseteq Reviewers
    /\ \A r \in Reviewers : RulingIsOf(r)
    /\ \A c \in Candidates : SourceIsOf(c)
    /\ N!OneSourceEach

LEMMA IntakeTypeOK == ASSUME IntakeInv PROVE N!TypeOK
  BY DEF IntakeInv, CandidateRows, Rulings, N!TypeOK

LEMMA IntakeBegins == ASSUME AuthoringInit PROVE IntakeInv
  <1>1. N!Init BY DEF AuthoringInit
  <1>2. /\ candidate \in [Candidates -> CandidateRows] /\ \A c \in Candidates : candidate[c] = N!Absent
        /\ ruling \in [Reviewers -> Rulings] /\ \A r \in Reviewers : ruling[r].step = "idle"
    BY <1>1 DEF N!Init, N!Absent, N!Unasked, CandidateRows, Rulings
  <1>3. \A c \in Candidates : SourceIsOf(c) BY <1>2 DEF SourceIsOf, N!Absent
  <1>4. N!OneSourceEach
    BY <1>1, <1>2 DEF N!Init, N!OneSourceEach, N!Absent, N!None
  <1> QED BY <1>1, <1>2, <1>3, <1>4 DEF N!Init, IntakeInv, RulingIsOf

LEMMA IntakeOfCandidate ==
    ASSUME IntakeInv, NEW c \in Candidates, N!createSourceIntake(c)
    PROVE  IntakeInv'
  <1> DEFINE new == IF c \in Imports THEN N!NewImportIntakeCandidate ELSE N!NewIntakeCandidate
  <1>1. candidate' = [candidate EXCEPT ![c] = new]
    BY DEF N!createSourceIntake, N!CreateIntakeCandidate, N!CreateImportIntakeCandidate
  <1>2. /\ new \in CandidateRows /\ new.status = "pending" /\ new.source = N!None
        /\ new.content <=> c \in Imports
    BY DEF CandidateRows, N!NewIntakeCandidate, N!NewImportIntakeCandidate
  <1>3. candidate[c].status = N!None /\ UNCHANGED <<ruling, sources, stored>>
    BY DEF N!createSourceIntake
  <1> HIDE DEF new
  <1>4. /\ candidate' \in [Candidates -> CandidateRows] /\ candidate'[c] = new
        /\ \A d \in Candidates : d # c => candidate'[d] = candidate[d]
    BY <1>1, <1>2 DEF IntakeInv
  <1>5. \A r \in sources : ruling[r].of \in Candidates /\ ruling[r].of # c
    BY <1>3, ReviewersAssumption DEF IntakeInv, RulingIsOf, SourceIsOf, N!OneSourceEach, N!None
  <1>6. \A r \in sources : candidate'[ruling[r].of].source = r
    BY <1>4, <1>5 DEF IntakeInv, N!OneSourceEach
  <1>7. ASSUME NEW d \in Candidates
        PROVE  /\ candidate'[d].status = "approved" <=> candidate'[d].source \in sources
               /\ candidate'[d].content <=> (candidate'[d].status = "pending" /\ d \in Imports)
               /\ candidate'[d].status = "approved" /\ d \in Imports => candidate'[d].source \in stored
    <2>1. CASE d = c
      BY <2>1, <1>2, <1>4, ReviewersAssumption DEF IntakeInv, N!None
    <2>2. CASE d # c
      BY <2>2, <1>4 DEF IntakeInv, N!OneSourceEach
    <2> QED BY <2>1, <2>2
  <1>8. N!OneSourceEach' BY <1>3, <1>6, <1>7 DEF N!OneSourceEach
  <1>9. \A d \in Candidates : SourceIsOf(d)' BY <1>2, <1>4 DEF IntakeInv, SourceIsOf
  <1> QED BY <1>3, <1>4, <1>8, <1>9 DEF IntakeInv, RulingIsOf

\* Where a review goes without a mark.
LEMMA IntakeGoesOn ==
    ASSUME IntakeInv, NEW r \in Reviewers, NEW k \in Rulings, ruling' = [ruling EXCEPT ![r] = k],
           ruling[r].step # "done", k.step # "done",
           k.step \in {"storing", "marking"} => k.of \in Candidates /\ k.decision \in {"approved", "rejected"},
           k.step = "marking" /\ k.decision = "approved" /\ k.of \in Imports => r \in stored',
           stored' = stored \/ stored' = stored \cup {r}, UNCHANGED <<candidate, sources>>
    PROVE  IntakeInv'
  <1>1. /\ ruling' \in [Reviewers -> Rulings] /\ ruling'[r] = k
        /\ \A q \in Reviewers : q # r => ruling'[q] = ruling[q]
    BY DEF IntakeInv
  <1>2. r \notin sources BY DEF IntakeInv, RulingIsOf
  <1>3. \A q \in Reviewers : RulingIsOf(q)'
    BY <1>1, <1>2 DEF IntakeInv, RulingIsOf
  <1>4. N!OneSourceEach' BY <1>1, <1>2 DEF IntakeInv, N!OneSourceEach
  <1> QED BY <1>1, <1>3, <1>4 DEF IntakeInv, SourceIsOf

LEMMA IntakeOfReview ==
    ASSUME IntakeInv, NEW r \in Reviewers, NEW c \in Candidates, NEW d \in {"approved", "rejected"},
           N!reviewSourceIntake(r, c, d)
    PROVE  IntakeInv'
  <1>1. /\ ruling' = [ruling EXCEPT ![r] = N!AskReview(c, d)] /\ ruling[r].step = "idle"
        /\ candidate[c].status = "pending" /\ UNCHANGED <<candidate, sources, stored>>
    BY DEF N!reviewSourceIntake, N!Review
  <1>2. candidate[c].content <=> c \in Imports
    BY <1>1 DEF IntakeInv, N!OneSourceEach
  <1> DEFINE k == N!AskReview(c, d)
  <1>3. /\ k \in Rulings /\ k.of = c /\ k.decision = d
        /\ k.step \in {"storing", "marking"}
        /\ k.step = "marking" /\ d = "approved" => c \notin Imports
    BY <1>2 DEF N!AskReview, Rulings
  <1> HIDE DEF k
  <1> QED BY <1>1, <1>3, IntakeGoesOn DEF k

LEMMA IntakeOfBytes ==
    ASSUME IntakeInv, NEW r \in Reviewers, N!captureBytes(r) \/ N!RollBack(r)
    PROVE  IntakeInv'
  <1>1. ruling[r] \in Rulings /\ ruling[r].step \in {"storing", "marking"} /\ RulingIsOf(r)
    BY DEF N!captureBytes, N!RollBack, IntakeInv
  <1>2. PICK step \in {"marking", "refused"} :
          /\ ruling' = [ruling EXCEPT ![r].step = step]
          /\ step = "marking" => stored' = stored \cup {r}
          /\ stored' = stored \/ stored' = stored \cup {r}
          /\ UNCHANGED <<candidate, sources>>
    BY DEF N!captureBytes, N!RollBack
  <1> DEFINE k == [ruling[r] EXCEPT !.step = step]
  <1>3. k \in Rulings /\ k.of = ruling[r].of /\ k.decision = ruling[r].decision /\ k.step = step
    BY <1>1 DEF Rulings
  <1>4. ruling' = [ruling EXCEPT ![r] = k] BY <1>2
  <1> HIDE DEF k
  <1> QED BY <1>1, <1>2, <1>3, <1>4, IntakeGoesOn DEF RulingIsOf

LEMMA IntakeOfMark ==
    ASSUME IntakeInv, NEW r \in Reviewers, N!ReviewIntakeCandidate(r)
    PROVE  IntakeInv'
  <1> DEFINE c == ruling[r].of
             approved == ruling[r].decision = "approved"
             row1 == N!Reviewed(r, approved)
             k == [ruling[r] EXCEPT !.step = "done"]
  <1>1. /\ ruling[r].step = "marking" /\ candidate[c].status = "pending"
        /\ candidate' = [candidate EXCEPT ![c] = row1]
        /\ sources' = IF approved THEN sources \cup {r} ELSE sources
        /\ ruling' = [ruling EXCEPT ![r] = k] /\ stored' = stored
    BY DEF N!ReviewIntakeCandidate, N!MarkReviewed
  <1>2. /\ ruling[r] \in Rulings /\ c \in Candidates /\ ruling[r].decision \in {"approved", "rejected"}
        /\ approved /\ c \in Imports => r \in stored
    BY <1>1 DEF IntakeInv, RulingIsOf
  <1>3. /\ k \in Rulings /\ k.of = c /\ k.decision = ruling[r].decision /\ k.step = "done"
    BY <1>2 DEF Rulings
  <1>4. /\ row1 \in CandidateRows /\ row1.status = ruling[r].decision /\ row1.content = FALSE
        /\ row1.source = IF approved THEN r ELSE N!None
    BY <1>2 DEF N!Reviewed, CandidateRows
  <1> HIDE DEF c, row1, k
  <1>5. /\ ruling' \in [Reviewers -> Rulings] /\ ruling'[r] = k
        /\ \A q \in Reviewers : q # r => ruling'[q] = ruling[q]
        /\ candidate' \in [Candidates -> CandidateRows] /\ candidate'[c] = row1
        /\ \A d \in Candidates : d # c => candidate'[d] = candidate[d]
    BY <1>1, <1>2, <1>3, <1>4 DEF IntakeInv
  <1>6. /\ candidate[c].source = N!None /\ N!None \notin Reviewers
        /\ r \notin sources /\ sources \subseteq Reviewers
    BY <1>1, <1>2, ReviewersAssumption DEF IntakeInv, SourceIsOf, RulingIsOf, N!None
  <1>7. \A q \in sources : q # r /\ ruling[q].of \in Candidates /\ ruling[q].of # c
    BY <1>6 DEF IntakeInv, RulingIsOf, N!OneSourceEach
  <1>8. \A q \in Reviewers : RulingIsOf(q)'
    BY <1>1, <1>2, <1>3, <1>5 DEF IntakeInv, RulingIsOf
  <1>9. \A d \in Candidates : SourceIsOf(d)'
    BY <1>4, <1>5 DEF IntakeInv, SourceIsOf
  <1>10. ASSUME NEW q \in sources' PROVE candidate'[ruling'[q].of].source = q
    <2>1. CASE q = r BY <2>1, <1>1, <1>3, <1>4, <1>5, <1>6
    <2>2. CASE q # r
      <3>1. q \in sources /\ q \in Reviewers BY <2>2, <1>1, <1>6
      <3>2. candidate[ruling[q].of].source = q BY <3>1 DEF IntakeInv, N!OneSourceEach
      <3> QED BY <3>1, <3>2, <2>2, <1>5, <1>7
    <2> QED BY <2>1, <2>2
  <1>11. ASSUME NEW d \in Candidates
         PROVE  /\ candidate'[d].status = "approved" <=> candidate'[d].source \in sources'
                /\ candidate'[d].content <=> (candidate'[d].status = "pending" /\ d \in Imports)
                /\ candidate'[d].status = "approved" /\ d \in Imports => candidate'[d].source \in stored
    <2>1. CASE d = c BY <2>1, <1>1, <1>2, <1>4, <1>5, <1>6
    <2>2. CASE d # c
      <3>1. candidate'[d] = candidate[d] BY <2>2, <1>5
      <3>2. /\ candidate[d].status = "approved" <=> candidate[d].source \in sources
            /\ candidate[d].content <=> (candidate[d].status = "pending" /\ d \in Imports)
            /\ candidate[d].status = "approved" /\ d \in Imports => candidate[d].source \in stored
        BY DEF IntakeInv, N!OneSourceEach
      <3>3. candidate[d].source # r
        <4>1. candidate[d].source = r => candidate[d].status = "approved"
          BY <1>6 DEF IntakeInv, SourceIsOf
        <4> QED BY <4>1, <3>2, <1>6
      <3> QED BY <3>1, <3>2, <3>3, <1>1
    <2> QED BY <2>1, <2>2
  <1>12. N!OneSourceEach' BY <1>1, <1>10, <1>11 DEF N!OneSourceEach
  <1> QED BY <1>1, <1>5, <1>8, <1>9, <1>12 DEF IntakeInv

LEMMA IntakeLasts ==
    ASSUME IntakeInv, [AuthoringNext]_all PROVE IntakeInv'
  <1>1. N!Next \/ UNCHANGED <<candidate, ruling, sources, stored>>
    BY DEF AuthoringNext, all, bringing, admitting
  <1>2. CASE UNCHANGED <<candidate, ruling, sources, stored>>
    BY <1>2 DEF IntakeInv, RulingIsOf, SourceIsOf, N!OneSourceEach
  <1>3. CASE N!Next
    BY <1>3, IntakeOfCandidate, IntakeOfReview, IntakeOfBytes, IntakeOfMark DEF N!Next
  <1> QED BY <1>1, <1>2, <1>3

\* Of every candidate one source is made or none, whoever reviews it at the
\* same time, and what it was imported with is stored and nowhere twice.
THEOREM OneSourceOfACandidate == AuthoringSpec => [](IntakeInv /\ N!TypeOK /\ N!OneSourceEach)
  <1>1. IntakeInv => N!TypeOK /\ N!OneSourceEach
    BY IntakeTypeOK DEF IntakeInv
  <1> QED BY <1>1, IntakeBegins, IntakeLasts, PTL DEF AuthoringSpec

-----------------------------------------------------------------------------
(* The inbox of what is left to compare.                                   *)

\* Among sets of finite things there is one that holds no other.
LEMMA MinimalFiniteSet ==
    ASSUME NEW S, IsFiniteSet(S), NEW F, F \subseteq SUBSET S, F # {}
    PROVE  \E Least \in F : \A U \in F : U \subseteq Least => U = Least
  <1>1. F \subseteq FiniteSubsetsOf(S)
    BY FS_Subset DEF FiniteSubsetsOf
  <1>2. PICK Least \in F : \A U \in F : ~(<<U, Least>> \in StrictSubsetOrdering(S))
    BY <1>1, FS_StrictSubsetOrderingWellFounded, WFMin
  <1>3. ASSUME NEW U \in F, U \subseteq Least, U # Least PROVE FALSE
    <2>1. <<U, Least>> \in StrictSubsetOrdering(S)
      BY <1>3 DEF StrictSubsetOrdering
    <2> QED BY <2>1, <1>2
  <1> QED BY <1>3

\* The pairs of a set, and how many a finite set has.
PairsOf(S) == {pair \in SUBSET S : \E a, b \in pair : a # b /\ pair = {a, b}}

LEMMA PairsWithOneMore ==
    ASSUME NEW S, NEW x \in S, IsFiniteSet(S \ {x}), IsFiniteSet(PairsOf(S \ {x}))
    PROVE  /\ IsFiniteSet(PairsOf(S))
           /\ Cardinality(PairsOf(S)) = Cardinality(PairsOf(S \ {x})) + Cardinality(S \ {x})
  <1> DEFINE Rest == S \ {x}
             With == {{x, y} : y \in Rest}
             f == [y \in Rest |-> {x, y}]
  <1>0. IsFiniteSet(Rest) /\ IsFiniteSet(PairsOf(Rest)) OBVIOUS
  <1>1. f \in Surjection(Rest, With) BY DEF Surjection
  <1>2. f \in Injection(Rest, With)
    <2>1. \A y, z \in Rest : f[y] = f[z] => y = z OBVIOUS
    <2> QED BY <2>1 DEF Injection, IsInjective
  <1> HIDE DEF f
  <1>3. IsFiniteSet(With) /\ Cardinality(With) = Cardinality(Rest)
    BY <1>0, <1>1, <1>2, FS_Surjection
  <1>4. PairsOf(S) = PairsOf(Rest) \cup With
    <2>1. ASSUME NEW pair \in PairsOf(S) PROVE pair \in PairsOf(Rest) \cup With
      <3>1. PICK a, b \in pair : a # b /\ pair = {a, b} BY DEF PairsOf
      <3>2. a \in S /\ b \in S BY DEF PairsOf
      <3>3. CASE x \notin pair BY <3>1, <3>2, <3>3 DEF PairsOf
      <3>4. CASE x = a BY <3>1, <3>2, <3>4
      <3>5. CASE x = b
        <4>1. pair = {x, a} /\ a \in Rest BY <3>1, <3>2, <3>5
        <4> QED BY <4>1
      <3> QED BY <3>1, <3>3, <3>4, <3>5
    <2>2. PairsOf(Rest) \subseteq PairsOf(S) BY DEF PairsOf
    <2>3. ASSUME NEW y \in Rest PROVE {x, y} \in PairsOf(S) BY DEF PairsOf
    <2> QED BY <2>1, <2>2, <2>3
  <1>5. PairsOf(Rest) \cap With = {} BY DEF PairsOf
  <1>6. Cardinality(PairsOf(Rest)) \in Nat /\ Cardinality(With) \in Nat
    BY <1>0, <1>3, FS_CardinalityType
  <1> HIDE DEF With, Rest
  <1>7. Cardinality(PairsOf(Rest) \cap With) = 0 BY <1>5, FS_EmptySet
  <1>8. /\ IsFiniteSet(PairsOf(S))
        /\ Cardinality(PairsOf(S)) = Cardinality(PairsOf(Rest)) + Cardinality(With)
    <2>1. /\ IsFiniteSet(PairsOf(Rest) \cup With)
          /\ Cardinality(PairsOf(Rest) \cup With)
               = Cardinality(PairsOf(Rest)) + Cardinality(With) - Cardinality(PairsOf(Rest) \cap With)
      BY <1>0, <1>3, FS_Union
    <2> QED BY <2>1, <1>4, <1>6, <1>7
  <1> QED BY <1>3, <1>8 DEF Rest

LEMMA NumberOfPairs ==
    ASSUME NEW S, IsFiniteSet(S)
    PROVE  /\ IsFiniteSet(PairsOf(S))
           /\ 2 * Cardinality(PairsOf(S)) = Cardinality(S) * (Cardinality(S) - 1)
  <1> DEFINE Counted(Least) == /\ IsFiniteSet(PairsOf(Least))
                           /\ 2 * Cardinality(PairsOf(Least)) = Cardinality(Least) * (Cardinality(Least) - 1)
             F == {Least \in SUBSET S : ~Counted(Least)}
  <1> SUFFICES ASSUME F # {} PROVE FALSE
    OBVIOUS
  <1>1. F \subseteq SUBSET S OBVIOUS
  <1>2. PICK Least \in F : \A U \in F : U \subseteq Least => U = Least
    <2> HIDE DEF F
    <2> QED BY <1>1, MinimalFiniteSet
  <1>3. Least \in SUBSET S /\ ~Counted(Least) /\ IsFiniteSet(Least) BY FS_Subset
  <1>4. CASE Least = {}
    <2>1. PairsOf(Least) = {} BY <1>4 DEF PairsOf
    <2>2. Cardinality(Least) = 0 /\ Cardinality(PairsOf(Least)) = 0 /\ IsFiniteSet(PairsOf(Least))
      BY <1>4, <2>1, FS_EmptySet
    <2> QED BY <1>3, <2>2
  <1>5. CASE Least # {}
    <2>1. PICK x \in Least : TRUE BY <1>5
    <2>2. Least \ {x} \in SUBSET S /\ Least \ {x} # Least /\ Least \ {x} \subseteq Least BY <1>3, <2>1
    <2>3. Counted(Least \ {x}) BY <1>2, <2>2
    <2>4. IsFiniteSet(Least \ {x}) /\ Cardinality(Least \ {x}) \in Nat /\ Cardinality(Least) = Cardinality(Least \ {x}) + 1
      <3>1. IsFiniteSet(Least \ {x}) /\ Cardinality(Least \ {x}) = Cardinality(Least) - 1
        BY <1>3, FS_RemoveElement
      <3>2. Cardinality(Least \ {x}) \in Nat /\ Cardinality(Least) \in Nat
        BY <1>3, <3>1, FS_CardinalityType
      <3> QED BY <3>1, <3>2
    <2>5. /\ IsFiniteSet(PairsOf(Least))
          /\ Cardinality(PairsOf(Least)) = Cardinality(PairsOf(Least \ {x})) + Cardinality(Least \ {x})
      BY <2>3, <2>4, PairsWithOneMore
    <2>6. Cardinality(PairsOf(Least \ {x})) \in Nat BY <2>3, FS_CardinalityType
    <2>7. ASSUME NEW k \in Nat, NEW m \in Nat, 2 * m = k * (k - 1)
          PROVE  2 * (m + k) = (k + 1) * ((k + 1) - 1)
      BY <2>7
    <2>8. 2 * Cardinality(PairsOf(Least)) = Cardinality(Least) * (Cardinality(Least) - 1)
      BY <2>3, <2>4, <2>5, <2>6, <2>7
    <2> QED BY <1>3, <2>5, <2>8
  <1> QED BY <1>4, <1>5

\* A record of whose evidence nothing is left to compare has every pair of it
\* compared.
LEMMA CoveredIsAllPairs ==
    ASSUME NEW S, IsFiniteSet(S), NEW C, C \subseteq PairsOf(S),
           ~ (Cardinality(C) < (Cardinality(S) * (Cardinality(S) - 1)) \div 2)
    PROVE  C = PairsOf(S)
  <1>1. /\ IsFiniteSet(PairsOf(S)) /\ Cardinality(PairsOf(S)) \in Nat
        /\ 2 * Cardinality(PairsOf(S)) = Cardinality(S) * (Cardinality(S) - 1)
    BY NumberOfPairs, FS_CardinalityType
  <1>2. \A m \in Nat : (2 * m) \div 2 = m OBVIOUS
  <1>3. (Cardinality(S) * (Cardinality(S) - 1)) \div 2 = Cardinality(PairsOf(S))
    BY <1>1, <1>2
  <1>4. Cardinality(C) \in Nat /\ Cardinality(C) <= Cardinality(PairsOf(S))
    BY <1>1, FS_Subset, FS_CardinalityType
  <1>5. Cardinality(C) = Cardinality(PairsOf(S)) BY <1>1, <1>3, <1>4
  <1> QED BY <1>1, <1>5, FS_Subset

Refreshes(p) ==
    \/ refresh[p] = G!Idle
    \/ /\ refresh[p].step = "found" /\ refresh[p].gaps \subseteq G!Keys
       /\ \A k \in G!Keys : refresh[p].read[k] # "none" => inbox[k] # "none"
    \/ /\ refresh[p].step = "retired" /\ refresh[p].gaps \subseteq G!Keys
       /\ \A k \in G!Keys : refresh[p].read[k] # "none" => inbox[k] # "none"
       /\ refresh[p].retires \subseteq {k \in G!Keys \ refresh[p].gaps : inbox[k] # "none"}
       /\ \A k \in G!Keys \ refresh[p].gaps : refresh[p].read[k] # "none" => k \in refresh[p].retires

\* What was read of the inbox is in it: no alert is ever removed.
AlertInv ==
    /\ G!TypeOK /\ raced \in BOOLEAN
    /\ refresh = [p \in Readers |-> refresh[p]]
    /\ \A p \in Readers : Refreshes(p)
    /\ G!InboxIsTheLastRefresh /\ G!MailIsOfAnAlert

LEMMA NoGapMeansCompared == ASSUME G!TypeOK PROVE G!NoGapIsCompared
  <1> SUFFICES ASSUME NEW p \in Readers, MaySee[p] = G!Pairs
               PROVE  /\ \A t \in OpenRecords : G!recordGapStatus(t, p) = "covered" =>
                            \A a, b \in Evidence[t] : a # b => comparison[{a, b}] = "supports"
                      /\ \A q \in OpenQuestions : G!questionGapStatus(q, p) = "reviewed" =>
                            \A a \in Evidence[q] :
                                \E pair \in G!Pairs : a \in pair /\ comparison[pair] = "supports"
    BY DEF G!NoGapIsCompared
  <1>1. ASSUME NEW t, NEW pair \in G!Touching(t, p),
               ~G!Some(t, p, "contradicts"), ~G!Some(t, p, "unresolved")
        PROVE  pair \in G!Pairs /\ pair \in MaySee[p] /\ comparison[pair] = "supports"
    <2>1. pair \in MaySee[p] /\ pair \in G!Pairs /\ comparison[pair] # "none"
      BY DEF G!Touching, G!Found
    <2>2. comparison[pair] # "contradicts" /\ comparison[pair] # "unresolved"
      BY <1>1 DEF G!Some
    <2>3. comparison[pair] \in {"none", "supports", "contradicts", "unresolved"}
      BY <2>1 DEF G!TypeOK
    <2> QED BY <2>1, <2>2, <2>3
  <1>2. ASSUME NEW t \in OpenRecords, G!recordGapStatus(t, p) = "covered",
               NEW a \in Evidence[t], NEW b \in Evidence[t], a # b
        PROVE  comparison[{a, b}] = "supports"
    <2> DEFINE Inner == {pair \in G!Touching(t, p) : pair \subseteq Evidence[t]}
    <2>1. /\ ~G!Some(t, p, "contradicts") /\ ~G!Some(t, p, "unresolved")
          /\ ~ (Cardinality(Inner) < (Cardinality(Evidence[t]) * (Cardinality(Evidence[t]) - 1)) \div 2)
      <3>1. /\ ~G!Some(t, p, "contradicts") /\ ~G!Some(t, p, "unresolved")
            /\ ~G!Incomplete(t, p)
        BY <1>2 DEF G!recordGapStatus
      <3>2. G!Internal(t, p) = Cardinality(Inner) BY DEF G!Internal, G!Cardinality, Cardinality
      <3>3. G!Possible(t) = (Cardinality(Evidence[t]) * (Cardinality(Evidence[t]) - 1)) \div 2
        BY DEF G!Possible, G!Cardinality, Cardinality
      <3>4. ~ (G!Internal(t, p) < G!Possible(t)) BY <3>1 DEF G!Incomplete
      <3> HIDE DEF Inner
      <3> QED BY <3>1, <3>2, <3>3, <3>4
    <2>2. IsFiniteSet(Evidence[t]) BY EvidenceAssumption
    <2>3. Inner \subseteq PairsOf(Evidence[t])
      <3> SUFFICES ASSUME NEW pair \in Inner PROVE pair \in PairsOf(Evidence[t])
        OBVIOUS
      <3>1. pair \in MaySee[p] /\ pair \subseteq Evidence[t] BY DEF G!Touching, G!Found
      <3>2. \E c, d \in pair : c # d /\ pair = {c, d} BY <3>1, EvidenceAssumption
      <3> QED BY <3>1, <3>2 DEF PairsOf
    <2> HIDE DEF Inner
    <2>4. Inner = PairsOf(Evidence[t]) BY <2>1, <2>2, <2>3, CoveredIsAllPairs
    <2>5. {a, b} \in PairsOf(Evidence[t]) BY <1>2 DEF PairsOf
    <2>6. {a, b} \in G!Touching(t, p) BY <2>4, <2>5 DEF Inner
    <2> QED BY <1>1, <2>1, <2>6
  <1>3. ASSUME NEW q \in OpenQuestions, G!questionGapStatus(q, p) = "reviewed", NEW a \in Evidence[q]
        PROVE  \E pair \in G!Pairs : a \in pair /\ comparison[pair] = "supports"
    <2>1. /\ ~G!Some(q, p, "contradicts") /\ ~G!Some(q, p, "unresolved")
          /\ G!Compared(q, p) = Evidence[q]
      BY <1>3 DEF G!questionGapStatus
    <2>2. PICK pair \in G!Touching(q, p) : a \in pair BY <2>1 DEF G!Compared
    <2> QED BY <1>1, <2>1, <2>2
  <1> QED BY <1>2, <1>3

LEMMA AlertsBegin == ASSUME AuthoringInit PROVE AlertInv
  <1>1. G!Init BY DEF AuthoringInit
  <1> QED BY <1>1 DEF G!Init, AlertInv, G!TypeOK, G!Wants, Refreshes, G!InboxIsTheLastRefresh,
                      G!MailIsOfAnAlert, G!AlertPage

\* The steps that leave the inbox and who refreshes it alone.
LEMMA AlertsAtRest ==
    ASSUME AlertInv, UNCHANGED <<inbox, refresh, latest, raced>>, G!TypeOK',
           \A e \in mailed' \cup outgoing' : e \in mailed \cup outgoing
    PROVE  AlertInv'
  <1>1. \A p \in Readers : Refreshes(p)' BY DEF AlertInv, Refreshes
  <1>2. G!InboxIsTheLastRefresh' /\ G!MailIsOfAnAlert'
    BY DEF AlertInv, G!InboxIsTheLastRefresh, G!AlertPage, G!MailIsOfAnAlert
  <1> QED BY <1>1, <1>2 DEF AlertInv

LEMMA AlertsOfWork == ASSUME AlertInv, G!Work PROVE AlertInv'
  <1>1. UNCHANGED <<inbox, refresh, latest, raced, outgoing, mailed, wants, seen>>
    BY DEF G!Work, G!inbox, G!mail
  <1>2. workable' \subseteq G!Targets
    BY DEF G!Work, G!Compare, G!Settle, AlertInv, G!TypeOK
  <1>3. comparison' \in [G!Pairs -> {"none", "supports", "contradicts", "unresolved"}]
    BY DEF G!Work, G!Compare, G!Settle, AlertInv, G!TypeOK
  <1>4. G!TypeOK' BY <1>1, <1>2, <1>3 DEF AlertInv, G!TypeOK
  <1> QED BY <1>1, <1>4, AlertsAtRest

LEMMA AlertsOfReaders ==
    ASSUME AlertInv, NEW p \in Readers,
           \/ \E want \in G!Wants : G!saveSourceAlertDelivery(p, want)
           \/ \E k \in G!Keys : G!markSourceAlertSeen(p, k) \/ G!Deliver(k, p)
    PROVE  AlertInv'
  <1>1. UNCHANGED <<inbox, refresh, latest, raced, workable, comparison>>
    BY DEF G!saveSourceAlertDelivery, G!markSourceAlertSeen, G!Deliver, G!evidence, G!inbox
  <1>2. mailed' \subseteq mailed \cup outgoing /\ outgoing' \subseteq outgoing
    BY DEF G!saveSourceAlertDelivery, G!markSourceAlertSeen, G!Deliver
  <1>3. wants' \in [Readers -> G!Wants] /\ seen' \subseteq G!Keys \X Readers
    <2>1. wants \in [Readers -> G!Wants] /\ seen \subseteq G!Keys \X Readers
      BY DEF AlertInv, G!TypeOK
    <2>2. CASE \E want \in G!Wants : G!saveSourceAlertDelivery(p, want)
      BY <2>1, <2>2 DEF G!saveSourceAlertDelivery, G!SaveAlertDelivery
    <2>3. CASE \E key \in G!Keys : G!markSourceAlertSeen(p, key)
      BY <2>1, <2>3 DEF G!markSourceAlertSeen, G!MarkAlertSeen
    <2>4. CASE \E key \in G!Keys : G!Deliver(key, p) BY <2>1, <2>4 DEF G!Deliver
    <2> QED BY <2>2, <2>3, <2>4
  <1>4. G!TypeOK' BY <1>1, <1>2, <1>3 DEF AlertInv, G!TypeOK
  <1> QED BY <1>1, <1>2, <1>4, AlertsAtRest

\* The steps of a refresh before its last.
LEMMA RefreshChanges ==
    ASSUME AlertInv, NEW p \in Readers, NEW k, refresh' = [refresh EXCEPT ![p] = k], Refreshes(p)',
           UNCHANGED <<inbox, latest, raced, workable, comparison, outgoing, mailed, wants, seen>>
    PROVE  AlertInv'
  <1>1. /\ refresh' = [q \in Readers |-> refresh'[q]]
        /\ \A q \in Readers : q # p => refresh'[q] = refresh[q]
    BY DEF AlertInv
  <1>2. ASSUME NEW q \in Readers PROVE Refreshes(q)'
    <2>1. CASE q = p BY <2>1
    <2>2. CASE q # p
      <3>1. refresh'[q] = refresh[q] /\ Refreshes(q) BY <2>2, <1>1 DEF AlertInv
      <3> QED BY <3>1 DEF Refreshes
    <2> QED BY <2>1, <2>2
  <1>3. G!TypeOK' /\ G!InboxIsTheLastRefresh' /\ G!MailIsOfAnAlert'
    BY DEF AlertInv, G!TypeOK, G!InboxIsTheLastRefresh, G!AlertPage, G!MailIsOfAnAlert
  <1> QED BY <1>1, <1>2, <1>3 DEF AlertInv

LEMMA AlertsOfRefresh ==
    ASSUME AlertInv, NEW p \in Readers,
           G!refreshSourceGapAlerts(p) \/ G!SyncBegins(p) \/ G!RollBack(p)
    PROVE  AlertInv'
  <1>1. UNCHANGED <<inbox, latest, raced, workable, comparison, outgoing, mailed, wants, seen>>
    BY DEF G!refreshSourceGapAlerts, G!SyncBegins, G!RollBack, G!evidence, G!mail
  <1>2. PICK held : refresh' = [refresh EXCEPT ![p] = held]
    BY DEF G!refreshSourceGapAlerts, G!SyncBegins, G!RollBack
  <1>4. CASE G!refreshSourceGapAlerts(p)
    <2>1. refresh'[p] = [step |-> "found", gaps |-> G!currentDerivedGapAlerts(p), read |-> inbox]
      BY <1>4 DEF G!refreshSourceGapAlerts, AlertInv
    <2>2. G!currentDerivedGapAlerts(p) \subseteq G!Keys BY DEF G!currentDerivedGapAlerts
    <2>3. Refreshes(p)' BY <2>1, <2>2, <1>1 DEF Refreshes
    <2> QED BY <2>3, <1>1, <1>2, RefreshChanges
  <1>5. CASE G!SyncBegins(p)
    <2> DEFINE gaps == refresh[p].gaps
               read == refresh[p].read
               retires == G!DeactivateDerivedGapAlerts(gaps)
    <2>1. /\ refresh[p].step = "found"
          /\ refresh'[p] = [step |-> "retired", gaps |-> gaps, read |-> read, retires |-> retires]
      BY <1>5 DEF G!SyncBegins, AlertInv
    <2>2. gaps \subseteq G!Keys /\ \A k \in G!Keys : read[k] # "none" => inbox[k] # "none"
      BY <2>1 DEF AlertInv, Refreshes, G!Idle
    <2>3. retires = {k \in G!Keys \ gaps : inbox[k] # "none"} BY DEF G!DeactivateDerivedGapAlerts
    <2> HIDE DEF gaps, read, retires
    <2>4. Refreshes(p)' BY <2>1, <2>2, <2>3, <1>1 DEF Refreshes
    <2> QED BY <2>4, <1>1, <1>2, RefreshChanges
  <1>6. CASE G!RollBack(p)
    <2>1. refresh'[p] = G!Idle BY <1>6 DEF G!RollBack, AlertInv
    <2> QED BY <2>1, <1>1, <1>2, RefreshChanges DEF Refreshes
  <1> QED BY <1>4, <1>5, <1>6

LEMMA AlertsOfSync ==
    ASSUME AlertInv, NEW p \in Readers, G!syncDerivedGapAlerts(p)
    PROVE  AlertInv'
  <1> DEFINE gaps == refresh[p].gaps
             retires == refresh[p].retires
             read == refresh[p].read
  <1>1. /\ refresh[p].step = "retired"
        /\ inbox' = [k \in G!Keys |-> IF k \in gaps THEN "active"
                                      ELSE IF k \in retires THEN "retired" ELSE inbox[k]]
        /\ outgoing' = outgoing \cup gaps \X {p} /\ latest' = gaps
        /\ raced' = (raced \/ inbox # read)
        /\ refresh' = [refresh EXCEPT ![p] = G!Idle]
        /\ UNCHANGED <<workable, comparison, wants, mailed, seen>>
    BY DEF G!syncDerivedGapAlerts, G!CreateAlert, G!emitAlert, G!evidence, G!mail
  <1>2. /\ gaps \subseteq G!Keys /\ retires \subseteq {k \in G!Keys \ gaps : inbox[k] # "none"}
        /\ \A k \in G!Keys \ gaps : read[k] # "none" => k \in retires
    BY <1>1 DEF AlertInv, Refreshes, G!Idle
  <1> HIDE DEF gaps, retires, read
  <1>3. /\ inbox' \in [G!Keys -> {"none", "active", "retired"}]
        /\ \A k \in G!Keys : inbox[k] # "none" => inbox'[k] # "none"
        /\ \A k \in gaps : inbox'[k] = "active"
    BY <1>1, <1>2 DEF AlertInv, G!TypeOK
  <1>4. /\ refresh' = [q \in Readers |-> refresh'[q]] /\ refresh'[p] = G!Idle
        /\ \A q \in Readers : q # p => refresh'[q] = refresh[q]
    BY <1>1 DEF AlertInv
  <1>5. ASSUME NEW q \in Readers PROVE Refreshes(q)'
    <2>1. CASE q = p BY <2>1, <1>4 DEF Refreshes
    <2>2. CASE q # p
      <3>1. refresh'[q] = refresh[q] /\ Refreshes(q) BY <2>2, <1>4 DEF AlertInv
      <3> QED BY <3>1, <1>3 DEF Refreshes
    <2> QED BY <2>1, <2>2
  <1>6. G!InboxIsTheLastRefresh'
    <2> SUFFICES ASSUME inbox = read PROVE G!AlertPage' = gaps
      BY <1>1 DEF G!InboxIsTheLastRefresh, AlertInv
    <2>1. ASSUME NEW k \in G!Keys, k \notin gaps PROVE inbox'[k] # "active"
      <3>1. CASE k \in retires BY <3>1, <2>1, <1>1
      <3>2. CASE k \notin retires
        <4>1. inbox[k] = "none" BY <3>2, <2>1, <1>2
        <4> QED BY <4>1, <3>2, <2>1, <1>1
      <3> QED BY <3>1, <3>2
    <2> QED BY <2>1, <1>2, <1>3 DEF G!AlertPage
  <1>7. G!MailIsOfAnAlert'
    <2> SUFFICES ASSUME NEW e \in mailed' \cup outgoing' PROVE inbox'[e[1]] # "none"
      BY DEF G!MailIsOfAnAlert
    <2>1. CASE e \in mailed \cup outgoing
      <3>1. e \in G!Keys \X Readers BY <2>1 DEF AlertInv, G!TypeOK
      <3>2. inbox[e[1]] # "none" BY <2>1 DEF AlertInv, G!MailIsOfAnAlert
      <3> QED BY <3>1, <3>2, <1>3
    <2>2. CASE e \in gaps \X {p} BY <2>2, <1>3
    <2> QED BY <2>1, <2>2, <1>1
  <1>8. G!TypeOK' /\ raced' \in BOOLEAN
    BY <1>1, <1>2, <1>3 DEF AlertInv, G!TypeOK
  <1> QED BY <1>4, <1>5, <1>6, <1>7, <1>8 DEF AlertInv

LEMMA AlertsLast ==
    ASSUME AlertInv, [AuthoringNext]_all PROVE AlertInv'
  <1>1. G!Next \/ UNCHANGED alerting
    BY DEF AuthoringNext, all, bringing
  <1>2. CASE UNCHANGED alerting
    <2>1. UNCHANGED <<workable, comparison, inbox, refresh, outgoing, wants, mailed, seen, latest, raced>>
      BY <1>2 DEF alerting
    <2>2. G!TypeOK' BY <2>1 DEF AlertInv, G!TypeOK
    <2> QED BY <2>1, <2>2, AlertsAtRest
  <1>3. CASE G!Next
    BY <1>3, AlertsOfWork, AlertsOfReaders, AlertsOfRefresh, AlertsOfSync DEF G!Next
  <1> QED BY <1>1, <1>2, <1>3

\* What comes in: a candidate makes one source or none; the inbox is what the
\* refresh that ended last has found, unless two of them overlapped; a mail is
\* of an alert there is; and who sees every comparison and is told of no gap
\* has every pair of a record compared and every observation of a question.
THEOREM InboxesAreTrue == AuthoringSpec => []InboxIsTrue
  <1>1. IntakeInv /\ AlertInv => InboxIsTrue
    BY IntakeTypeOK, NoGapMeansCompared DEF IntakeInv, AlertInv, InboxIsTrue
  <1> QED BY <1>1, IntakeBegins, IntakeLasts, AlertsBegin, AlertsLast, PTL DEF AuthoringSpec

-----------------------------------------------------------------------------
(* The report and the notes.                                               *)
(*                                                                         *)
(* A request writes what it read of the report only while the version is   *)
(* the one it read, and nothing that it read has another value at the same *)
(* version.  A document is what its sections make of one view, whatever    *)
(* the other components have written since.                                *)

NoteRows == [author : {Whose[p] : p \in Issuers}, edited : BOOLEAN, about : BOOLEAN]

\* What request p saw when it began is what there is, or the version has moved.
ViewIsTrue(v) ==
    /\ v.version \in 0 .. version /\ v.on \in [R!Sections -> BOOLEAN] /\ v.count \in Nat /\ v.next \in Nat
    /\ v.version = version => v.on = on /\ v.count = count /\ v.next = Len(revisions) + 1

ReportJob(j) ==
    /\ j.step \in {"idle", "toggle", "render", "edit", "erase", "tell"}
    /\ j.step = "toggle" => ViewIsTrue(j.view) /\ j.view.version < MaxToggles /\ j.to \in BOOLEAN
    /\ j.step = "render" =>
          /\ j = [step |-> "render", view |-> j.view, left |-> j.left, doc |-> j.doc, preview |-> j.preview]
          /\ ViewIsTrue(j.view) /\ j.view.next <= MaxRevisions
          /\ j.doc = [s \in DOMAIN j.doc |-> R!Rendered(s, j.view)]
    /\ j.step = "edit" => j.note \in Jotted /\ j.held \in NoteRows
    /\ j.step = "erase" => j.note \in Jotted
ReportJobs ==
    /\ inReport = [p \in Issuers |-> inReport[p]]
    /\ \A p \in Issuers : ReportJob(inReport[p])

NotesAreKept ==
    /\ notes = [n \in Jotted |-> notes[n]] /\ \A n \in Jotted : notes[n] = R!None \/ notes[n] \in NoteRows
    /\ erased \subseteq Jotted /\ R!ErasedStaysErased

Ranges(s) == {s[i] : i \in DOMAIN s}
ReportIsKept ==
    /\ on \in [R!Sections -> BOOLEAN] /\ opened \in BOOLEAN
    /\ revisions \in Seq(Ranges(revisions)) /\ Len(revisions) <= MaxRevisions
    /\ version \in 0 .. MaxToggles + Len(revisions)
    /\ R!RevisionsAreCounted /\ R!NoToggleIsLost
    /\ \A i \in DOMAIN revisions : R!Reconciles(revisions[i].doc)

ReportInv == now \in DOMAIN Moments /\ NotesAreKept /\ ReportIsKept /\ ReportJobs

LEMMA RenderedReconciles ==
    ASSUME NEW v, NEW doc, doc = [s \in DOMAIN doc |-> R!Rendered(s, v)]
    PROVE  R!Reconciles(doc)
  <1>1. /\ "attribution_evidence" \in DOMAIN doc => doc["attribution_evidence"].content = v.world.assets
        /\ "asset_inventory" \in DOMAIN doc => doc["asset_inventory"].content = v.world.assets
    BY DEF R!Rendered, R!Attribution, R!Assets
  <1>2. "findings_by_severity" \in DOMAIN doc =>
            doc["findings_by_severity"].content \subseteq v.world.assets
    <2>1. R!Findings(v).content \subseteq v.world.assets BY DEF R!Findings, R!ForFragments
    <2>2. R!Rendered("findings_by_severity", v) = R!Findings(v) BY DEF R!Rendered
    <2> QED BY <2>1, <2>2
  <1>3. "coverage" \in DOMAIN doc =>
            doc["coverage"].content = v.world.assets \X v.world.checks
    BY DEF R!Rendered, R!Coverage
  <1>4. /\ "invocation_log" \in DOMAIN doc => doc["invocation_log"].content = v.world.invocations
        /\ "raw_artifacts" \in DOMAIN doc =>
              doc["raw_artifacts"].content \subseteq v.world.invocations
    <2>1. /\ R!Invocations(v).content = v.world.invocations
          /\ R!Artifacts(v).content \subseteq v.world.invocations
      BY DEF R!Invocations, R!Artifacts
    <2>2. /\ R!Rendered("invocation_log", v) = R!Invocations(v)
          /\ R!Rendered("raw_artifacts", v) = R!Artifacts(v)
      BY DEF R!Rendered
    <2> QED BY <2>1, <2>2
  <1>5. {c[1] : c \in v.world.assets \X v.world.checks} \subseteq v.world.assets
    OBVIOUS
  <1> QED BY <1>1, <1>2, <1>3, <1>4, <1>5 DEF R!Reconciles

LEMMA OneMoreRevision ==
    ASSUME NEW s, s \in Seq(Ranges(s)), NEW e
    PROVE  /\ Append(s, e) \in Seq(Ranges(Append(s, e)))
           /\ Len(Append(s, e)) = Len(s) + 1
           /\ DOMAIN s = 1 .. Len(s) /\ DOMAIN Append(s, e) = 1 .. Len(s) + 1
           /\ \A i \in 1 .. Len(s) : Append(s, e)[i] = s[i]
           /\ Append(s, e)[Len(s) + 1] = e
  <1> DEFINE S == Ranges(s) \cup {e}
             t == Append(s, e)
  <1>1. s \in Seq(S) /\ t \in Seq(S) OBVIOUS
  <1>2. Len(t) = Len(s) + 1 /\ DOMAIN s = 1 .. Len(s) /\ DOMAIN t = 1 .. Len(s) + 1
    BY <1>1
  <1>3. (\A i \in 1 .. Len(s) : t[i] = s[i]) /\ t[Len(s) + 1] = e BY <1>1
  <1> HIDE DEF t
  <1>4. t \in Seq(Ranges(t)) BY <1>1, <1>2 DEF Ranges
  <1> QED BY <1>2, <1>3, <1>4 DEF t

LEMMA ReportTypeOK == ASSUME ReportInv PROVE R!TypeOK /\ R!DocumentReconciles
  <1>1. \A p \in Issuers : inReport[p].step = "render" => R!Reconciles(inReport[p].doc)
    BY RenderedReconciles DEF ReportInv, ReportJobs, ReportJob
  <1>2. \A p \in Issuers : inReport[p].step \in {"idle", "toggle", "render", "edit", "erase", "tell"}
    BY DEF ReportInv, ReportJobs, ReportJob
  <1>3. \A n \in Jotted : notes[n] = R!None \/
          (notes[n].author \in {Whose[p] : p \in Issuers} /\ notes[n].edited \in BOOLEAN /\ notes[n].about \in BOOLEAN)
    BY DEF ReportInv, NotesAreKept, NoteRows
  <1>4. count \in 0 .. MaxRevisions /\ version \in 0 .. MaxToggles + MaxRevisions
    BY ReportAssumption DEF ReportInv, ReportIsKept, R!RevisionsAreCounted
  <1> QED BY <1>1, <1>2, <1>3, <1>4 DEF ReportInv, ReportIsKept, R!TypeOK, R!DocumentReconciles

LEMMA ReportsBegin == ASSUME AuthoringInit PROVE ReportInv
  <1>1. R!Init BY DEF AuthoringInit
  <1>2. R!New \in [R!Sections -> BOOLEAN] BY DEF R!New, R!DefaultOn
  <1>3. NotesAreKept BY <1>1 DEF R!Init, NotesAreKept, R!ErasedStaysErased
  <1>4. ReportIsKept
    <2>1. revisions = <<>> /\ count = 0 /\ version = 0 BY <1>1 DEF R!Init
    <2>2. revisions \in Seq(Ranges(revisions)) /\ Len(revisions) = 0 /\ DOMAIN revisions = {}
      BY <2>1
    <2>3. on = R!New /\ acknowledged = R!New /\ opened = FALSE BY <1>1 DEF R!Init
    <2>4. version \in 0 .. MaxToggles + Len(revisions) /\ Len(revisions) <= MaxRevisions
      BY <2>1, <2>2, ReportAssumption
    <2>5. R!RevisionsAreCounted /\ R!NoToggleIsLost
      BY <2>1, <2>2, <2>3 DEF R!RevisionsAreCounted, R!NoToggleIsLost
    <2> QED BY <1>2, <2>2, <2>3, <2>4, <2>5 DEF ReportIsKept
  <1>5. ReportJobs BY <1>1 DEF R!Init, ReportJobs, ReportJob, R!Idle
  <1> QED BY <1>1, <1>3, <1>4, <1>5, ReportAssumption DEF R!Init, ReportInv

\* A request that changes only its own job.
LEMMA ReportAsks ==
    ASSUME ReportInv, NEW p \in Issuers, NEW j, ReportJob(j),
           inReport' = [inReport EXCEPT ![p] = j]
    PROVE  /\ inReport' = [q \in Issuers |-> inReport'[q]]
           /\ \A q \in Issuers : ReportJob(inReport'[q])
  BY DEF ReportInv, ReportJobs

\* The report is as it was.
LEMMA ReportAtRest ==
    ASSUME ReportInv, UNCHANGED <<opened, on, count, version, revisions, acknowledged>>
    PROVE  ReportIsKept'
  BY DEF ReportInv, ReportIsKept, R!RevisionsAreCounted, R!NoToggleIsLost

\* A step of p that leaves the report as it is, and the notes kept.
LEMMA ReportReads ==
    ASSUME ReportInv, NEW p \in Issuers, NEW j, ReportJob(j),
           inReport' = [inReport EXCEPT ![p] = j],
           UNCHANGED <<now, opened, on, count, version, revisions, acknowledged>>,
           NotesAreKept'
    PROVE  ReportInv'
  <1>1. /\ inReport' = [q \in Issuers |-> inReport'[q]]
        /\ \A q \in Issuers : ReportJob(inReport'[q])
    BY ReportAsks
  <1>2. ReportIsKept' BY ReportAtRest
  <1>3. \A q \in Issuers : ReportJob(inReport[q])'
    BY <1>1 DEF ReportJob, ViewIsTrue
  <1> QED BY <1>1, <1>2, <1>3 DEF ReportInv, ReportJobs

\* The steps of a note.
LEMMA ReportsOfNotes ==
    ASSUME ReportInv, NEW p \in Issuers,
           \/ \E n \in Jotted : \/ \E about \in BOOLEAN : R!writeNote(p, n, about)
                                \/ R!editNote(p, n) \/ R!eraseNote(p, n)
           \/ R!SaveNote(p) \/ R!TellNote(p) \/ R!DeleteNote(p)
    PROVE  ReportInv'
  <1> USE DEF R!report, R!Goes
  <1>1. UNCHANGED <<now, opened, on, count, version, revisions, acknowledged>>
    BY DEF R!writeNote, R!WriteNote, R!editNote, R!AskEdit, R!eraseNote, R!AskErase,
           R!SaveNote, R!TellNote, R!DeleteNote
  <1>2. /\ ReportJob(R!Idle) /\ ReportJob([step |-> "tell"])
        /\ \A n \in Jotted : ReportJob([step |-> "erase", note |-> n])
        /\ \A n \in Jotted, held \in NoteRows :
              ReportJob([step |-> "edit", note |-> n, held |-> held])
    BY DEF ReportJob, R!Idle
  <1>3. ReportJob(inReport[p]) BY DEF ReportInv, ReportJobs
  <1>4. ASSUME NEW n \in Jotted, NEW about \in BOOLEAN, R!writeNote(p, n, about) PROVE ReportInv'
    <2>1. /\ n \notin erased /\ UNCHANGED erased
          /\ notes' = [notes EXCEPT ![n] = [author |-> Whose[p], edited |-> FALSE, about |-> about]]
          /\ inReport' = [inReport EXCEPT ![p] = [step |-> "tell"]]
      BY <1>4 DEF R!writeNote, R!WriteNote
    <2>2. [author |-> Whose[p], edited |-> FALSE, about |-> about] \in NoteRows BY DEF NoteRows
    <2>3. NotesAreKept' BY <2>1, <2>2 DEF ReportInv, NotesAreKept, R!ErasedStaysErased
    <2> QED BY <1>1, <1>2, <2>1, <2>3, ReportReads
  <1>5. ASSUME NEW n \in Jotted, R!editNote(p, n) PROVE ReportInv'
    <2>1. /\ notes[n] # R!None /\ UNCHANGED <<notes, erased>>
          /\ inReport' = [inReport EXCEPT ![p] = [step |-> "edit", note |-> n, held |-> notes[n]]]
      BY <1>5 DEF R!editNote, R!AskEdit
    <2>2. notes[n] \in NoteRows BY <2>1 DEF ReportInv, NotesAreKept
    <2>3. NotesAreKept' BY <2>1 DEF ReportInv, NotesAreKept, R!ErasedStaysErased
    <2> QED BY <1>1, <1>2, <2>1, <2>2, <2>3, ReportReads
  <1>6. ASSUME NEW n \in Jotted, R!eraseNote(p, n) PROVE ReportInv'
    <2>1. /\ UNCHANGED <<notes, erased>>
          /\ inReport' = [inReport EXCEPT ![p] = [step |-> "erase", note |-> n]]
      BY <1>6 DEF R!eraseNote, R!AskErase
    <2>2. NotesAreKept' BY <2>1 DEF ReportInv, NotesAreKept, R!ErasedStaysErased
    <2> QED BY <1>1, <1>2, <2>1, <2>2, ReportReads
  <1>7. CASE R!SaveNote(p)
    <2> DEFINE n == inReport[p].note
               held == inReport[p].held
    <2>1. n \in Jotted /\ held \in NoteRows BY <1>3, <1>7 DEF ReportJob, R!SaveNote
    <2>2. CASE notes[n] = R!None
      <3>1. UNCHANGED <<notes, erased>> /\ inReport' = [inReport EXCEPT ![p] = R!Idle]
        BY <1>7, <2>2 DEF R!SaveNote
      <3>2. NotesAreKept' BY <3>1 DEF ReportInv, NotesAreKept, R!ErasedStaysErased
      <3> QED BY <1>1, <1>2, <3>1, <3>2, ReportReads
    <2>3. CASE notes[n] # R!None
      <3>1. /\ notes' = [notes EXCEPT ![n] = R!Edited(held)] /\ UNCHANGED erased
            /\ inReport' = [inReport EXCEPT ![p] = [step |-> "tell"]]
        BY <1>7, <2>3 DEF R!SaveNote
      <3>2. R!Edited(held) \in NoteRows BY <2>1 DEF NoteRows, R!Edited
      <3> HIDE DEF n, held
      <3>3. NotesAreKept'
        BY <2>1, <2>3, <3>1, <3>2 DEF ReportInv, NotesAreKept, R!ErasedStaysErased
      <3> QED BY <1>1, <1>2, <3>1, <3>3, ReportReads
    <2> QED BY <2>2, <2>3
  <1>8. CASE R!TellNote(p)
    <2>1. UNCHANGED <<notes, erased>> /\ inReport' = [inReport EXCEPT ![p] = R!Idle]
      BY <1>8 DEF R!TellNote
    <2>2. NotesAreKept' BY <2>1 DEF ReportInv, NotesAreKept, R!ErasedStaysErased
    <2> QED BY <1>1, <1>2, <2>1, <2>2, ReportReads
  <1>9. CASE R!DeleteNote(p)
    <2> DEFINE n == inReport[p].note
    <2>1. /\ notes' = [notes EXCEPT ![n] = R!None] /\ erased' = erased \cup {n}
          /\ inReport' = [inReport EXCEPT ![p] = R!Idle]
      BY <1>9 DEF R!DeleteNote
    <2>2. n \in Jotted BY <1>3, <1>9 DEF ReportJob, R!DeleteNote
    <2> HIDE DEF n
    <2>3. NotesAreKept' BY <2>1, <2>2 DEF ReportInv, NotesAreKept, R!ErasedStaysErased
    <2> QED BY <1>1, <1>2, <2>1, <2>3, ReportReads
  <1> QED BY <1>4, <1>5, <1>6, <1>7, <1>8, <1>9

\* What a transaction sees when it begins is what there is.
LEMMA ViewIsSeen == ASSUME ReportInv PROVE ViewIsTrue(R!View)
  <1> DEFINE v == R!View
  <1>1. /\ v.version = version /\ v.on = on /\ v.count = count /\ v.next = Len(revisions) + 1
    BY DEF R!View
  <1>2. version \in Nat /\ Len(revisions) \in Nat /\ count = Len(revisions) /\ on \in [R!Sections -> BOOLEAN]
    BY ReportAssumption DEF ReportInv, ReportIsKept, R!RevisionsAreCounted
  <1> HIDE DEF v
  <1>3. ViewIsTrue(v) BY <1>1, <1>2 DEF ViewIsTrue
  <1> QED BY <1>3 DEF v

\* The steps that only read the report.
LEMMA ReportsOfReaders ==
    ASSUME ReportInv, NEW p \in Issuers,
           \/ \E s \in Toggled, to \in BOOLEAN : R!toggleSection(p, s, to)
           \/ R!previewReport(p) \/ R!issueReport(p) \/ R!Render(p) \/ R!Preview(p) \/ R!Crash(p)
    PROVE  ReportInv'
  <1> USE DEF R!report, R!Goes
  <1>1. UNCHANGED <<now, notes, erased, opened, on, count, version, revisions, acknowledged>>
    BY DEF R!toggleSection, R!AskToggle, R!previewReport, R!issueReport, R!AskIssue, R!Render,
           R!Preview, R!Crash
  <1>2. NotesAreKept' BY <1>1 DEF ReportInv, NotesAreKept, R!ErasedStaysErased
  <1>3. ReportJob(inReport[p]) BY DEF ReportInv, ReportJobs
  <1>4. ASSUME NEW s \in Toggled, NEW to \in BOOLEAN, R!toggleSection(p, s, to) PROVE ReportInv'
    <2> DEFINE v == R!View
               j == [step |-> "toggle", view |-> v, section |-> s, to |-> to]
    <2>1. version < MaxToggles /\ inReport' = [inReport EXCEPT ![p] = j]
      BY <1>4 DEF R!toggleSection, R!AskToggle
    <2>2. ViewIsTrue(v) /\ v.version = version BY ViewIsSeen DEF R!View
    <2> HIDE DEF v
    <2>3. ReportJob(j) BY <2>1, <2>2 DEF ReportJob
    <2> HIDE DEF j
    <2> QED BY <1>1, <1>2, <2>1, <2>3, ReportReads
  <1>5. ASSUME NEW preview \in BOOLEAN, R!AskIssue(p, preview) PROVE ReportInv'
    <2> DEFINE v == R!View
               j == [step |-> "render", view |-> v, left |-> R!Enabled(on),
                     doc |-> [s \in {} |-> <<>>], preview |-> preview]
    <2>1. Len(revisions) < MaxRevisions /\ inReport' = [inReport EXCEPT ![p] = j]
      BY <1>5 DEF R!AskIssue
    <2>2. ViewIsTrue(v) /\ v.next = Len(revisions) + 1 BY ViewIsSeen DEF R!View
    <2>3. Len(revisions) \in Nat BY DEF ReportInv, ReportIsKept
    <2> HIDE DEF v
    <2>4. ReportJob(j)
      BY <2>1, <2>2, <2>3, ReportAssumption DEF ReportJob
    <2> HIDE DEF j
    <2> QED BY <1>1, <1>2, <2>1, <2>4, ReportReads
  <1>6. CASE R!Render(p)
    <2> DEFINE j == inReport[p]
               s == Head(j.left)
               doc == [x \in DOMAIN j.doc \cup {s} |->
                          IF x = s THEN R!Rendered(s, j.view) ELSE j.doc[x]]
               k == [step |-> "render", view |-> j.view, left |-> Tail(j.left), doc |-> doc,
                     preview |-> j.preview]
    <2>1. /\ j = [step |-> "render", view |-> j.view, left |-> j.left, doc |-> j.doc, preview |-> j.preview]
          /\ ViewIsTrue(j.view) /\ j.view.next <= MaxRevisions
          /\ j.doc = [x \in DOMAIN j.doc |-> R!Rendered(x, j.view)]
      BY <1>3, <1>6 DEF ReportJob, R!Render
    <2>2. inReport' = [inReport EXCEPT ![p] = [j EXCEPT !.left = Tail(j.left), !.doc = doc]]
      BY <1>6 DEF R!Render, R!Seen
    <2>3. doc = [x \in DOMAIN doc |-> R!Rendered(x, j.view)] BY <2>1
    <2> HIDE DEF doc, s, j
    <2>4. [j EXCEPT !.left = Tail(j.left), !.doc = doc] = k
      <3> DEFINE left == Tail(j.left)
                 next == [j EXCEPT !.left = left]
      <3> HIDE DEF left
      <3>1. next = [step |-> "render", view |-> j.view, left |-> left, doc |-> j.doc, preview |-> j.preview]
        BY <2>1
      <3> HIDE DEF next
      <3>2. [next EXCEPT !.doc = doc] =
                [step |-> "render", view |-> j.view, left |-> left, doc |-> doc, preview |-> j.preview]
        BY <3>1
      <3> QED BY <3>2 DEF left, next
    <2>5. ReportJob(k) BY <2>1, <2>3 DEF ReportJob
    <2> HIDE DEF k
    <2> QED BY <1>1, <1>2, <2>2, <2>4, <2>5, ReportReads
  <1>7. CASE R!Preview(p) \/ R!Crash(p)
    <2>1. inReport' = [inReport EXCEPT ![p] = R!Idle] BY <1>7 DEF R!Preview, R!Crash
    <2>2. ReportJob(R!Idle) BY DEF ReportJob, R!Idle
    <2> QED BY <1>1, <1>2, <2>1, <2>2, ReportReads
  <1> QED BY <1>4, <1>5, <1>6, <1>7 DEF R!previewReport, R!issueReport

\* A request writes the report: what others saw of it is of an older version.
LEMMA ReportMovesOn ==
    ASSUME ReportInv, NEW p \in Issuers, inReport' = [inReport EXCEPT ![p] = R!Idle],
           version' = version + 1
    PROVE  ReportJobs'
  <1>1. version \in Nat BY ReportAssumption DEF ReportInv, ReportIsKept
  <1>2. inReport' = [q \in Issuers |-> inReport'[q]] BY DEF ReportInv, ReportJobs
  <1>3. ASSUME NEW q \in Issuers PROVE ReportJob(inReport[q])'
    <2>1. CASE q = p
      <3>1. inReport'[q] = R!Idle BY <2>1 DEF ReportInv, ReportJobs
      <3> QED BY <3>1 DEF ReportJob, R!Idle
    <2>2. CASE q # p
      <3>1. inReport'[q] = inReport[q] /\ ReportJob(inReport[q]) BY <2>2 DEF ReportInv, ReportJobs
      <3>2. ASSUME NEW v, ViewIsTrue(v)
            PROVE  /\ v.version \in 0 .. version' /\ v.version # version'
                   /\ v.on \in [R!Sections -> BOOLEAN] /\ v.count \in Nat /\ v.next \in Nat
        BY <1>1, <3>2 DEF ViewIsTrue
      <3> QED BY <3>1, <3>2 DEF ReportJob, ViewIsTrue
    <2> QED BY <2>1, <2>2
  <1> QED BY <1>2, <1>3 DEF ReportJobs

LEMMA ReportsOfToggle ==
    ASSUME ReportInv, NEW p \in Issuers, R!Toggle(p) PROVE ReportInv'
  <1> DEFINE j == inReport[p]
  <1>1. /\ j.step = "toggle" /\ inReport' = [inReport EXCEPT ![p] = R!Idle]
        /\ UNCHANGED <<now, notes, erased, opened, revisions>>
    BY DEF R!Toggle, R!Goes
  <1>2. ViewIsTrue(j.view) /\ j.view.version < MaxToggles /\ j.to \in BOOLEAN
    BY <1>1 DEF ReportInv, ReportJobs, ReportJob
  <1>3. NotesAreKept' BY <1>1 DEF ReportInv, NotesAreKept, R!ErasedStaysErased
  <1>4. CASE version # j.view.version
    <2>1. UNCHANGED <<on, version, acknowledged, count>>
      BY <1>4 DEF R!Toggle, R!SaveReport
    <2>2. ReportJob(R!Idle) BY DEF ReportJob, R!Idle
    <2> QED BY <1>1, <1>3, <2>1, <2>2, ReportReads
  <1>5. CASE version = j.view.version
    <2>1. /\ on' = [j.view.on EXCEPT ![j.section] = j.to] /\ version' = version + 1
          /\ acknowledged' = [acknowledged EXCEPT ![j.section] = j.to] /\ count' = j.view.count
      BY <1>5 DEF R!Toggle, R!SaveReport, R!WriteSections
    <2>2. j.view.on = on /\ j.view.count = count /\ version < MaxToggles
      BY <1>2, <1>5 DEF ViewIsTrue
    <2>3. on' \in [R!Sections -> BOOLEAN] /\ R!NoToggleIsLost' /\ count' = count
      BY <1>2, <2>1, <2>2 DEF ReportInv, ReportIsKept, R!NoToggleIsLost
    <2>4. version' \in 0 .. MaxToggles + Len(revisions')
      BY <1>1, <2>1, <2>2, ReportAssumption DEF ReportInv, ReportIsKept
    <2>5. ReportIsKept' BY <1>1, <2>3, <2>4 DEF ReportInv, ReportIsKept, R!RevisionsAreCounted
    <2>6. ReportJobs' BY <1>1, <2>1, ReportMovesOn
    <2> QED BY <1>1, <1>3, <2>5, <2>6 DEF ReportInv
  <1> QED BY <1>4, <1>5

LEMMA ReportsOfIssue ==
    ASSUME ReportInv, NEW p \in Issuers, R!Issue(p) PROVE ReportInv'
  <1> DEFINE j == inReport[p]
             r == R!NewRevision(j)
  <1>1. /\ j.step = "render" /\ inReport' = [inReport EXCEPT ![p] = R!Idle]
        /\ UNCHANGED <<now, notes, erased, opened, acknowledged>>
    BY DEF R!Issue, R!Goes
  <1>2. /\ ViewIsTrue(j.view) /\ j.view.next <= MaxRevisions
        /\ j.doc = [s \in DOMAIN j.doc |-> R!Rendered(s, j.view)]
    BY <1>1 DEF ReportInv, ReportJobs, ReportJob
  <1>3. NotesAreKept' BY <1>1 DEF ReportInv, NotesAreKept, R!ErasedStaysErased
  <1>4. CASE ~ (R!AddRevision(r) /\ version = j.view.version)
    <2>1. UNCHANGED <<revisions, count, version, on>>
      BY <1>4 DEF R!Issue, R!SaveReport
    <2>2. ReportJob(R!Idle) BY DEF ReportJob, R!Idle
    <2> QED BY <1>1, <1>3, <2>1, <2>2, ReportReads
  <1>5. CASE R!AddRevision(r) /\ version = j.view.version
    <2>1. /\ revisions' = Append(revisions, r) /\ count' = j.view.count + 1
          /\ version' = version + 1 /\ on' = j.view.on
      BY <1>5 DEF R!Issue, R!SaveReport, R!Issued
    <2>2. j.view.on = on /\ j.view.count = count /\ j.view.next = Len(revisions) + 1
      BY <1>2, <1>5 DEF ViewIsTrue
    <2>3. r.number = Len(revisions) + 1 /\ r.doc = j.doc
      BY <2>2 DEF R!NewRevision, R!NextRevision
    <2>4. R!Reconciles(r.doc) BY <1>2, <2>3, RenderedReconciles
    <2> HIDE DEF r
    <2>5. /\ revisions' \in Seq(Ranges(revisions')) /\ Len(revisions') = Len(revisions) + 1
          /\ DOMAIN revisions = 1 .. Len(revisions) /\ DOMAIN revisions' = 1 .. Len(revisions) + 1
          /\ \A i \in 1 .. Len(revisions) : revisions'[i] = revisions[i]
          /\ revisions'[Len(revisions) + 1] = r
      BY <2>1, OneMoreRevision DEF ReportInv, ReportIsKept
    <2>6. Len(revisions) \in Nat /\ Len(revisions') <= MaxRevisions
      BY <1>2, <2>2, <2>5 DEF ReportInv, ReportIsKept
    <2>7. R!RevisionsAreCounted'
      BY <2>1, <2>2, <2>3, <2>5, <2>6 DEF ReportInv, ReportIsKept, R!RevisionsAreCounted
    <2>8. \A i \in DOMAIN revisions' : R!Reconciles(revisions'[i].doc)
      BY <2>4, <2>5, <2>6 DEF ReportInv, ReportIsKept
    <2>9. version' \in 0 .. MaxToggles + Len(revisions')
      BY <2>1, <2>5, <2>6, ReportAssumption DEF ReportInv, ReportIsKept
    <2>10. on' \in [R!Sections -> BOOLEAN] /\ R!NoToggleIsLost'
      BY <1>1, <2>1, <2>2 DEF ReportInv, ReportIsKept, R!NoToggleIsLost
    <2>11. ReportIsKept'
      BY <1>1, <2>5, <2>6, <2>7, <2>8, <2>9, <2>10
      DEF ReportInv, ReportIsKept, R!Reconciles
    <2>12. ReportJobs' BY <1>1, <2>1, ReportMovesOn
    <2> QED BY <1>1, <1>3, <2>11, <2>12 DEF ReportInv
  <1> QED BY <1>4, <1>5

\* Time goes on, the report is opened, or nothing happens.
LEMMA ReportIsOpened ==
    ASSUME ReportInv, now' \in DOMAIN Moments, opened' \in BOOLEAN,
           UNCHANGED <<notes, erased, on, count, version, revisions, acknowledged, inReport>>
    PROVE  ReportInv'
  <1>1. NotesAreKept' BY DEF ReportInv, NotesAreKept, R!ErasedStaysErased
  <1>2. ReportIsKept'
    BY DEF ReportInv, ReportIsKept, R!RevisionsAreCounted, R!NoToggleIsLost
  <1>3. inReport' = [p \in Issuers |-> inReport'[p]] BY DEF ReportInv, ReportJobs
  <1>4. \A p \in Issuers : ReportJob(inReport[p])'
    BY DEF ReportInv, ReportJobs, ReportJob, ViewIsTrue
  <1> QED BY <1>1, <1>2, <1>3, <1>4 DEF ReportInv, ReportJobs

LEMMA ReportsLast ==
    ASSUME ReportInv, [AuthoringNext]_all PROVE ReportInv'
  <1>1. R!Next \/ UNCHANGED reporting
    BY DEF AuthoringNext, all
  <1>2. CASE UNCHANGED reporting
    <2>1. now' \in DOMAIN Moments /\ opened' \in BOOLEAN
      BY <1>2 DEF reporting, ReportInv, ReportIsKept
    <2>2. UNCHANGED <<notes, erased, on, count, version, revisions, acknowledged, inReport>>
      BY <1>2 DEF reporting
    <2> QED BY <2>1, <2>2, ReportIsOpened
  <1>3. CASE R!Time
    <2>1. now' \in DOMAIN Moments /\ opened' \in BOOLEAN
      BY <1>3 DEF R!Time, R!report, ReportInv, ReportIsKept
    <2>2. UNCHANGED <<notes, erased, on, count, version, revisions, acknowledged, inReport>>
      BY <1>3 DEF R!Time, R!report
    <2> QED BY <2>1, <2>2, ReportIsOpened
  <1>4. ASSUME NEW p \in Issuers, R!openReport(p) PROVE ReportInv'
    <2>1. now' \in DOMAIN Moments /\ opened' \in BOOLEAN
      BY <1>4 DEF R!openReport, R!Open, ReportInv
    <2>2. UNCHANGED <<notes, erased, on, count, version, revisions, acknowledged, inReport>>
      BY <1>4 DEF R!openReport, R!Open
    <2> QED BY <2>1, <2>2, ReportIsOpened
  <1> QED BY <1>1, <1>2, <1>3, <1>4, ReportsOfNotes, ReportsOfReaders, ReportsOfToggle, ReportsOfIssue
      DEF R!Next

\* A revision is of one moment and agrees with itself - one being previewed
\* too - the revisions are counted and numbered whoever issues at the same
\* time, and no request that had read a row before writes back a toggle or a
\* note that somebody was told is gone.
THEOREM ReportsHold == AuthoringSpec => []ReportsAreTrue
  <1>1. ReportInv => ReportsAreTrue
    BY ReportTypeOK DEF ReportInv, NotesAreKept, ReportIsKept, ReportsAreTrue
  <1> QED BY <1>1, ReportsBegin, ReportsLast, PTL DEF AuthoringSpec

-----------------------------------------------------------------------------
(* The briefs.                                                             *)
(*                                                                         *)
(* The brief's row is taken before its links are replaced, so what a save  *)
(* drops is what is there when it commits, and what it adds is all of its  *)
(* draft.                                                                  *)

Linked == Linkable \cup Observations
Freezing == {"questions", "clusters", "connections", "events", "relationships", "create"}

SaveJobs ==
    [step : {"save", "replace", "commit"}, draft : DOMAIN Drafts, edit : BOOLEAN,
     drops : SUBSET Linked, adds : SUBSET Linked]
Frozen == UNION {[ws -> SUBSET Observations] : ws \in SUBSET Pieces}
FreezeJobs ==
    [step : Freezing, brief : [row : 0 .. Len(Drafts), links : SUBSET Linked],
     states : SUBSET States, copies : Frozen, found : SUBSET Observations]
Snapshots ==
    [row : 0 .. Len(Drafts), seen : SUBSET Observations, copies : Frozen,
     found : SUBSET Observations,
     review : ReviewStates, reviewer : People \cup {Nobody}, taken : Nat,
     decisions : Seq([to : ReviewStates, at : Nat]), share : {"none", "live", "revoked"}]

\* What a freeze has copied before each of its steps, if it is of these links.
CopiedBefore(step, ls) ==
    CASE step = "questions" -> {}
      [] step = "clusters" -> ls \cap Questions
      [] step = "connections" -> ls \cap (Questions \cup Clusters)
      [] step = "events" -> ls \cap (Questions \cup Clusters \cup Connections)
      [] step = "relationships" -> ls \cap Linkable
      [] step = "create" -> (ls \cap Linkable) \cup {r \in Relationships : Ends[r] \subseteq ls}

\* It is of one save, and has found what it copied and the observations linked.
AllCopied(f) == UNION {f[w] : w \in DOMAIN f}
FreezeOfOneSave(j) ==
    /\ j \in FreezeJobs
    /\ j.brief.row \in DOMAIN Drafts /\ j.brief.links = Drafts[j.brief.row]
    /\ DOMAIN j.copies = CopiedBefore(j.step, j.brief.links)
    /\ j.found = (j.brief.links \cap Observations) \cup AllCopied(j.copies)

BriefJob(p, j) ==
    /\ j.step \in {"idle", "save", "replace", "commit", "decide"} \cup Freezing
    /\ j.step \in {"save", "replace", "commit"} => j \in SaveJobs
    /\ j.step \in {"save", "replace"} => j.drops = {} /\ j.adds = {}
    /\ j.step = "commit" => j.drops = links /\ j.adds = Drafts[j.draft]
    /\ j.step \in {"replace", "commit"} <=> lock = p
    /\ j.step \in Freezing => FreezeOfOneSave(j)
    /\ j.step = "decide" =>
          j.on \in DOMAIN snapshots /\ j.to \in ReviewStates /\ j.at \in Nat
BriefJobs ==
    /\ job = [p \in People |-> job[p]]
    /\ \A p \in People : BriefJob(p, job[p])

WorkIsKept ==
    /\ restricted \subseteq Observations /\ state \in [Questions -> States]
    /\ cites \in [Pieces -> SUBSET Observations]

BriefIsKept ==
    /\ row \in 0 .. Len(Drafts) /\ links \subseteq Linked /\ lock \in People \cup {Nobody}
    /\ BriefIsOneSave

\* A handoff is of one save and carries what was found; and its review is what
\* was kept last.
HandoffIsKept(s) ==
    /\ HandoffIsOneSave(s)
    /\ s.found = s.seen \cup AllCopied(s.copies)
    /\ IF s.decisions = <<>> THEN s.review = "pending"
       ELSE s.review = s.decisions[Len(s.decisions)].to
HandoffsAreKept ==
    snapshots \in Seq(Snapshots) /\ \A i \in DOMAIN snapshots : HandoffIsKept(snapshots[i])

BriefInv == WorkIsKept /\ BriefIsKept /\ HandoffsAreKept /\ BriefJobs

\* What a handoff carries and what it is judged by are both what was found.
LEMMA ShownAsFrozen ==
    ASSUME NEW s \in Snapshots, s.found = s.seen \cup AllCopied(s.copies)
    PROVE  HandoffIsAsFrozen(s)
  <1>1. PICK ws \in SUBSET Pieces : s.copies \in [ws -> SUBSET Observations]
    BY DEF Snapshots, Frozen
  <1>2. \A w \in DOMAIN s.copies : s.copies[w] \subseteq Observations BY <1>1
  <1>3. SnapshotCites(s) = s.found BY DEF SnapshotCites, AllCopied
  <1>4. Response(s) = s.found
    <2>1. ASSUME NEW o PROVE o \in Response(s) <=> o \in s.found
      BY <1>2 DEF Response, AllCopied
    <2> QED BY <2>1
  <1> QED BY <1>3, <1>4 DEF HandoffIsAsFrozen, SnapshotByIDVisible

LEMMA BriefTypeOK ==
    ASSUME BriefInv PROVE TypeOK /\ HandoffsAreTrue /\ ReviewFollowsDecisions
  <1>1. \A i \in DOMAIN snapshots : snapshots[i] \in Snapshots /\ HandoffIsKept(snapshots[i])
    BY DEF BriefInv, HandoffsAreKept
  <1>2. \A s \in Snapshots : s.review \in ReviewStates /\ DOMAIN s.copies \subseteq Pieces
    BY DEF Snapshots, Frozen
  <1>3. \A p \in People : job[p].step \in
          {"idle", "save", "replace", "commit", "questions", "clusters", "connections",
           "events", "relationships", "create", "decide"}
    BY DEF BriefInv, BriefJobs, BriefJob, Freezing
  <1>4. TypeOK BY <1>1, <1>2, <1>3 DEF BriefInv, WorkIsKept, BriefIsKept, Linked, TypeOK
  <1>5. HandoffsAreTrue BY <1>1, ShownAsFrozen DEF HandoffIsKept, HandoffsAreTrue
  <1>6. ASSUME NEW s \in Snapshots, HandoffIsKept(s), s.decisions # <<>>
        PROVE  /\ \E k \in DOMAIN s.decisions : s.review = s.decisions[k].to
               /\ Newest(s) = Len(s.decisions) => s.review = s.decisions[Newest(s)].to
    <2>1. s.decisions \in Seq([to : ReviewStates, at : Nat]) BY DEF Snapshots
    <2>2. Len(s.decisions) \in DOMAIN s.decisions BY <1>6, <2>1
    <2>3. s.review = s.decisions[Len(s.decisions)].to BY <1>6 DEF HandoffIsKept
    <2> QED BY <2>2, <2>3
  <1>7. ReviewFollowsDecisions BY <1>1, <1>6 DEF HandoffIsKept, ReviewFollowsDecisions
  <1> QED BY <1>4, <1>5, <1>7

LEMMA BriefsBegin == ASSUME AuthoringInit PROVE BriefInv
  <1>1. Init BY DEF AuthoringInit
  <1>2. WorkIsKept BY <1>1 DEF Init, WorkIsKept, States
  <1>3. Len(Drafts) \in Nat BY BriefAssumption
  <1>4. BriefIsKept BY <1>1, <1>3 DEF Init, BriefIsKept, BriefIsOneSave
  <1>5. HandoffsAreKept BY <1>1 DEF Init, HandoffsAreKept
  <1>6. BriefJobs BY <1>1, BriefAssumption DEF Init, BriefJobs, BriefJob, Idle, Freezing
  <1> QED BY <1>2, <1>4, <1>5, <1>6 DEF BriefInv

\* A step of p that leaves the brief and the handoffs as they are.
LEMMA BriefReads ==
    ASSUME BriefInv, NEW p \in People, NEW j, BriefJob(p, j),
           job' = [job EXCEPT ![p] = j], WorkIsKept',
           UNCHANGED <<row, links, lock, snapshots>>
    PROVE  BriefInv'
  <1>1. /\ job' = [q \in People |-> job'[q]]
        /\ \A q \in People : BriefJob(q, job'[q])
    BY DEF BriefInv, BriefJobs
  <1>2. BriefIsKept' /\ HandoffsAreKept'
    BY DEF BriefInv, BriefIsKept, BriefIsOneSave, HandoffsAreKept
  <1>3. \A q \in People : BriefJob(q, job[q])'
    BY <1>1 DEF BriefJob
  <1> QED BY <1>1, <1>2, <1>3 DEF BriefInv, BriefJobs

\* A piece of work is edited, or a source restricted.
LEMMA BriefsOfWork ==
    ASSUME BriefInv, WorkIsKept', UNCHANGED <<row, links, lock, job, snapshots>>
    PROVE  BriefInv'
  <1>1. BriefIsKept' /\ HandoffsAreKept'
    BY DEF BriefInv, BriefIsKept, BriefIsOneSave, HandoffsAreKept
  <1>2. job' = [q \in People |-> job'[q]] BY DEF BriefInv, BriefJobs
  <1>3. \A q \in People : BriefJob(q, job[q])' BY DEF BriefInv, BriefJobs, BriefJob
  <1> QED BY <1>1, <1>2, <1>3 DEF BriefInv, BriefJobs

LEMMA BriefsOfEdits ==
    ASSUME BriefInv, NEW os \in SUBSET Observations,
           \/ \E q \in Questions, s \in States : EditQuestion(q, s, os)
           \/ \E k \in Clusters : EditCluster(k, os)
           \/ \E c \in Connections : EditConnection(c, os)
           \/ \E e \in Events : EditEvent(e, os)
           \/ \E r \in Relationships : EditRelationship(r, os)
           \/ SetSensitivity(os)
    PROVE  BriefInv'
  <1>1. UNCHANGED <<row, links, lock, job, snapshots>>
    BY DEF EditQuestion, EditCluster, EditConnection, EditEvent, EditRelationship, SetSensitivity
  <1>2. WorkIsKept BY DEF BriefInv
  <1>3. WorkIsKept'
    BY <1>2 DEF WorkIsKept, EditQuestion, SaveQuestion, ReplaceQuestionObservations, EditCluster,
       ReplaceClusterObservations, EditConnection, EditEvent, EditRelationship, SetSensitivity
  <1> QED BY <1>1, <1>3, BriefsOfWork

\* One statement that replaces the links of a kind.
LEMMA OneKindReplaced ==
    ASSUME BriefInv, NEW j \in SaveJobs, NEW kind \in SUBSET Linked
    PROVE  /\ Replacing(j, kind) \in SaveJobs
           /\ Replacing(j, kind).step = j.step /\ Replacing(j, kind).draft = j.draft
           /\ Replacing(j, kind).drops = j.drops \cup (links \cap kind)
           /\ Replacing(j, kind).adds = j.adds \cup (Drafts[j.draft] \cap kind)
  <1> DEFINE drops == j.drops \cup (links \cap kind)
             adds == j.adds \cup (Drafts[j.draft] \cap kind)
             k == [j EXCEPT !.drops = drops]
             m == [k EXCEPT !.adds = adds]
  <1>1. drops \in SUBSET Linked /\ adds \in SUBSET Linked
    BY DEF SaveJobs
  <1> HIDE DEF drops, adds
  <1>2. k \in SaveJobs /\ k.drops = drops /\ k.adds = j.adds /\ k.step = j.step /\ k.draft = j.draft
    BY <1>1 DEF SaveJobs
  <1> HIDE DEF k
  <1>3. m \in SaveJobs /\ m.drops = drops /\ m.adds = adds /\ m.step = j.step /\ m.draft = j.draft
    BY <1>1, <1>2 DEF SaveJobs
  <1>4. Replacing(j, kind) = m BY DEF Replacing, m, k, drops, adds
  <1> HIDE DEF m
  <1> QED BY <1>3, <1>4 DEF drops, adds

\* All of them drop what is linked and add what the draft links.
LEMMA EveryKindReplaced ==
    ASSUME BriefInv, NEW j \in SaveJobs, j.drops = {}, j.adds = {}
    PROVE  /\ ReplaceLinks(j) \in SaveJobs /\ ReplaceLinks(j).draft = j.draft
           /\ ReplaceLinks(j).drops = links /\ ReplaceLinks(j).adds = Drafts[j.draft]
  <1> DEFINE a == ReplaceObservations(j)
             b == ReplaceClusters(a)
             c == ReplaceQuestions(b)
             d == ReplaceConnections(c)
             e == ReplaceEvents(d)
  <1>1. /\ Observations \in SUBSET Linked /\ Clusters \in SUBSET Linked /\ Questions \in SUBSET Linked
        /\ Connections \in SUBSET Linked /\ Events \in SUBSET Linked
    BY DEF Linked, Linkable
  <1>2. /\ a \in SaveJobs /\ a.draft = j.draft /\ a.drops = links \cap Observations
        /\ a.adds = Drafts[j.draft] \cap Observations
    BY <1>1, OneKindReplaced DEF ReplaceObservations
  <1> HIDE DEF a
  <1>3. /\ b \in SaveJobs /\ b.draft = j.draft /\ b.drops = a.drops \cup (links \cap Clusters)
        /\ b.adds = a.adds \cup (Drafts[j.draft] \cap Clusters)
    BY <1>1, <1>2, OneKindReplaced DEF ReplaceClusters
  <1> HIDE DEF b
  <1>4. /\ c \in SaveJobs /\ c.draft = j.draft /\ c.drops = b.drops \cup (links \cap Questions)
        /\ c.adds = b.adds \cup (Drafts[j.draft] \cap Questions)
    BY <1>1, <1>3, OneKindReplaced DEF ReplaceQuestions
  <1> HIDE DEF c
  <1>5. /\ d \in SaveJobs /\ d.draft = j.draft /\ d.drops = c.drops \cup (links \cap Connections)
        /\ d.adds = c.adds \cup (Drafts[j.draft] \cap Connections)
    BY <1>1, <1>4, OneKindReplaced DEF ReplaceConnections
  <1> HIDE DEF d
  <1>6. /\ e \in SaveJobs /\ e.draft = j.draft /\ e.drops = d.drops \cup (links \cap Events)
        /\ e.adds = d.adds \cup (Drafts[j.draft] \cap Events)
    BY <1>1, <1>5, OneKindReplaced DEF ReplaceEvents
  <1>7. ReplaceLinks(j) = e BY DEF ReplaceLinks, e, d, c, b, a
  <1> HIDE DEF e
  <1>8. links \subseteq Linked /\ Drafts[j.draft] \subseteq Linked
    BY BriefAssumption DEF BriefInv, BriefIsKept, SaveJobs, Linked
  <1> QED BY <1>2, <1>3, <1>4, <1>5, <1>6, <1>7, <1>8 DEF Linked, Linkable

\* Who waits for the row, and who has it.
LEMMA BriefLockMoves ==
    ASSUME BriefInv, NEW p \in People, NEW j, NEW holder, lock \in {p, Nobody}, holder \in {p, Nobody},
           lock' = holder, job' = [job EXCEPT ![p] = j], BriefIsKept',
           UNCHANGED <<restricted, state, cites, snapshots>>,
           BriefJob(p, job[p])', links' = links \/ lock = p
    PROVE  BriefInv'
  <1>1. /\ job' = [q \in People |-> job'[q]] /\ job'[p] = j
        /\ \A q \in People : q # p => job'[q] = job[q]
    BY DEF BriefInv, BriefJobs
  <1>2. WorkIsKept' /\ HandoffsAreKept'
    BY DEF BriefInv, WorkIsKept, HandoffsAreKept
  <1>3. ASSUME NEW q \in People PROVE BriefJob(q, job[q])'
    <2>1. CASE q = p BY <2>1
    <2>2. CASE q # p
      <3>1. job'[q] = job[q] /\ BriefJob(q, job[q]) BY <2>2, <1>1 DEF BriefInv, BriefJobs
      <3>2. lock # q /\ lock' # q BY <2>2, BriefAssumption
      <3>3. job[q].step \notin {"replace", "commit"} BY <3>1, <3>2 DEF BriefJob
      <3> QED BY <3>1, <3>2, <3>3 DEF BriefJob
    <2> QED BY <2>1, <2>2
  <1> QED BY <1>1, <1>2, <1>3 DEF BriefInv, BriefJobs

LEMMA BriefsOfSaves ==
    ASSUME BriefInv, NEW p \in People,
           \/ \E n \in DOMAIN Drafts : AskSave(p, n)
           \/ TakeRow(p) \/ Replace(p) \/ CommitSave(p)
    PROVE  BriefInv'
  <1> USE DEF Goes, work, brief
  <1>1. BriefJob(p, job[p]) /\ BriefIsKept /\ WorkIsKept BY DEF BriefInv, BriefJobs
  <1>2. ASSUME NEW n \in DOMAIN Drafts, AskSave(p, n) PROVE BriefInv'
    <2> DEFINE j == [step |-> "save", draft |-> n, edit |-> row # 0, drops |-> {}, adds |-> {}]
    <2>1. /\ job' = [job EXCEPT ![p] = j] /\ job[p].step = "idle"
          /\ UNCHANGED <<restricted, state, cites, row, links, lock, snapshots>>
      BY <1>2 DEF AskSave, Idle
    <2>2. lock # p BY <1>1, <2>1 DEF BriefJob
    <2>3. j \in SaveJobs BY DEF SaveJobs
    <2>4. BriefJob(p, j) BY <2>2, <2>3 DEF BriefJob, Freezing
    <2> HIDE DEF j
    <2>5. WorkIsKept' BY <1>1, <2>1 DEF WorkIsKept
    <2> QED BY <2>1, <2>4, <2>5, BriefReads
  <1>3. CASE TakeRow(p)
    <2>1. /\ lock = Nobody /\ job[p].step = "save"
          /\ UNCHANGED <<restricted, state, cites, row, links, snapshots>>
      BY <1>3 DEF TakeRow
    <2>2. job[p] \in SaveJobs /\ job[p].drops = {} /\ job[p].adds = {} BY <1>1, <2>1 DEF BriefJob
    <2>3. CASE SaveRow(p) \/ CreateRow(p)
      <3> DEFINE j == [job[p] EXCEPT !.step = "replace"]
      <3>1. lock' = p /\ job' = [job EXCEPT ![p] = j] BY <1>3, <2>3 DEF TakeRow
      <3>2. j \in SaveJobs /\ j.step = "replace" /\ j.drops = {} /\ j.adds = {}
        BY <2>2 DEF SaveJobs
      <3> HIDE DEF j
      <3>3. BriefIsKept' BY <1>1, <2>1, <3>1 DEF BriefIsKept, BriefIsOneSave
      <3>4. job'[p] = j BY <3>1 DEF BriefInv, BriefJobs
      <3>5. BriefJob(p, job[p])' BY <3>1, <3>2, <3>4 DEF BriefJob, Freezing
      <3> QED BY <2>1, <3>1, <3>3, <3>5, BriefLockMoves
    <2>4. CASE ~ (SaveRow(p) \/ CreateRow(p))
      <3>1. lock' = lock /\ job' = [job EXCEPT ![p] = Idle] BY <1>3, <2>4 DEF TakeRow
      <3>2. BriefJob(p, Idle) BY <2>1, BriefAssumption DEF BriefJob, Idle, Freezing
      <3>3. WorkIsKept' BY <1>1, <2>1 DEF WorkIsKept
      <3> QED BY <2>1, <3>1, <3>2, <3>3, BriefReads
    <2> QED BY <2>3, <2>4
  <1>4. CASE Replace(p)
    <2> DEFINE r == ReplaceLinks(job[p])
               j == [r EXCEPT !.step = "commit"]
    <2>1. /\ job[p].step = "replace" /\ job' = [job EXCEPT ![p] = j]
          /\ UNCHANGED <<restricted, state, cites, row, links, lock, snapshots>>
      BY <1>4 DEF Replace
    <2>2. job[p] \in SaveJobs /\ job[p].drops = {} /\ job[p].adds = {} /\ lock = p
      BY <1>1, <2>1 DEF BriefJob
    <2>3. r \in SaveJobs /\ r.drops = links /\ r.adds = Drafts[r.draft]
      BY <2>2, EveryKindReplaced
    <2> HIDE DEF r
    <2>4. j \in SaveJobs /\ j.step = "commit" /\ j.drops = links /\ j.adds = Drafts[j.draft]
      BY <2>3 DEF SaveJobs
    <2> HIDE DEF j
    <2>5. BriefJob(p, j) BY <2>2, <2>4 DEF BriefJob, Freezing
    <2>6. WorkIsKept' BY <1>1, <2>1 DEF WorkIsKept
    <2> QED BY <2>1, <2>5, <2>6, BriefReads
  <1>5. CASE CommitSave(p)
    <2>1. /\ job[p].step = "commit" /\ job' = [job EXCEPT ![p] = Idle] /\ lock' = Nobody
          /\ row' = job[p].draft /\ links' = (links \ job[p].drops) \cup job[p].adds
          /\ UNCHANGED <<restricted, state, cites, snapshots>>
      BY <1>5 DEF CommitSave
    <2>2. /\ job[p] \in SaveJobs /\ lock = p
          /\ job[p].drops = links /\ job[p].adds = Drafts[job[p].draft]
      BY <1>1, <2>1 DEF BriefJob
    <2>3. job[p].draft \in 1 .. Len(Drafts) /\ Drafts[job[p].draft] \subseteq Linked
      BY <2>2, BriefAssumption DEF SaveJobs, Linked
    <2>4. row' \in 0 .. Len(Drafts) /\ links' = Drafts[row'] /\ links' \subseteq Linked
      BY <2>1, <2>2, <2>3
    <2>5. BriefIsKept' BY <2>1, <2>4 DEF BriefIsKept, BriefIsOneSave
    <2>6. job'[p] = Idle BY <2>1 DEF BriefInv, BriefJobs
    <2>7. BriefJob(p, job[p])' BY <2>1, <2>6, BriefAssumption DEF BriefJob, Idle, Freezing
    <2> QED BY <2>1, <2>2, <2>5, <2>7, BriefLockMoves
  <1> QED BY <1>2, <1>3, <1>4, <1>5

\* What one statement of a freeze copies beside what was copied before.
LEMMA CopiedToo ==
    ASSUME BriefInv, NEW j \in FreezeJobs, NEW ws \in SUBSET Pieces
    PROVE  Copies(j, ws) \in Frozen
  <1> DEFINE d == DOMAIN j.copies \cup ws
             f == Copies(j, ws)
  <1>1. PICK ks \in SUBSET Pieces : j.copies \in [ks -> SUBSET Observations]
    BY DEF FreezeJobs, Frozen
  <1>2. f = [w \in d |-> IF w \in ws THEN cites[w] ELSE j.copies[w]] BY DEF Copies
  <1>3. d \in SUBSET Pieces BY <1>1
  <1>4. ASSUME NEW w \in d PROVE f[w] \in SUBSET Observations
    BY <1>1, <1>2 DEF BriefInv, WorkIsKept
  <1>5. f \in [d -> SUBSET Observations] BY <1>2, <1>4
  <1> QED BY <1>3, <1>5 DEF Frozen

\* The request after a statement of a freeze.
GoesOn(j, ws, to, t) == t = [Copied(j, ws) EXCEPT !.step = to]

\* A statement of a freeze copies what no statement before it has.
LEMMA FreezeGoesOn ==
    ASSUME BriefInv, NEW j, FreezeOfOneSave(j), NEW to \in Freezing, NEW ws \in SUBSET Pieces,
           ws \cap CopiedBefore(j.step, j.brief.links) = {},
           CopiedBefore(to, j.brief.links) = CopiedBefore(j.step, j.brief.links) \cup ws,
           NEW t, GoesOn(j, ws, to, t)
    PROVE  FreezeOfOneSave(t)
  <1> DEFINE f == Copies(j, ws)
             o == j.found \cup UNION {cites[w] : w \in ws}
             k == [j EXCEPT !.copies = f]
             m == [k EXCEPT !.found = o]
             n == [m EXCEPT !.step = to]
  <1>1. j \in FreezeJobs BY DEF FreezeOfOneSave
  <1>2. f \in Frozen BY <1>1, CopiedToo
  <1>3. DOMAIN f = DOMAIN j.copies \cup ws
        /\ \A w \in DOMAIN f : f[w] = IF w \in ws THEN cites[w] ELSE j.copies[w]
    BY DEF Copies
  <1>4. o \in SUBSET Observations
    <2>1. j.found \in SUBSET Observations BY <1>1 DEF FreezeJobs
    <2>2. \A w \in ws : cites[w] \in SUBSET Observations BY DEF BriefInv, WorkIsKept
    <2> QED BY <2>1, <2>2
  <1>5. o = (j.brief.links \cap Observations) \cup AllCopied(f)
    <2>1. DOMAIN j.copies \cap ws = {} BY DEF FreezeOfOneSave
    <2>2. j.found = (j.brief.links \cap Observations) \cup AllCopied(j.copies)
      BY DEF FreezeOfOneSave
    <2>3. AllCopied(f) = AllCopied(j.copies) \cup UNION {cites[w] : w \in ws}
      <3>1. \A w \in ws : w \in DOMAIN f /\ f[w] = cites[w] BY <1>3
      <3>2. \A w \in DOMAIN j.copies : w \in DOMAIN f /\ f[w] = j.copies[w] BY <1>3, <2>1
      <3>3. \A w \in DOMAIN f : w \in ws \/ w \in DOMAIN j.copies BY <1>3
      <3> HIDE DEF f
      <3> QED BY <3>1, <3>2, <3>3 DEF AllCopied
    <2> HIDE DEF f
    <2> QED BY <2>2, <2>3
  <1>6. Copied(j, ws) = m BY DEF Copied, m, k, f, o
  <1> HIDE DEF f, o
  <1>7. k \in FreezeJobs /\ k.copies = f /\ k.brief = j.brief BY <1>1, <1>2 DEF FreezeJobs
  <1> HIDE DEF k
  <1>8. m \in FreezeJobs /\ m.copies = f /\ m.brief = j.brief /\ m.found = o
    BY <1>4, <1>7 DEF FreezeJobs
  <1> HIDE DEF m
  <1>9. n \in FreezeJobs /\ n.copies = f /\ n.brief = j.brief /\ n.found = o /\ n.step = to
    BY <1>8 DEF FreezeJobs
  <1>10. t = n BY <1>6 DEF GoesOn
  <1> HIDE DEF n
  <1> QED BY <1>3, <1>5, <1>9, <1>10 DEF FreezeOfOneSave

\* The states the questions had are the handoff's alone.
LEMMA StatesAreBeside ==
    ASSUME NEW j, FreezeOfOneSave(j), NEW ss \in SUBSET States,
           NEW t, t = [j EXCEPT !.states = ss]
    PROVE  FreezeOfOneSave(t)
  <1>1. j \in FreezeJobs BY DEF FreezeOfOneSave
  <1>2. /\ t \in FreezeJobs /\ t.copies = j.copies /\ t.brief = j.brief
        /\ t.found = j.found /\ t.step = j.step
    BY <1>1 DEF FreezeJobs
  <1> QED BY <1>2 DEF FreezeOfOneSave

\* The rows of the five kinds that are inserted are what was copied.
LEMMA CopiesAreInserted ==
    ASSUME NEW j \in FreezeJobs
    PROVE  Snapshot(j).copies = j.copies
  <1> DEFINE kinds == {Clusters, Questions, Connections, Events, Relationships}
             tables == {ReplaceSnapshotClusters(j), ReplaceSnapshotQuestions(j),
                        ReplaceSnapshotConnections(j), ReplaceSnapshotEvents(j),
                        ReplaceSnapshotEventRelationships(j)}
             t == Together(tables)
  <1>1. PICK ks \in SUBSET Pieces : j.copies \in [ks -> SUBSET Observations]
    BY DEF FreezeJobs, Frozen
  <1>2. tables = {Rows(j, kind) : kind \in kinds}
    BY DEF ReplaceSnapshotClusters, ReplaceSnapshotQuestions, ReplaceSnapshotConnections,
       ReplaceSnapshotEvents, ReplaceSnapshotEventRelationships
  <1>3. \A kind \in kinds : /\ DOMAIN Rows(j, kind) = ks \cap kind
                            /\ \A w \in ks \cap kind : Rows(j, kind)[w] = j.copies[w]
    BY <1>1 DEF Rows
  <1>4. UNION kinds = Pieces BY DEF Pieces, Linkable
  <1> HIDE DEF kinds, tables
  <1>5. UNION {DOMAIN rows : rows \in tables} = ks
    <2>1. ASSUME NEW w \in ks PROVE w \in UNION {DOMAIN rows : rows \in tables}
      <3>1. PICK kind \in kinds : w \in kind BY <1>4
      <3>2. Rows(j, kind) \in tables /\ w \in DOMAIN Rows(j, kind) BY <1>2, <1>3, <3>1
      <3> QED BY ONLY <3>2
    <2>2. ASSUME NEW rows \in tables PROVE DOMAIN rows \subseteq ks
      <3>1. PICK kind \in kinds : rows = Rows(j, kind) BY <1>2
      <3> QED BY <1>3, <3>1
    <2> QED BY ONLY <2>1, <2>2
  <1>6. ASSUME NEW w \in ks
        PROVE  (CHOOSE rows \in tables : w \in DOMAIN rows)[w] = j.copies[w]
    <2> DEFINE rows == CHOOSE rows \in tables : w \in DOMAIN rows
    <2>1. \E r \in tables : w \in DOMAIN r BY <1>5
    <2>2. rows \in tables /\ w \in DOMAIN rows BY <2>1
    <2> HIDE DEF rows
    <2>3. PICK kind \in kinds : rows = Rows(j, kind) BY <1>2, <2>2
    <2>4. rows[w] = j.copies[w] BY <1>3, <2>2, <2>3
    <2> QED BY ONLY <2>4 DEF rows
  <1>7. t = [w \in ks |-> (CHOOSE rows \in tables : w \in DOMAIN rows)[w]]
    BY <1>5 DEF Together
  <1>8. t = j.copies BY <1>1, <1>6, <1>7
  <1>9. Snapshot(j).copies = t BY DEF Snapshot, tables
  <1> QED BY <1>8, <1>9

\* A handoff of what was copied.
LEMMA SnapshotIsOne ==
    ASSUME NEW j, FreezeOfOneSave(j), j.step = "create", Complete(j)
    PROVE  Snapshot(j) \in Snapshots /\ HandoffIsKept(Snapshot(j))
  <1> DEFINE directly == ReplaceSnapshotObservations(j)
             s == Snapshot(j)
  <1>0. j \in FreezeJobs BY DEF FreezeOfOneSave
  <1>1. s.copies = j.copies BY <1>0, CopiesAreInserted
  <1>2. directly = j.brief.links \cap Observations BY DEF ReplaceSnapshotObservations
  <1> DEFINE rec(copies) ==
               [row |-> j.brief.row, seen |-> directly, copies |-> copies,
                found |-> j.found, review |-> "pending", reviewer |-> Nobody,
                taken |-> 0, decisions |-> <<>>, share |-> "none"]
  <1>3. /\ s = rec(s.copies)
        /\ s.row = j.brief.row /\ s.seen = directly /\ s.found = j.found
        /\ s.review = "pending" /\ s.decisions = <<>>
    BY DEF Snapshot
  <1> HIDE DEF s, directly
  <1>4. /\ j.brief.row \in 0 .. Len(Drafts) /\ j.copies \in Frozen
        /\ j.found \in SUBSET Observations
    BY <1>0 DEF FreezeJobs
  <1>5. <<>> \in Seq([to : ReviewStates, at : Nat]) /\ "pending" \in ReviewStates /\ 0 \in Nat
    BY DEF ReviewStates
  <1>6. s \in Snapshots
    <2>1. s = rec(j.copies) BY <1>1, <1>3
    <2>2. directly \in SUBSET Observations BY <1>2
    <2>3. rec(j.copies) \in Snapshots BY <1>4, <1>5, <2>2 DEF Snapshots
    <2> QED BY <2>1, <2>3
  <1>7. /\ j.brief.row \in DOMAIN Drafts /\ j.brief.links = Drafts[j.brief.row]
        /\ j.found = (j.brief.links \cap Observations) \cup AllCopied(j.copies)
        /\ DOMAIN j.copies = CopiedBefore("create", j.brief.links)
    BY DEF FreezeOfOneSave
  <1>8. /\ DOMAIN j.copies \cap Linkable = j.brief.links \cap Linkable
        /\ \A r \in DOMAIN j.copies \cap Relationships : Ends[r] \subseteq j.brief.links
    BY <1>7, BriefAssumption DEF CopiedBefore
  <1>9. j.brief.links \subseteq Linkable \cup Observations BY <1>7, BriefAssumption
  <1>10. HandoffIsOneSave(s)
    BY <1>1, <1>2, <1>3, <1>7, <1>8, <1>9 DEF HandoffIsOneSave
  <1>11. HandoffIsKept(s) BY <1>1, <1>2, <1>3, <1>7, <1>10 DEF HandoffIsKept
  <1> QED BY <1>6, <1>11 DEF s

\* A step of p that adds or changes a handoff.
LEMMA HandoffsChange ==
    ASSUME BriefInv, HandoffsAreKept', DOMAIN snapshots \subseteq DOMAIN snapshots',
           UNCHANGED <<restricted, state, cites, row, links, lock>>,
           \/ UNCHANGED job
           \/ \E p \in People :
                 job' = [job EXCEPT ![p] = Idle] /\ job[p].step \in Freezing \cup {"decide"}
           \/ \E p \in People, i \in DOMAIN snapshots, to \in ReviewStates, n \in Nat :
                 /\ job' = [job EXCEPT ![p] = [step |-> "decide", on |-> i, to |-> to, at |-> n]]
                 /\ job[p].step = "idle"
    PROVE  BriefInv'
  <1>1. WorkIsKept' /\ BriefIsKept'
    BY DEF BriefInv, WorkIsKept, BriefIsKept, BriefIsOneSave
  <1>2. job' = [q \in People |-> job'[q]] BY DEF BriefInv, BriefJobs
  <1>3. ASSUME NEW q \in People PROVE BriefJob(q, job[q])'
    <2>1. BriefJob(q, job[q]) BY DEF BriefInv, BriefJobs
    <2>2. CASE job'[q] = job[q] BY <2>1, <2>2 DEF BriefJob
    <2>3. ASSUME NEW p \in People, NEW j, job' = [job EXCEPT ![p] = j],
                 job[p].step \in Freezing \cup {"idle", "decide"}, BriefJob(p, j)',
                 j.step \in {"idle", "decide"}
          PROVE  BriefJob(q, job[q])'
      <3>1. CASE q # p BY <2>2, <2>3, <3>1
      <3>2. CASE q = p
        <4>1. job'[q] = j BY <2>3, <3>2 DEF BriefInv, BriefJobs
        <4> QED BY <2>3, <3>2, <4>1
      <3> QED BY <3>1, <3>2
    <2>4. ASSUME NEW p \in People, job[p].step \in Freezing \cup {"idle", "decide"} PROVE lock # p
      BY <2>4 DEF BriefInv, BriefJobs, BriefJob, Freezing
    <2>5. ASSUME NEW p \in People, job' = [job EXCEPT ![p] = Idle],
                 job[p].step \in Freezing \cup {"decide"}
          PROVE  BriefJob(q, job[q])'
      <3>1. BriefJob(p, Idle)' BY <2>4, <2>5 DEF BriefJob, Idle, Freezing
      <3> QED BY <2>3, <2>5, <3>1 DEF Idle
    <2>6. ASSUME NEW p \in People, NEW i \in DOMAIN snapshots, NEW to \in ReviewStates,
                 NEW n \in Nat, job[p].step = "idle",
                 job' = [job EXCEPT ![p] = [step |-> "decide", on |-> i, to |-> to, at |-> n]]
          PROVE  BriefJob(q, job[q])'
      <3> DEFINE j == [step |-> "decide", on |-> i, to |-> to, at |-> n]
      <3>1. j.step = "decide" /\ j.on = i /\ j.to = to /\ j.at = n OBVIOUS
      <3> HIDE DEF j
      <3>2. BriefJob(p, j)' BY <2>4, <2>6, <3>1 DEF BriefJob, Freezing
      <3> QED BY <2>3, <2>6, <3>1, <3>2 DEF j
    <2> QED BY <2>2, <2>5, <2>6
  <1> QED BY <1>1, <1>2, <1>3 DEF BriefInv, BriefJobs

LEMMA BriefsOfFreezes ==
    ASSUME BriefInv, NEW p \in People,
           \/ AskFreeze(p) \/ QuestionSnapshots(p) \/ ClusterSnapshots(p) \/ ConnectionSnapshots(p)
           \/ EventSnapshots(p) \/ EventRelationshipSnapshots(p)
    PROVE  BriefInv'
  <1> USE DEF Goes, work, brief
  <1>1. /\ BriefJob(p, job[p]) /\ WorkIsKept /\ links \subseteq Linked
        /\ row \in 0 .. Len(Drafts)
    BY DEF BriefInv, BriefJobs, BriefIsKept
  <1>2. UNCHANGED <<restricted, state, cites, row, links, lock, snapshots>>
    BY DEF AskFreeze, QuestionSnapshots, ClusterSnapshots, ConnectionSnapshots, EventSnapshots,
           EventRelationshipSnapshots
  <1>3. WorkIsKept' BY <1>1, <1>2 DEF WorkIsKept
  <1>4. lock # p
    BY <1>1 DEF BriefJob, AskFreeze, QuestionSnapshots, ClusterSnapshots, ConnectionSnapshots,
       EventSnapshots, EventRelationshipSnapshots, Idle
  <1>5. ASSUME NEW j, FreezeOfOneSave(j), job' = [job EXCEPT ![p] = j] PROVE BriefInv'
    <2>1. BriefJob(p, j) BY <1>4, <1>5 DEF BriefJob, FreezeOfOneSave, FreezeJobs, Freezing
    <2> QED BY <1>2, <1>3, <1>5, <2>1, BriefReads
  <1>6. CASE AskFreeze(p)
    <2> DEFINE f == [w \in {} |-> {}]
               j == [step |-> "questions", brief |-> ByWorkspace, states |-> {},
                     copies |-> f, found |-> links \cap Observations]
    <2>1. job' = [job EXCEPT ![p] = j] /\ row # 0 BY <1>6 DEF AskFreeze
    <2>2. f \in [{} -> SUBSET Observations] /\ DOMAIN f = {} OBVIOUS
    <2>3. f \in Frozen BY <2>2 DEF Frozen
    <2>4. AllCopied(f) = {} BY <2>2 DEF AllCopied
    <2> HIDE DEF f
    <2>5. j \in FreezeJobs BY <1>1, <2>3 DEF FreezeJobs, Freezing, ByWorkspace
    <2>6. row \in DOMAIN Drafts /\ links = Drafts[row]
      BY <1>1, <2>1, BriefAssumption DEF BriefInv, BriefIsKept, BriefIsOneSave
    <2>7. FreezeOfOneSave(j)
      BY <2>2, <2>4, <2>5, <2>6 DEF FreezeOfOneSave, CopiedBefore, ByWorkspace
    <2> HIDE DEF j
    <2> QED BY <2>1, <2>7, <1>5
  <1>7. ASSUME job[p].step \in Freezing, NEW to \in Freezing, NEW ws \in SUBSET Pieces,
               ws \cap CopiedBefore(job[p].step, job[p].brief.links) = {},
               CopiedBefore(to, job[p].brief.links) =
                 CopiedBefore(job[p].step, job[p].brief.links) \cup ws,
               job' = [job EXCEPT ![p] = [Copied(job[p], ws) EXCEPT !.step = to]]
        PROVE  BriefInv'
    <2> DEFINE c == Copied(job[p], ws)
               j == [c EXCEPT !.step = to]
    <2>1. FreezeOfOneSave(job[p]) BY <1>1, <1>7 DEF BriefJob
    <2>2. job' = [job EXCEPT ![p] = j] BY <1>7
    <2>3. GoesOn(job[p], ws, to, j) BY DEF GoesOn
    <2> HIDE DEF j
    <2>5. FreezeOfOneSave(j) BY <1>7, <2>1, <2>3, FreezeGoesOn
    <2> QED BY <2>2, <2>5, <1>5
  <1>8. CASE QuestionSnapshots(p)
    <2> DEFINE qs == job[p].brief.links \cap Questions
               states == {state[q] : q \in qs}
               n == [Copied(job[p], qs) EXCEPT !.step = "clusters"]
               j == [n EXCEPT !.states = states]
    <2>1. job[p].step = "questions" BY <1>8 DEF QuestionSnapshots
    <2>2. FreezeOfOneSave(job[p]) BY <1>1, <2>1 DEF BriefJob, Freezing
    <2>3. job' = [job EXCEPT ![p] = j] BY <1>8 DEF QuestionSnapshots
    <2>4. qs \in SUBSET Pieces BY DEF Pieces, Linkable
    <2>5. states \in SUBSET States BY <1>1 DEF WorkIsKept
    <2>6. /\ CopiedBefore("questions", job[p].brief.links) = {}
          /\ CopiedBefore("clusters", job[p].brief.links) = qs
      BY DEF CopiedBefore
    <2>7. qs \cap CopiedBefore("questions", job[p].brief.links) = {} BY <2>6
    <2> HIDE DEF qs, states
    <2>8. GoesOn(job[p], qs, "clusters", n) /\ "clusters" \in Freezing
      BY DEF GoesOn, Freezing
    <2> HIDE DEF n
    <2>9. FreezeOfOneSave(n)
      BY <2>1, <2>2, <2>4, <2>6, <2>7, <2>8, FreezeGoesOn
    <2>10. FreezeOfOneSave(j) BY <2>5, <2>9, StatesAreBeside
    <2> HIDE DEF j
    <2> QED BY <2>3, <2>10, <1>5
  <1>9. CASE ClusterSnapshots(p)
    <2> DEFINE ls == job[p].brief.links
    <2>1. ls \cap Clusters \in SUBSET Pieces BY DEF Pieces, Linkable
    <2>2. /\ (ls \cap Clusters) \cap CopiedBefore("clusters", ls) = {}
          /\ CopiedBefore("connections", ls) = CopiedBefore("clusters", ls) \cup (ls \cap Clusters)
      BY BriefAssumption DEF CopiedBefore
    <2> QED BY <1>9, <2>1, <2>2, <1>7 DEF ClusterSnapshots, Freezing
  <1>10. CASE ConnectionSnapshots(p)
    <2> DEFINE ls == job[p].brief.links
    <2>1. ls \cap Connections \in SUBSET Pieces BY DEF Pieces, Linkable
    <2>2. /\ (ls \cap Connections) \cap CopiedBefore("connections", ls) = {}
          /\ CopiedBefore("events", ls) =
               CopiedBefore("connections", ls) \cup (ls \cap Connections)
      BY BriefAssumption DEF CopiedBefore
    <2> QED BY <1>10, <2>1, <2>2, <1>7 DEF ConnectionSnapshots, Freezing
  <1>11. CASE EventSnapshots(p)
    <2> DEFINE ls == job[p].brief.links
    <2>1. ls \cap Events \in SUBSET Pieces BY DEF Pieces, Linkable
    <2>2. /\ (ls \cap Events) \cap CopiedBefore("events", ls) = {}
          /\ CopiedBefore("relationships", ls) = CopiedBefore("events", ls) \cup (ls \cap Events)
      BY BriefAssumption DEF CopiedBefore, Linkable
    <2> QED BY <1>11, <2>1, <2>2, <1>7 DEF EventSnapshots, Freezing
  <1>12. CASE EventRelationshipSnapshots(p)
    <2> DEFINE ls == job[p].brief.links
               between == {r \in Relationships : Ends[r] \subseteq ls}
    <2>1. between \in SUBSET Pieces BY DEF Pieces
    <2>2. /\ between \cap CopiedBefore("relationships", ls) = {}
          /\ CopiedBefore("create", ls) = CopiedBefore("relationships", ls) \cup between
      BY BriefAssumption DEF CopiedBefore
    <2> QED BY <1>12, <2>1, <2>2, <1>7 DEF EventRelationshipSnapshots, Freezing
  <1> QED BY <1>6, <1>8, <1>9, <1>10, <1>11, <1>12

LEMMA BriefsOfHandoffs ==
    ASSUME BriefInv, NEW p \in People, CreateSnapshot(p) \/ Decide(p)
    PROVE  BriefInv'
  <1> USE DEF Goes, work, brief
  <1>1. BriefJob(p, job[p]) /\ HandoffsAreKept BY DEF BriefInv, BriefJobs
  <1>2. /\ job' = [job EXCEPT ![p] = Idle] /\ job[p].step \in {"create", "decide"}
        /\ UNCHANGED <<restricted, state, cites, row, links, lock>>
    BY DEF CreateSnapshot, Decide
  <1>3. HandoffsAreKept' /\ DOMAIN snapshots \subseteq DOMAIN snapshots'
    <2>1. CASE CreateSnapshot(p)
      <3> DEFINE s == Snapshot(job[p])
      <3>1. FreezeOfOneSave(job[p]) /\ job[p].step = "create"
        BY <1>1, <2>1 DEF BriefJob, Freezing, CreateSnapshot
      <3>2. \/ snapshots' = snapshots
            \/ snapshots' = Append(snapshots, s) /\ Complete(job[p])
        BY <2>1 DEF CreateSnapshot
      <3>3. Complete(job[p]) => s \in Snapshots /\ HandoffIsKept(s) BY <3>1, SnapshotIsOne
      <3> HIDE DEF s
      <3> QED BY <1>1, <3>2, <3>3 DEF HandoffsAreKept
    <2>2. CASE Decide(p)
      <3> DEFINE i == job[p].on
                 to == job[p].to
                 s == snapshots[i]
                 d == [to |-> to, at |-> job[p].at]
                 ds == Append(s.decisions, d)
                 k == [s EXCEPT !.decisions = ds]
                 m == [k EXCEPT !.review = to]
      <3>1. i \in DOMAIN snapshots /\ to \in ReviewStates /\ d \in [to : ReviewStates, at : Nat]
            /\ d.to = to
        BY <1>1, <2>2 DEF BriefJob, Decide
      <3>2. s \in Snapshots /\ HandoffIsKept(s) BY <1>1, <3>1 DEF HandoffsAreKept
      <3>3. snapshots' = [snapshots EXCEPT ![i] = AddReviewDecision(s, to, job[p].at)]
        BY <1>1, <2>2, <3>1 DEF Decide, EnsureSnapshotReview, HandoffsAreKept
      <3>4. AddReviewDecision(s, to, job[p].at) = m BY DEF AddReviewDecision
      <3> HIDE DEF i, to, s, d
      <3>5. s.decisions \in Seq([to : ReviewStates, at : Nat]) BY <3>2 DEF Snapshots
      <3>6. ds \in Seq([to : ReviewStates, at : Nat]) /\ ds # <<>> /\ ds[Len(ds)] = d
        BY <3>1, <3>5
      <3> HIDE DEF ds
      <3>7. /\ k \in Snapshots /\ k.decisions = ds
            /\ k.row = s.row /\ k.seen = s.seen /\ k.copies = s.copies /\ k.found = s.found
        BY <3>2, <3>6 DEF Snapshots
      <3> HIDE DEF k
      <3>8. /\ m \in Snapshots /\ m.decisions = ds /\ m.review = to
            /\ m.row = s.row /\ m.seen = s.seen /\ m.copies = s.copies /\ m.found = s.found
        BY <3>1, <3>7 DEF Snapshots
      <3> HIDE DEF m
      <3>9. HandoffIsKept(m) BY <3>1, <3>2, <3>6, <3>8 DEF HandoffIsKept, HandoffIsOneSave
      <3>10. snapshots' = [snapshots EXCEPT ![i] = m] BY <3>3, <3>4
      <3> QED BY <1>1, <3>1, <3>8, <3>9, <3>10 DEF HandoffsAreKept
    <2> QED BY <2>1, <2>2
  <1> QED BY <1>2, <1>3, HandoffsChange DEF Freezing

LEMMA BriefsOfReviews ==
    ASSUME BriefInv, NEW i \in DOMAIN snapshots,
           \/ \E p \in People :
                 \/ AssignSnapshotReviewer(i, p)
                 \/ \E to \in ReviewStates \ {"pending"} : AskDecide(p, i, to)
           \/ CreateSnapshotShare(i) \/ RevokeSnapshotShare(i)
    PROVE  BriefInv'
  <1> USE DEF Goes, work, brief
  <1> DEFINE s == snapshots[i]
  <1>1. HandoffsAreKept /\ s \in Snapshots /\ HandoffIsKept(s) BY DEF BriefInv, HandoffsAreKept
  <1>2. ASSUME NEW t \in Snapshots, t.decisions = s.decisions, t.review = s.review, t.row = s.row,
               t.seen = s.seen, t.copies = s.copies, t.found = s.found,
               snapshots' = [snapshots EXCEPT ![i] = t]
        PROVE  HandoffsAreKept' /\ DOMAIN snapshots' = DOMAIN snapshots
    <2>1. HandoffIsKept(t) BY <1>1, <1>2 DEF HandoffIsKept, HandoffIsOneSave
    <2> QED BY <1>1, <1>2, <2>1 DEF HandoffsAreKept
  <1>3. ASSUME NEW p \in People, NEW to \in ReviewStates, AskDecide(p, i, to) PROVE BriefInv'
    <2> DEFINE n == s.taken + 1
               t == [s EXCEPT !.taken = n]
    <2>1. s.taken \in Nat BY <1>1 DEF Snapshots
    <2>2. /\ job' = [job EXCEPT ![p] = [step |-> "decide", on |-> i, to |-> to, at |-> n]]
          /\ job[p].step = "idle" /\ n \in Nat
          /\ UNCHANGED <<restricted, state, cites, row, links, lock>>
      BY <1>3, <2>1 DEF AskDecide, Idle
    <2>3. snapshots' = [snapshots EXCEPT ![i] = t] BY <1>1, <1>3 DEF AskDecide
    <2>4. t \in Snapshots /\ t.decisions = s.decisions /\ t.review = s.review /\ t.row = s.row
          /\ t.seen = s.seen /\ t.copies = s.copies /\ t.found = s.found
      BY <1>1, <2>1 DEF Snapshots
    <2> HIDE DEF t, n
    <2>5. HandoffsAreKept' /\ DOMAIN snapshots' = DOMAIN snapshots BY <2>3, <2>4, <1>2
    <2> QED BY <1>3, <2>2, <2>5, HandoffsChange
  <1>4. ASSUME NEW p \in People, AssignSnapshotReviewer(i, p) PROVE BriefInv'
    <2> DEFINE t == [s EXCEPT !.reviewer = p]
    <2>1. snapshots' = [snapshots EXCEPT ![i] = t]
      BY <1>1, <1>4 DEF AssignSnapshotReviewer, Assigned, EnsureSnapshotReview
    <2>2. t \in Snapshots /\ t.decisions = s.decisions /\ t.review = s.review /\ t.row = s.row
          /\ t.seen = s.seen /\ t.copies = s.copies /\ t.found = s.found
      BY <1>1 DEF Snapshots
    <2> HIDE DEF t
    <2>3. HandoffsAreKept' /\ DOMAIN snapshots' = DOMAIN snapshots BY <2>1, <2>2, <1>2
    <2> QED BY <1>4, <2>3, HandoffsChange DEF AssignSnapshotReviewer
  <1>5. ASSUME NEW value \in {"none", "live", "revoked"},
               snapshots' = [snapshots EXCEPT ![i].share = value],
               UNCHANGED <<restricted, state, cites, row, links, lock, job>>
        PROVE  BriefInv'
    <2> DEFINE t == [s EXCEPT !.share = value]
    <2>1. snapshots' = [snapshots EXCEPT ![i] = t] BY <1>1, <1>5
    <2>2. t \in Snapshots /\ t.decisions = s.decisions /\ t.review = s.review /\ t.row = s.row
          /\ t.seen = s.seen /\ t.copies = s.copies /\ t.found = s.found
      BY <1>1 DEF Snapshots
    <2> HIDE DEF t
    <2>3. HandoffsAreKept' /\ DOMAIN snapshots' = DOMAIN snapshots BY <2>1, <2>2, <1>2
    <2> QED BY <1>5, <2>3, HandoffsChange
  <1> QED BY <1>3, <1>4, <1>5 DEF CreateSnapshotShare, RevokeSnapshotShare

LEMMA BriefsLast ==
    ASSUME BriefInv, [AuthoringNext]_all PROVE BriefInv'
  <1>1. Next \/ UNCHANGED vars BY DEF AuthoringNext, all
  <1>2. CASE UNCHANGED vars
    <2>1. WorkIsKept' BY <1>2 DEF vars, BriefInv, WorkIsKept
    <2> QED BY <1>2, <2>1, BriefsOfWork DEF vars
  <1>3. CASE Next
    BY <1>3, BriefsOfEdits, BriefsOfSaves, BriefsOfFreezes, BriefsOfHandoffs, BriefsOfReviews DEF Next
  <1> QED BY <1>1, <1>2, <1>3

\* The brief that is stored is one person's, its links those that came with the
\* text, however many save at a time; a handoff is of one such save, whole, and
\* carries what was read when it was frozen, which alone decides who may see it;
\* and its review is what the newest decision says, unless one taken before that
\* was kept after it.
THEOREM BriefsHold == AuthoringSpec => []BriefsAreTrue
  <1>1. BriefInv => BriefsAreTrue
    BY BriefTypeOK DEF BriefInv, BriefIsKept, HandoffsAreKept, BriefsAreTrue
  <1> QED BY <1>1, BriefsBegin, BriefsLast, PTL DEF AuthoringSpec

-----------------------------------------------------------------------------
(* The assistance.                                                         *)
(*                                                                         *)
(* An answer is kept with the evidence that the request carried all along, *)
(* never with what is stored when it arrives; and of the reviews of one    *)
(* proposal the row is of whichever was written last.                      *)

Passage == Quotes \cup InCapture
Answered == [kind : A!Kinds, given : SUBSET Selectable, heard : SUBSET Selectable,
             cites : SUBSET Selectable, status : A!ResultStatuses]
Operations == [status : A!OperationStatuses, retry : Nat]
Proposed == [op : Nat, quote : Passage, state : {"proposed", "accepted", "rejected"}, says : Passage]
Judged == [proposal : Nat, decision : {"accept", "reject"}]
Extracts == {<<>>} \cup {<<d>> : d \in [quote : Passage, valid : BOOLEAN]}

\* What a provider of a kind may have answered.
IsAnswer(kind, a) ==
    IF kind = "extraction" THEN a \in A!Failures \/ a.drafts \in Extracts
    ELSE /\ a.cites \in SUBSET Selectable /\ a.status \in A!ResultStatuses \cup {"claimed"}
         /\ kind = "synthesis" => a.status # "claimed"

AssistJob(j) ==
    /\ j.step \in {"idle", "asked", "capture", "calling", "answered", "review"}
    /\ j.step \in {"asked", "capture", "calling", "answered"} =>
          /\ j.kind \in A!Kinds \cup {"extraction"} /\ j.given \in SUBSET Selectable
          /\ j.retry \in 0 .. Len(operations)
    /\ j.step \in {"asked", "capture", "calling"} =>
          j = [step |-> j.step, kind |-> j.kind, given |-> j.given, retry |-> j.retry]
    /\ j.step = "answered" => IsAnswer(j.kind, j.answer)
    /\ j.step = "review" =>
          /\ j.proposal \in DOMAIN proposals /\ j.decision \in {"accept", "reject"}
          /\ j.row \in Proposed
          /\ j.row.state = IF j.decision = "accept" THEN "accepted" ELSE "rejected"
          /\ j.row.state = "accepted" => j.row.says \in InCapture
AssistJobs ==
    /\ inAssistance = [p \in Askers |-> inAssistance[p]]
    /\ \A p \in Askers : AssistJob(inAssistance[p])

AssistTypes ==
    /\ external \in BOOLEAN /\ allow \in BOOLEAN /\ retained \in BOOLEAN
    /\ hidden \subseteq Selectable /\ told \subseteq Selectable
ResultsAreKept == results \in Seq(Answered) /\ A!HeardIsKept
OperationsAreKept ==
    operations \in Seq(Operations) /\ \A i \in DOMAIN operations : operations[i].retry \in 0 .. i - 1
ProposalsAreKept ==
    /\ proposals \in Seq(Proposed) /\ reviews \in Seq(Judged)
    /\ \A k \in DOMAIN reviews : reviews[k].proposal \in DOMAIN proposals
    /\ A!LastReviewIsTheState

AssistInv == AssistTypes /\ ResultsAreKept /\ OperationsAreKept /\ ProposalsAreKept /\ AssistJobs

LEMMA AssistTypeOK == ASSUME AssistInv PROVE A!TypeOK /\ A!ShownIsGrounded
  <1>1. \A i \in DOMAIN results : results[i] \in Answered BY DEF AssistInv, ResultsAreKept
  <1>2. \A i \in DOMAIN operations : operations[i] \in Operations BY DEF AssistInv, OperationsAreKept
  <1>3. \A i \in DOMAIN proposals : proposals[i] \in Proposed BY DEF AssistInv, ProposalsAreKept
  <1>4. \A p \in Askers : inAssistance[p].step \in {"idle", "asked", "capture", "calling", "answered", "review"}
    BY DEF AssistInv, AssistJobs, AssistJob
  <1>5. A!TypeOK
    BY <1>1, <1>2, <1>3, <1>4
    DEF AssistInv, AssistTypes, OperationsAreKept, A!TypeOK, Answered, Operations, Proposed
  <1>6. A!ShownIsGrounded
    BY <1>1 DEF AssistInv, ResultsAreKept, A!HeardIsKept, A!ShownIsGrounded, A!Shown, A!Clear,
       A!SynthesisByIDVisible, A!ComparisonByIDVisible, A!QuestionSuggestionsByIDVisible,
       A!BriefDraftByIDVisible, Answered
  <1> QED BY <1>5, <1>6

LEMMA AssistanceBegins == ASSUME AuthoringInit PROVE AssistInv
  <1>1. A!Init BY DEF AuthoringInit
  <1>2. AssistTypes BY <1>1 DEF A!Init, AssistTypes, A!DefaultProviderPolicy
  <1>3. ResultsAreKept /\ OperationsAreKept /\ ProposalsAreKept
    BY <1>1 DEF A!Init, ResultsAreKept, OperationsAreKept, ProposalsAreKept, A!HeardIsKept,
       A!LastReviewIsTheState
  <1>4. AssistJobs BY <1>1 DEF A!Init, AssistJobs, AssistJob, A!Idle
  <1> QED BY <1>1, <1>2, <1>3, <1>4 DEF AssistInv

\* A step of p, after which what others have read is there still.
LEMMA AssistanceMoves ==
    ASSUME AssistInv, AssistTypes', ResultsAreKept', OperationsAreKept', ProposalsAreKept',
           Len(operations) <= Len(operations'), DOMAIN proposals \subseteq DOMAIN proposals',
           NEW p \in Askers, NEW j, inAssistance' = [inAssistance EXCEPT ![p] = j],
           AssistJob(inAssistance[p])'
    PROVE  AssistInv'
  <1>1. /\ inAssistance' = [q \in Askers |-> inAssistance'[q]]
        /\ \A q \in Askers : q # p => inAssistance'[q] = inAssistance[q]
    BY DEF AssistInv, AssistJobs
  <1>2. Len(operations) \in Nat /\ Len(operations') \in Nat
    BY DEF AssistInv, OperationsAreKept
  <1>3. ASSUME NEW q \in Askers PROVE AssistJob(inAssistance[q])'
    <2>1. CASE q = p BY <2>1
    <2>2. CASE q # p
      <3>1. inAssistance'[q] = inAssistance[q] /\ AssistJob(inAssistance[q])
        BY <2>2, <1>1 DEF AssistInv, AssistJobs
      <3> QED BY <3>1, <1>2 DEF AssistJob
    <2> QED BY <2>1, <2>2
  <1> QED BY <1>1, <1>3 DEF AssistInv, AssistJobs

\* A step that changes p's job alone.
LEMMA AssistanceAsks ==
    ASSUME AssistInv, NEW p \in Askers, NEW j, AssistJob(j),
           inAssistance' = [inAssistance EXCEPT ![p] = j],
           UNCHANGED <<external, allow, retained, hidden, told, results, operations, proposals, reviews>>
    PROVE  AssistInv'
  <1>1. AssistTypes' /\ ResultsAreKept' /\ OperationsAreKept' /\ ProposalsAreKept'
    BY DEF AssistInv, AssistTypes, ResultsAreKept, OperationsAreKept, ProposalsAreKept,
       A!HeardIsKept, A!LastReviewIsTheState
  <1>2. inAssistance'[p] = j BY DEF AssistInv, AssistJobs
  <1>3. AssistJob(inAssistance[p])' BY <1>2 DEF AssistJob
  <1>4. Len(operations) \in Nat BY DEF AssistInv, OperationsAreKept
  <1>5. Len(operations) <= Len(operations') /\ DOMAIN proposals \subseteq DOMAIN proposals'
    BY <1>4
  <1> QED BY <1>1, <1>3, <1>5, AssistanceMoves

\* Time, people and sources go on, and nobody's job with them.
LEMMA AssistanceRests ==
    ASSUME AssistInv, AssistTypes',
           UNCHANGED <<results, operations, proposals, reviews, inAssistance>>
    PROVE  AssistInv'
  <1>1. ResultsAreKept' /\ OperationsAreKept' /\ ProposalsAreKept'
    BY DEF AssistInv, ResultsAreKept, OperationsAreKept, ProposalsAreKept,
       A!HeardIsKept, A!LastReviewIsTheState
  <1>2. inAssistance' = [q \in Askers |-> inAssistance'[q]] BY DEF AssistInv, AssistJobs
  <1>3. \A q \in Askers : AssistJob(inAssistance[q])' BY DEF AssistInv, AssistJobs, AssistJob
  <1> QED BY <1>1, <1>2, <1>3 DEF AssistInv, AssistJobs

\* What the providers may answer.
LEMMA AnswersAreOfAKind ==
    ASSUME NEW kind \in A!Kinds \cup {"extraction"}, NEW given \in SUBSET Selectable, external \in BOOLEAN,
           NEW a \in A!Answers(kind, given)
    PROVE  IsAnswer(kind, a)
  <1> USE DEF A!Said, A!Drafted, A!ResultStatuses
  <1>1. \A f \in A!Failures : f.cites = {} /\ f.status \in {"failed", "unsupported", "timed_out"}
    BY DEF A!Failures
  <1>2. ASSUME NEW b, b \in A!Failures \cup {A!Said("completed", c) : c \in SUBSET Selectable} \cup {A!Said("empty", {})}
        PROVE  b.cites \in SUBSET Selectable /\ b.status \in A!ResultStatuses
    BY <1>1, <1>2
  <1>3. ASSUME NEW b \in A!ProcessAnswers
        PROVE  b.cites \in SUBSET Selectable /\ b.status \in A!ResultStatuses \cup {"claimed"}
    BY <1>1 DEF A!ProcessAnswers
  <1>4. CASE kind = "synthesis"
    <2>1. A!Answers(kind, given) =
            IF external THEN A!ProcessSynthesize(given) ELSE A!LocalSynthesize(given)
      BY <1>4 DEF A!Answers
    <2>2. a \in A!Failures \cup {A!Said("completed", c) : c \in SUBSET Selectable} \cup {A!Said("empty", {})}
      BY <2>1 DEF A!ProcessSynthesize, A!LocalSynthesize
    <2>3. a.cites \in SUBSET Selectable /\ a.status \in A!ResultStatuses BY <1>2, <2>2
    <2> QED BY <1>4, <2>3 DEF IsAnswer
  <1>5. ASSUME kind # "synthesis", kind # "extraction",
               a \in A!ProcessAnswers \cup {A!Said("completed", given), A!Said("empty", {})}
        PROVE  IsAnswer(kind, a)
    BY <1>3, <1>5 DEF IsAnswer
  <1>6. CASE kind = "comparison"
    <2>1. A!Answers(kind, given) = IF external THEN A!ProcessCompare(given) ELSE A!LocalCompare(given)
      BY <1>6 DEF A!Answers
    <2> QED BY <1>5, <1>6, <2>1 DEF A!ProcessCompare, A!LocalCompare
  <1>7. CASE kind = "question_suggestions"
    <2>1. A!Answers(kind, given) =
            IF external THEN A!ProcessSuggestQuestions(given) ELSE A!LocalSuggestQuestions(given)
      BY <1>7 DEF A!Answers
    <2> QED BY <1>5, <1>7, <2>1 DEF A!ProcessSuggestQuestions, A!LocalSuggestQuestions
  <1>8. CASE kind = "brief_draft"
    <2>1. A!Answers(kind, given) = IF external THEN A!ProcessDraftBrief(given) ELSE A!LocalDraftBrief(given)
      BY <1>8 DEF A!Answers
    <2> QED BY <1>5, <1>8, <2>1 DEF A!ProcessDraftBrief, A!LocalDraftBrief
  <1>9. CASE kind = "connection_review"
    <2>1. A!Answers(kind, given) =
            IF external THEN A!ProcessReviewConnection(given) ELSE A!LocalReviewConnection(given)
      BY <1>9 DEF A!Answers
    <2> QED BY <1>5, <1>9, <2>1 DEF A!ProcessReviewConnection, A!LocalReviewConnection
  <1>10. CASE kind = "extraction"
    <2>1. A!Answers(kind, given) = IF external THEN A!ProcessExtract ELSE A!LocalExtract
      BY <1>10 DEF A!Answers
    <2>2. ASSUME a \notin A!Failures PROVE a.drafts \in Extracts
      <3>1. CASE a = A!Drafted(<<>>) BY <3>1 DEF Extracts
      <3>2. ASSUME NEW quote \in Passage, NEW good \in BOOLEAN,
                   a = A!Drafted(<<[quote |-> quote, valid |-> good]>>)
            PROVE  a.drafts \in Extracts
        <4> DEFINE d == [quote |-> quote, valid |-> good]
        <4>1. d \in [quote : Passage, valid : BOOLEAN] OBVIOUS
        <4>2. a.drafts = <<d>> BY <3>2
        <4> HIDE DEF d
        <4> QED BY <4>1, <4>2 DEF Extracts
      <3>3. CASE external
        <4>1. a \in A!ProcessExtract BY <2>1, <3>3
        <4>2. \/ a = A!Drafted(<<>>)
              \/ \E q \in Quotes, v \in BOOLEAN : a = A!Drafted(<<[quote |-> q, valid |-> v]>>)
          BY <4>1, <2>2 DEF A!ProcessExtract
        <4> QED BY <3>1, <3>2, <4>2 DEF Passage
      <3>4. CASE ~external
        <4>1. a \in A!LocalExtract BY <2>1, <3>4
        <4>2. \/ a = A!Drafted(<<>>)
              \/ \E q \in InCapture : a = A!Drafted(<<[quote |-> q, valid |-> TRUE]>>)
          BY <4>1 DEF A!LocalExtract
        <4> QED BY <3>1, <3>2, <4>2 DEF Passage
      <3> QED BY <3>3, <3>4
    <2> QED BY <1>10, <2>2 DEF IsAnswer, Extracts
  <1> QED BY <1>4, <1>6, <1>7, <1>8, <1>9, <1>10 DEF A!Kinds

\* A request that selects, is allowed, is read the capture, or is answered.
LEMMA AssistanceOfRequests ==
    ASSUME AssistInv, NEW p \in Askers,
           \/ \E kind \in A!Kinds, given \in SUBSET Selectable : A!Begin(p, kind, given)
           \/ \E retry \in 0 .. Len(operations) : A!Ask(p, retry)
           \/ A!ReadPolicy(p) /\ A!Allowed
           \/ A!ReadExtractionPolicy(p) /\ A!Allowed
           \/ A!ReadCapture(p) \/ A!Answer(p)
    PROVE  AssistInv'
  <1> USE DEF A!read, A!passages
  <1>1. AssistJob(inAssistance[p]) BY DEF AssistInv, AssistJobs
  <1>2. AssistJob(A!Idle) BY DEF AssistJob, A!Idle
  <1>3. Len(operations) \in Nat BY DEF AssistInv, OperationsAreKept
  <1>4. ASSUME NEW kind \in A!Kinds, NEW given \in SUBSET Selectable, A!Begin(p, kind, given)
        PROVE  AssistInv'
    <2> DEFINE j == [step |-> "asked", kind |-> kind, given |-> given, retry |-> 0]
    <2>1. AssistJob(j) BY <1>3 DEF AssistJob
    <2> HIDE DEF j
    <2> QED BY <1>4, <2>1, AssistanceAsks DEF A!Begin, j
  <1>5. ASSUME NEW retry \in 0 .. Len(operations), A!Ask(p, retry) PROVE AssistInv'
    <2> DEFINE j == [step |-> "asked", kind |-> "extraction", given |-> {}, retry |-> retry]
    <2>1. AssistJob(j) BY <1>3 DEF AssistJob
    <2> HIDE DEF j
    <2> QED BY <1>5, <2>1, AssistanceAsks DEF A!Ask, j
  <1>6. ASSUME inAssistance[p].step \in {"asked", "capture"}, NEW to \in {"capture", "calling"},
               inAssistance' = [inAssistance EXCEPT ![p] = [inAssistance[p] EXCEPT !.step = to]],
               UNCHANGED <<external, allow, retained, hidden, told, results, operations, proposals, reviews>>
        PROVE  AssistInv'
    <2> DEFINE was == inAssistance[p]
               j == [was EXCEPT !.step = to]
    <2>1. was = [step |-> was.step, kind |-> was.kind, given |-> was.given, retry |-> was.retry]
      BY <1>1, <1>6 DEF AssistJob
    <2>2. /\ was.kind \in A!Kinds \cup {"extraction"} /\ was.given \in SUBSET Selectable
          /\ was.retry \in 0 .. Len(operations)
      BY <1>1, <1>6 DEF AssistJob
    <2> HIDE DEF was
    <2>3. j = [step |-> to, kind |-> was.kind, given |-> was.given, retry |-> was.retry] BY <2>1
    <2>4. AssistJob(j) BY <2>2, <2>3 DEF AssistJob
    <2>5. inAssistance' = [inAssistance EXCEPT ![p] = j] BY <1>6 DEF was
    <2> HIDE DEF j
    <2> QED BY <1>6, <2>4, <2>5, AssistanceAsks
  <1>7. CASE A!ReadPolicy(p) /\ A!Allowed
    BY <1>6, <1>7 DEF A!ReadPolicy, AssistInv, AssistJobs
  <1>8. CASE A!ReadExtractionPolicy(p) /\ A!Allowed
    BY <1>6, <1>8 DEF A!ReadExtractionPolicy, AssistInv, AssistJobs
  <1>9. CASE A!ReadCapture(p)
    <2>1. CASE retained BY <1>6, <1>9, <2>1 DEF A!ReadCapture, AssistInv, AssistJobs
    <2>2. CASE ~retained BY <1>2, <1>9, <2>2, AssistanceAsks DEF A!ReadCapture
    <2> QED BY <2>1, <2>2
  <1>10. CASE A!Answer(p)
    <2> DEFINE was == inAssistance[p]
    <2>1. was.step = "calling" /\ external \in BOOLEAN
      BY <1>10 DEF A!Answer, AssistInv, AssistTypes
    <2>2. /\ was.kind \in A!Kinds \cup {"extraction"} /\ was.given \in SUBSET Selectable
          /\ was.retry \in 0 .. Len(operations)
      BY <1>1, <2>1 DEF AssistJob
    <2>3. PICK a \in A!Answers(was.kind, was.given) :
            inAssistance' = [inAssistance EXCEPT ![p] =
               [answer |-> a, step |-> "answered", kind |-> was.kind, given |-> was.given, retry |-> was.retry]]
      BY <1>10 DEF A!Answer
    <2> HIDE DEF was
    <2>4. IsAnswer(was.kind, a) BY <2>1, <2>2, <2>3, AnswersAreOfAKind
    <2> DEFINE j == [answer |-> a, step |-> "answered", kind |-> was.kind, given |-> was.given,
                     retry |-> was.retry]
    <2>5. AssistJob(j) BY <2>2, <2>4 DEF AssistJob
    <2>6. UNCHANGED <<external, allow, retained, hidden, told, results, operations, proposals, reviews>>
      BY <1>10 DEF A!Answer
    <2>7. inAssistance' = [inAssistance EXCEPT ![p] = j] BY <2>3
    <2> HIDE DEF j
    <2> QED BY <2>5, <2>6, <2>7, AssistanceAsks
  <1> QED BY <1>4, <1>5, <1>7, <1>8, <1>9, <1>10

\* The answer, and the evidence it was asked of, in one transaction.
LEMMA AnswerIsKept ==
    ASSUME AssistInv, NEW p \in Askers, NEW status \in A!ResultStatuses,
           NEW cited \in SUBSET inAssistance[p].given,
           inAssistance[p].step \in {"asked", "answered"}, inAssistance[p].kind \in A!Kinds,
           A!Persist(p, status, cited),
           UNCHANGED <<external, allow, retained, hidden, told, operations, proposals, reviews>>
    PROVE  AssistInv'
  <1> DEFINE j == inAssistance[p]
             r == [kind |-> j.kind, given |-> j.given, heard |-> j.given, cites |-> cited, status |-> status]
  <1>1. j.given \in SUBSET Selectable BY DEF AssistInv, AssistJobs, AssistJob
  <1>2. results' = Append(results, r) /\ inAssistance' = [inAssistance EXCEPT ![p] = A!Idle]
    BY DEF A!Persist
  <1>3. r \in Answered BY <1>1 DEF Answered
  <1>4. r.given = r.heard /\ r.cites \subseteq r.heard OBVIOUS
  <1> HIDE DEF r, j
  <1>5. results \in Seq(Answered) /\ A!HeardIsKept BY DEF AssistInv, ResultsAreKept
  <1>6. results' \in Seq(Answered) BY <1>2, <1>3, <1>5
  <1>7. ASSUME NEW i \in DOMAIN results'
        PROVE  results'[i].given = results'[i].heard /\ results'[i].cites \subseteq results'[i].heard
    <2>1. CASE i = Len(results) + 1 BY <2>1, <1>2, <1>4, <1>5
    <2>2. CASE i # Len(results) + 1
      <3>1. i \in DOMAIN results /\ results'[i] = results[i] BY <2>2, <1>2, <1>5
      <3> QED BY <3>1, <1>5 DEF A!HeardIsKept
    <2> QED BY <2>1, <2>2
  <1>8. ResultsAreKept' BY <1>6, <1>7 DEF ResultsAreKept, A!HeardIsKept
  <1>9. AssistTypes' /\ OperationsAreKept' /\ ProposalsAreKept'
    BY DEF AssistInv, AssistTypes, OperationsAreKept, ProposalsAreKept, A!LastReviewIsTheState
  <1>10. AssistJob(inAssistance[p])'
    <2>1. inAssistance'[p] = A!Idle BY <1>2 DEF AssistInv, AssistJobs
    <2> QED BY <2>1 DEF AssistJob, A!Idle
  <1>11. Len(operations) <= Len(operations') /\ DOMAIN proposals \subseteq DOMAIN proposals'
    BY DEF AssistInv, OperationsAreKept
  <1> QED BY <1>2, <1>8, <1>9, <1>10, <1>11, AssistanceMoves

\* A request the policy refuses, and one that is answered.
LEMMA AssistanceOfAnswers ==
    ASSUME AssistInv, NEW p \in Askers, (A!ReadPolicy(p) /\ ~A!Allowed) \/ A!Keep(p)
    PROVE  AssistInv'
  <1> USE DEF A!read, A!passages
  <1> DEFINE j == inAssistance[p]
  <1>1. AssistJob(j) BY DEF AssistInv, AssistJobs
  <1>2. CASE A!ReadPolicy(p) /\ ~A!Allowed
    <2>1. j.step = "asked" /\ j.kind \in A!Kinds /\ A!Persist(p, "unsupported", {})
      BY <1>2 DEF A!ReadPolicy
    <2>2. UNCHANGED <<external, allow, retained, hidden, told, operations, proposals, reviews>>
      BY <1>2 DEF A!ReadPolicy
    <2>3. "unsupported" \in A!ResultStatuses BY DEF A!ResultStatuses
    <2> QED BY <2>1, <2>2, <2>3, AnswerIsKept
  <1>3. CASE A!Keep(p)
    <2>1. j.step = "answered" /\ j.kind \in A!Kinds BY <1>3 DEF A!Keep
    <2>2. UNCHANGED <<external, allow, retained, hidden, told, operations, proposals, reviews>>
      BY <1>3 DEF A!Keep
    <2>3. CASE A!Valid(j.kind, j.answer, j.given) /\ A!Persist(p, j.answer.status, j.answer.cites)
      <3>1. j.kind # "extraction" BY <2>1 DEF A!Kinds
      <3>2. /\ j.answer.status \in A!ResultStatuses \cup {"claimed"}
            /\ j.kind = "synthesis" => j.answer.status # "claimed"
        BY <1>1, <2>1, <3>1 DEF AssistJob, IsAnswer
      <3>3. j.answer.status \in A!ResultStatuses /\ j.answer.cites \in SUBSET j.given
        BY <2>3, <3>2 DEF A!Valid, A!NewSynthesisResult, A!NewComparisonResult, A!NewConnectionReviewResult,
           A!NewQuestionSuggestionsResult, A!NewBriefDraftResult
      <3> QED BY <2>1, <2>2, <2>3, <3>3, AnswerIsKept
    <2>4. CASE inAssistance' = [inAssistance EXCEPT ![p] = A!Idle] /\ UNCHANGED results
      <3>1. AssistJob(A!Idle) BY DEF AssistJob, A!Idle
      <3> QED BY <2>2, <2>4, <3>1, AssistanceAsks
    <2> QED BY <1>3, <2>3, <2>4 DEF A!Keep
  <1> QED BY <1>2, <1>3

\* The proposals of an operation have been reviewed by nobody.
LEMMA ProposalsAreAdded ==
    ASSUME AssistInv, NEW more \in Seq(Proposed), \A i \in DOMAIN more : more[i].state = "proposed",
           proposals' = proposals \o more, reviews' = reviews
    PROVE  ProposalsAreKept' /\ DOMAIN proposals \subseteq DOMAIN proposals'
  <1>1. /\ proposals \in Seq(Proposed) /\ reviews \in Seq(Judged)
        /\ \A k \in DOMAIN reviews : reviews[k].proposal \in DOMAIN proposals
        /\ A!LastReviewIsTheState
    BY DEF AssistInv, ProposalsAreKept
  <1>2. proposals' \in Seq(Proposed) /\ Len(proposals') = Len(proposals) + Len(more)
    BY <1>1
  <1>3. /\ DOMAIN proposals \subseteq DOMAIN proposals'
        /\ \A i \in DOMAIN proposals : proposals'[i] = proposals[i]
    BY <1>1, <1>2
  <1>4. ASSUME NEW i \in DOMAIN proposals', i \notin DOMAIN proposals
        PROVE  proposals'[i].state = "proposed"
    <2>1. i - Len(proposals) \in DOMAIN more /\ proposals'[i] = more[i - Len(proposals)]
      BY <1>1, <1>2, <1>4
    <2> QED BY <2>1
  <1> DEFINE ReviewsAgree(i) ==
               LET its == {k \in DOMAIN reviews : reviews[k].proposal = i} IN
               /\ its = {} <=> proposals'[i].state = "proposed"
               /\ \A k \in its : (\A m \in its : m <= k) =>
                     (reviews[k].decision = "accept" <=> proposals'[i].state = "accepted")
               /\ proposals'[i].state = "accepted" => proposals'[i].says \in InCapture
  <1>5. ASSUME NEW i \in DOMAIN proposals' PROVE ReviewsAgree(i)
    <2>1. CASE i \in DOMAIN proposals BY <2>1, <1>1, <1>3 DEF A!LastReviewIsTheState
    <2>2. CASE i \notin DOMAIN proposals
      <3>1. {k \in DOMAIN reviews : reviews[k].proposal = i} = {} BY <2>2, <1>1
      <3>2. proposals'[i].state = "proposed" BY <2>2, <1>4
      <3> QED BY <3>1, <3>2
    <2> QED BY <2>1, <2>2
  <1>6. A!LastReviewIsTheState' BY <1>5 DEF A!LastReviewIsTheState
  <1> QED BY <1>1, <1>2, <1>3, <1>6 DEF ProposalsAreKept

\* The operation, with its proposals.
LEMMA OperationIsKept ==
    ASSUME AssistInv, NEW p \in Askers, NEW status \in A!OperationStatuses,
           inAssistance[p].step \in {"asked", "capture", "answered"}, A!CreateOperation(p, status),
           UNCHANGED <<external, allow, retained, hidden, told, results>>,
           ProposalsAreKept', DOMAIN proposals \subseteq DOMAIN proposals'
    PROVE  AssistInv'
  <1> DEFINE o == [status |-> status, retry |-> inAssistance[p].retry]
  <1>1. inAssistance[p].retry \in 0 .. Len(operations) BY DEF AssistInv, AssistJobs, AssistJob
  <1>2. operations' = Append(operations, o) /\ inAssistance' = [inAssistance EXCEPT ![p] = A!Idle]
    BY DEF A!CreateOperation
  <1>3. operations \in Seq(Operations) /\ \A i \in DOMAIN operations : operations[i].retry \in 0 .. i - 1
    BY DEF AssistInv, OperationsAreKept
  <1>4. o \in Operations /\ o.retry \in 0 .. Len(operations) BY <1>1, <1>3 DEF Operations
  <1> HIDE DEF o
  <1>5. operations' \in Seq(Operations) /\ Len(operations) <= Len(operations')
    BY <1>2, <1>3, <1>4
  <1>6. ASSUME NEW i \in DOMAIN operations' PROVE operations'[i].retry \in 0 .. i - 1
    <2>1. CASE i = Len(operations) + 1 BY <2>1, <1>2, <1>3, <1>4
    <2>2. CASE i # Len(operations) + 1
      <3>1. i \in DOMAIN operations /\ operations'[i] = operations[i] BY <2>2, <1>2, <1>3
      <3> QED BY <3>1, <1>3
    <2> QED BY <2>1, <2>2
  <1>7. OperationsAreKept' BY <1>5, <1>6 DEF OperationsAreKept
  <1>8. AssistTypes' /\ ResultsAreKept'
    BY DEF AssistInv, AssistTypes, ResultsAreKept, A!HeardIsKept
  <1>9. AssistJob(inAssistance[p])'
    <2>1. inAssistance'[p] = A!Idle BY <1>2 DEF AssistInv, AssistJobs
    <2> QED BY <2>1 DEF AssistJob, A!Idle
  <1> QED BY <1>2, <1>5, <1>7, <1>8, <1>9, AssistanceMoves

LEMMA SequenceOfOne == ASSUME NEW S, NEW v \in S PROVE [n \in 1 .. 1 |-> v] \in Seq(S)
  OBVIOUS

\* What is proposed of the passages somebody extracted.
Drafted(given, o) == [n \in 1 .. A!Cardinality(A!Usable(given)) |->
                        A!NewProposal(o, given[A!nth(A!Usable(given), n)])]

LEMMA DraftsAreProposed ==
    ASSUME NEW given \in Extracts, NEW o \in Nat
    PROVE  /\ Drafted(given, o) \in Seq(Proposed)
           /\ \A i \in DOMAIN Drafted(given, o) : Drafted(given, o)[i].state = "proposed"
  <1> DEFINE places == A!Usable(given)
             more == Drafted(given, o)
  <1>3. places = A!Usable(given) OBVIOUS
  <1>4. more = [n \in 1 .. A!Cardinality(places) |-> A!NewProposal(o, given[A!nth(places, n)])]
    BY DEF Drafted
  <1> SUFFICES more \in Seq(Proposed) /\ \A i \in DOMAIN more : more[i].state = "proposed"
    OBVIOUS
  <1> HIDE DEF places, more
  <1>1. CASE places = {}
    <2>1. A!Cardinality(places) = 0 BY <1>1, FS_EmptySet DEF A!Cardinality, Cardinality
    <2>2. more = <<>> BY <1>4, <2>1
    <2>3. <<>> \in Seq(Proposed) /\ DOMAIN <<>> = {} OBVIOUS
    <2>4. more \in Seq(Proposed) /\ DOMAIN more = {} BY <2>2, <2>3, Zenon
    <2> QED BY <2>4, Zenon
  <1>2. CASE places # {}
    <2>1. PICK d \in [quote : Passage, valid : BOOLEAN] : given = <<d>>
      BY <1>2, <1>3 DEF Extracts, A!Usable
    <2>2. places = {1} BY <1>2, <1>3, <2>1 DEF A!Usable
    <2>3. A!Cardinality({1}) = 1 BY FS_Singleton DEF A!Cardinality, Cardinality
    <2>4. A!nth({1}, 1) = 1
      <3>1. {k \in {1} : k <= 1} = {1} OBVIOUS
      <3>2. \E i \in {1} : A!Cardinality({k \in {1} : k <= i}) = 1 BY <2>3, <3>1
      <3> QED BY <3>2 DEF A!nth
    <2>5. A!NewProposal(o, d) \in Proposed /\ A!NewProposal(o, d).state = "proposed"
      BY DEF A!NewProposal, Proposed
    <2>6. more = [n \in 1 .. 1 |-> A!NewProposal(o, given[A!nth({1}, n)])] BY <1>4, <2>2, <2>3
    <2>7. \A n \in 1 .. 1 : A!NewProposal(o, given[A!nth({1}, n)]) = A!NewProposal(o, d)
      BY <2>1, <2>4
    <2>8. DOMAIN more = 1 .. 1 /\ \A n \in 1 .. 1 : more[n] = A!NewProposal(o, d) BY <2>6, <2>7
    <2>9. more = [n \in 1 .. 1 |-> more[n]] BY <2>6
    <2> DEFINE v == A!NewProposal(o, d)
    <2>10. v \in Proposed /\ more = [n \in 1 .. 1 |-> v] BY <2>5, <2>8, <2>9, Zenon
    <2> HIDE DEF v
    <2>11. [n \in 1 .. 1 |-> v] \in Seq(Proposed) BY <2>10, SequenceOfOne, Zenon
    <2>12. more \in Seq(Proposed) BY <2>10, <2>11, Zenon
    <2>13. \A i \in DOMAIN more : more[i].state = "proposed" BY <2>5, <2>8, Zenon
    <2> QED BY <2>12, <2>13
  <1> QED BY <1>1, <1>2

\* An extraction the policy refuses, one of what is no text, and one that is answered.
LEMMA AssistanceOfExtracts ==
    ASSUME AssistInv, NEW p \in Askers,
           (A!ReadExtractionPolicy(p) /\ ~A!Allowed) \/ A!RefuseCapture(p) \/ A!KeepOperation(p)
    PROVE  AssistInv'
  <1> USE DEF A!read, A!passages
  <1> DEFINE j == inAssistance[p]
  <1>1. AssistJob(j) BY DEF AssistInv, AssistJobs
  <1>2. ASSUME NEW status \in A!OperationStatuses, j.step \in {"asked", "capture", "answered"},
               A!PersistTerminal(p, status),
               UNCHANGED <<external, allow, retained, hidden, told, results>>
        PROVE  AssistInv'
    <2>1. ProposalsAreKept' /\ DOMAIN proposals \subseteq DOMAIN proposals'
      BY <1>2 DEF A!PersistTerminal, AssistInv, ProposalsAreKept, A!LastReviewIsTheState
    <2>2. A!CreateOperation(p, status) BY <1>2 DEF A!PersistTerminal
    <2> QED BY <1>2, <2>1, <2>2, OperationIsKept
  <1>3. CASE A!ReadExtractionPolicy(p) /\ ~A!Allowed
    <2>1. "unsupported" \in A!OperationStatuses BY DEF A!OperationStatuses
    <2> QED BY <1>2, <1>3, <2>1 DEF A!ReadExtractionPolicy
  <1>4. CASE A!KeepOperation(p)
    <2> DEFINE a == j.answer
    <2>1. /\ j.step = "answered" /\ j.kind = "extraction"
          /\ UNCHANGED <<external, allow, retained, hidden, told, results>>
      BY <1>4 DEF A!KeepOperation
    <2>2. CASE A!PersistTerminal(p, IF a.status = "unsupported" THEN "unsupported" ELSE "failed")
      <3>1. (IF a.status = "unsupported" THEN "unsupported" ELSE "failed") \in A!OperationStatuses
        BY DEF A!OperationStatuses
      <3> QED BY <1>2, <2>1, <2>2, <3>1
    <2>3. CASE /\ a \notin A!Failures
               /\ A!CreateOperation(p, A!OperationStatus(a.drafts))
               /\ A!CreateProposals(a.drafts)
               /\ UNCHANGED reviews
      <3> DEFINE ds == a.drafts
      <3>1. ds \in Extracts BY <1>1, <2>1, <2>3 DEF AssistJob, IsAnswer
      <3>2. A!OperationStatus(a.drafts) \in A!OperationStatuses
        BY DEF A!OperationStatus, A!OperationStatuses
      <3>3. Len(operations) + 1 \in Nat BY DEF AssistInv, OperationsAreKept
      <3>4. A!CreateProposals(ds) BY <2>3
      <3> HIDE DEF ds
      <3> DEFINE more == Drafted(ds, Len(operations) + 1)
      <3>6. proposals' = proposals \o more BY <3>4 DEF A!CreateProposals, Drafted
      <3>8. more \in Seq(Proposed) /\ \A i \in DOMAIN more : more[i].state = "proposed"
        BY <3>1, <3>3, DraftsAreProposed
      <3> HIDE DEF more
      <3>9. ProposalsAreKept' /\ DOMAIN proposals \subseteq DOMAIN proposals'
        BY <2>3, <3>6, <3>8, ProposalsAreAdded
      <3> QED BY <2>1, <2>3, <3>2, <3>9, OperationIsKept
    <2> QED BY <1>4, <2>2, <2>3 DEF A!KeepOperation
  <1>5. CASE A!RefuseCapture(p)
    <2>1. "unsupported" \in A!OperationStatuses BY DEF A!OperationStatuses
    <2> QED BY <1>2, <1>5, <2>1 DEF A!RefuseCapture
  <1> QED BY <1>3, <1>4, <1>5

\* The reviews of a proposal, which is the passage somebody proposed still
\* and says one of the capture when it is accepted, in the order they are
\* written: the last of them is the one the row has.
LEMMA AssistanceOfReviews ==
    ASSUME AssistInv, NEW p \in Askers,
           \/ A!reviewAssistanceProposal(p)
           \/ \E i \in DOMAIN proposals, d \in {"accept", "reject"}, q \in Quotes : A!AskReview(p, i, d, q)
    PROVE  AssistInv'
  <1> USE DEF A!read, A!passages
  <1> DEFINE j == inAssistance[p]
  <1>1. AssistJob(j) BY DEF AssistInv, AssistJobs
  <1>2. /\ proposals \in Seq(Proposed) /\ reviews \in Seq(Judged)
        /\ \A k \in DOMAIN reviews : reviews[k].proposal \in DOMAIN proposals
        /\ A!LastReviewIsTheState
    BY DEF AssistInv, ProposalsAreKept
  <1>3. ASSUME NEW i \in DOMAIN proposals, NEW d \in {"accept", "reject"}, NEW q \in Quotes,
               A!AskReview(p, i, d, q)
        PROVE  AssistInv'
    <2> DEFINE old == proposals[i]
               then == A!Reviewed(old, d, q)
               asks == [step |-> "review", proposal |-> i, decision |-> d, row |-> then]
    <2>1. old \in Proposed BY <1>2
    <2>2. d = "accept" => q \in InCapture BY <1>3 DEF A!AskReview, A!ExactCitation
    <2> HIDE DEF old
    <2>3. /\ then \in Proposed
          /\ then.state = IF d = "accept" THEN "accepted" ELSE "rejected"
          /\ d = "accept" => then.says = q
      <3>1. CASE d = "reject"
        <4>1. then = [old EXCEPT !.state = "rejected"] BY <3>1 DEF A!Reviewed
        <4> QED BY <2>1, <3>1, <4>1 DEF Proposed
      <3>2. CASE d = "accept"
        <4> DEFINE old1 == [old EXCEPT !.state = "accepted"]
        <4>1. old1 \in Proposed /\ old1.state = "accepted" BY <2>1 DEF Proposed
        <4>2. then = [old1 EXCEPT !.says = q] BY <3>2 DEF A!Reviewed
        <4>3. q \in Passage BY DEF Passage
        <4> HIDE DEF old1, then
        <4> QED BY <3>2, <4>1, <4>2, <4>3 DEF Proposed
      <3> QED BY <3>1, <3>2
    <2> HIDE DEF then
    <2>4. AssistJob(asks) BY <2>2, <2>3 DEF AssistJob
    <2>5. /\ inAssistance' = [inAssistance EXCEPT ![p] = asks]
          /\ UNCHANGED <<external, allow, retained, hidden, told, results, operations, proposals, reviews>>
      BY <1>3 DEF A!AskReview, then, old
    <2> HIDE DEF asks
    <2> QED BY <2>4, <2>5, AssistanceAsks
  <1>4. CASE A!reviewAssistanceProposal(p)
    <2> DEFINE t == j.proposal
               v == [proposal |-> t, decision |-> j.decision]
               n == Len(reviews) + 1
    <2>1. /\ proposals' = [proposals EXCEPT ![t] = j.row]
          /\ reviews' = Append(reviews, v)
          /\ inAssistance' = [inAssistance EXCEPT ![p] = A!Idle]
          /\ UNCHANGED <<external, allow, retained, hidden, told, results, operations>>
      BY <1>4 DEF A!reviewAssistanceProposal, A!SaveProposal, A!CreateReview
    <2>2. /\ t \in DOMAIN proposals /\ j.decision \in {"accept", "reject"} /\ j.row \in Proposed
          /\ j.row.state = IF j.decision = "accept" THEN "accepted" ELSE "rejected"
          /\ j.row.state = "accepted" => j.row.says \in InCapture
      BY <1>1, <1>4 DEF A!reviewAssistanceProposal, AssistJob
    <2>3. t \in Nat /\ v \in Judged /\ v.proposal = t /\ v.decision = j.decision BY <1>2, <2>2 DEF Judged
    <2> DEFINE r == j.row
               c == j.decision
    <2> HIDE DEF v, t, r, c
    <2>4. /\ proposals' \in Seq(Proposed) /\ DOMAIN proposals' = DOMAIN proposals
          /\ proposals'[t] = r /\ \A i \in DOMAIN proposals : i # t => proposals'[i] = proposals[i]
      BY <1>2, <2>1, <2>2 DEF r
    <2>5. /\ reviews' \in Seq(Judged) /\ DOMAIN reviews' = DOMAIN reviews \cup {n}
          /\ reviews'[n] = v /\ \A k \in DOMAIN reviews : reviews'[k] = reviews[k]
          /\ \A k \in DOMAIN reviews : k \in Nat /\ k < n
          /\ n \in Nat
      BY <1>2, <2>1, <2>3
    <2>6. \A k \in DOMAIN reviews' : reviews'[k].proposal \in DOMAIN proposals'
      BY <1>2, <2>2, <2>3, <2>4, <2>5
    <2> DEFINE Its(i) == {k \in DOMAIN reviews' : reviews'[k].proposal = i}
    <2>7. ASSUME NEW i \in DOMAIN proposals'
          PROVE  /\ Its(i) = {} <=> proposals'[i].state = "proposed"
                 /\ \A k \in Its(i) : (\A m \in Its(i) : m <= k) =>
                       (reviews'[k].decision = "accept" <=> proposals'[i].state = "accepted")
                 /\ proposals'[i].state = "accepted" => proposals'[i].says \in InCapture
      <3>1. CASE i = t
        <4>1. n \in Its(i) BY <3>1, <2>3, <2>5
        <4>2. r.state = IF v.decision = "accept" THEN "accepted" ELSE "rejected"
          BY <2>2, <2>3 DEF r
        <4>3. proposals'[i] = r BY <3>1, <2>4
        <4>4. r.state # "proposed" BY <4>2
        <4>5. ASSUME NEW k \in Its(i), \A m \in Its(i) : m <= k PROVE k = n
          <5>1. k \in DOMAIN reviews \cup {n} /\ n <= k BY <4>1, <4>5, <2>5
          <5> QED BY <5>1, <2>5
        <4>6. r.state = "accepted" => r.says \in InCapture BY <2>2 DEF r
        <4>7. v.decision = "accept" <=> r.state = "accepted" BY <4>2
        <4> QED BY <4>1, <4>3, <4>4, <4>5, <4>6, <4>7, <2>5
      <3>2. CASE i # t
        <4> DEFINE were == {k \in DOMAIN reviews : reviews[k].proposal = i}
        <4>1. Its(i) = were BY <3>2, <2>3, <2>5
        <4>2. /\ were = {} <=> proposals[i].state = "proposed"
              /\ \A k \in were : (\A m \in were : m <= k) =>
                    (reviews[k].decision = "accept" <=> proposals[i].state = "accepted")
              /\ proposals[i].state = "accepted" => proposals[i].says \in InCapture
          BY <1>2, <2>4 DEF A!LastReviewIsTheState
        <4>3. proposals'[i] = proposals[i] BY <3>2, <2>4
        <4>4. \A k \in were : reviews'[k] = reviews[k] BY <2>5
        <4> HIDE DEF Its, were
        <4> QED BY <4>1, <4>2, <4>3, <4>4
      <3> QED BY <3>1, <3>2
    <2>8. A!LastReviewIsTheState' BY <2>7 DEF A!LastReviewIsTheState
    <2>9. ProposalsAreKept' BY <2>4, <2>5, <2>6, <2>8 DEF ProposalsAreKept
    <2>10. AssistTypes' /\ ResultsAreKept' /\ OperationsAreKept'
      BY <2>1 DEF AssistInv, AssistTypes, ResultsAreKept, A!HeardIsKept, OperationsAreKept
    <2>11. AssistJob(inAssistance[p])'
      <3>1. inAssistance'[p] = A!Idle BY <2>1 DEF AssistInv, AssistJobs
      <3> QED BY <3>1 DEF AssistJob, A!Idle
    <2>12. Len(operations) <= Len(operations') BY <2>1 DEF AssistInv, OperationsAreKept
    <2> QED BY <2>1, <2>4, <2>9, <2>10, <2>11, <2>12, AssistanceMoves
  <1> QED BY <1>3, <1>4

LEMMA AssistanceLast ==
    ASSUME AssistInv, [AuthoringNext]_all PROVE AssistInv'
  <1> USE DEF A!read, A!passages
  <1>1. A!Next \/ UNCHANGED proposing BY DEF AuthoringNext, all
  <1>2. CASE UNCHANGED proposing
    <2>1. AssistTypes' BY <1>2 DEF proposing, AssistInv, AssistTypes
    <2> QED BY <1>2, <2>1, AssistanceRests DEF proposing
  <1>3. ASSUME NEW p \in Askers, A!Requested(p) PROVE AssistInv'
    <2>1. ASSUME NEW given \in SUBSET Selectable, NEW kind \in A!Kinds, A!Begin(p, kind, given)
          PROVE  AssistInv'
      BY <2>1, AssistanceOfRequests
    <2>2. CASE \E given \in SUBSET Selectable :
                  \/ A!createEvidenceSynthesis(p, given) \/ A!createEvidenceComparison(p, given)
                  \/ A!createEvidenceQuestionSuggestions(p, given) \/ A!createBriefDraft(p, given)
      BY <2>1, <2>2 DEF A!createEvidenceSynthesis, A!createEvidenceComparison,
         A!createEvidenceQuestionSuggestions, A!createBriefDraft, A!Kinds
    <2>3. CASE A!createResearchConnectionReview(p)
      <3>1. told \in SUBSET Selectable BY DEF AssistInv, AssistTypes
      <3> QED BY <2>1, <2>3, <3>1 DEF A!createResearchConnectionReview, A!Kinds
    <2>4. CASE A!ReadPolicy(p) BY <2>4, AssistanceOfRequests, AssistanceOfAnswers
    <2>5. CASE A!Answer(p) BY <2>5, AssistanceOfRequests
    <2>6. CASE A!Keep(p) BY <2>6, AssistanceOfAnswers
    <2> QED BY <1>3, <2>2, <2>3, <2>4, <2>5, <2>6 DEF A!Requested
  <1>4. ASSUME NEW p \in Askers, A!Extracted(p) PROVE AssistInv'
    <2>1. Len(operations) \in Nat /\ DOMAIN operations = 1 .. Len(operations)
      BY DEF AssistInv, OperationsAreKept
    <2>2. ASSUME NEW retry \in 0 .. Len(operations), A!Ask(p, retry) PROVE AssistInv'
      BY <2>2, AssistanceOfRequests
    <2>3. CASE A!generateAssistance(p) BY <2>1, <2>2, <2>3 DEF A!generateAssistance
    <2>4. CASE \E o \in DOMAIN operations : A!Retry(p, o) BY <2>1, <2>2, <2>4 DEF A!Retry
    <2>5. CASE A!ReadExtractionPolicy(p) BY <2>5, AssistanceOfRequests, AssistanceOfExtracts
    <2>6. CASE A!ReadCapture(p) \/ A!RefuseCapture(p)
      BY <2>6, AssistanceOfRequests, AssistanceOfExtracts
    <2>7. CASE A!KeepOperation(p) BY <2>7, AssistanceOfExtracts
    <2>8. CASE \/ A!reviewAssistanceProposal(p)
               \/ \E i \in DOMAIN proposals, d \in {"accept", "reject"}, q \in Quotes : A!AskReview(p, i, d, q)
      BY <2>8, AssistanceOfReviews
    <2> QED BY <1>4, <2>3, <2>4, <2>5, <2>6, <2>7, <2>8 DEF A!Extracted
  <1>5. CASE \/ \E p \in Askers, to \in BOOLEAN : A!updateAssistancePolicy(p, to)
             \/ \E o \in Selectable : A!setSourcePrivacy(o)
             \/ \E to \in SUBSET Selectable : A!editResearchConnection(to)
             \/ A!purgeSource
    <2>1. UNCHANGED <<results, operations, proposals, reviews, inAssistance>>
      BY <1>5 DEF A!updateAssistancePolicy, A!setSourcePrivacy, A!editResearchConnection, A!purgeSource
    <2>2. AssistTypes'
      BY <1>5 DEF A!updateAssistancePolicy, A!setSourcePrivacy, A!editResearchConnection, A!purgeSource,
         AssistInv, AssistTypes
    <2> QED BY <2>1, <2>2, AssistanceRests
  <1> QED BY <1>1, <1>2, <1>3, <1>4, <1>5 DEF A!Next

\* An answer keeps the evidence the provider heard and cites nothing else, so
\* that what is shown to somebody without the restricted sources cites none of
\* them, whatever the provider answers and however long it takes; and however
\* many review one proposal, the row says what the last of them decided, with
\* a passage of the capture where it was accepted.
THEOREM AssistanceHolds == AuthoringSpec => []AnswersAreGrounded
  <1>1. AssistInv => AnswersAreGrounded
    BY AssistTypeOK DEF AssistInv, ResultsAreKept, ProposalsAreKept, AnswersAreGrounded
  <1> QED BY <1>1, AssistanceBegins, AssistanceLast, PTL DEF AuthoringSpec

-----------------------------------------------------------------------------
(* The records and their identity.                                         *)
(*                                                                         *)
(* However old the reading a resolution was decided on, the index has the  *)
(* last word: what it lets in shares no record with what stands already.   *)

\* Two resolutions of one kind that would stand over the same record.
Collides(c, d) ==
    /\ c.set = d.set /\ c.state \in I!Active /\ d.state \in I!Active
    /\ IF c.set THEN (c.aliases \cup {c.canonical}) \cap (d.aliases \cup {d.canonical}) # {}
                ELSE c.aliases \cap d.aliases # {}

ResearchJob(j) ==
    /\ j = I!Idle \/ j.step \in {"edit", "move", "propose", "judge", "merge", "reject"}
    /\ j.step \in {"edit", "move", "merge"} => j.rec \in Subjects /\ j.next \in I!Record
    /\ j.step \in {"judge", "merge", "reject"} => j.id \in DOMAIN claim
    /\ j.step = "judge" => j.held \in I!Claim
    /\ j.step \in {"propose", "merge", "reject"} => j.new \in I!Claim
    /\ j.step = "reject" => j.new.state = "rejected"
ResearchJobs ==
    /\ inResearch = [p \in Editors |-> inResearch[p]]
    /\ \A p \in Editors : ResearchJob(inResearch[p])

RowsAreTyped ==
    /\ record \in [Subjects -> I!Record] /\ revised \in [Subjects -> I!Record]
    /\ asked \in 0 .. MaxAsked
ClaimsAreApart ==
    /\ claim \in Seq(I!Claim) /\ Len(claim) <= MaxClaims
    /\ \A i, k \in DOMAIN claim : Collides(claim[i], claim[k]) => i = k
ResearchInv == RowsAreTyped /\ ClaimsAreApart /\ ResearchJobs


LEMMA ResearchTypeOK == ASSUME ResearchInv PROVE I!TypeOK /\ I!OneStandingClaim
  <1> USE DEF ResearchInv, RowsAreTyped, ClaimsAreApart
  <1>1. I!TypeOK BY DEF I!TypeOK, ResearchJobs, ResearchJob
  <1>2. ASSUME NEW S, \A i, k \in S : i = k PROVE I!Cardinality(S) <= 1
    <2>1. CASE S = {} BY <2>1, FS_EmptySet DEF I!Cardinality, Cardinality
    <2>2. CASE S # {}
      <3>1. PICK i \in S : TRUE BY <2>2
      <3>2. S = {i} BY <1>2, <3>1
      <3>3. I!Cardinality({i}) = 1 BY FS_Singleton DEF I!Cardinality, Cardinality
      <3> QED BY <3>2, <3>3
    <2> QED BY <2>1, <2>2
  <1>0. \A i \in DOMAIN claim : claim[i].set \in BOOLEAN
    <2>1. \A i \in DOMAIN claim : claim[i] \in I!Claim OBVIOUS
    <2> QED BY <2>1 DEF I!Claim
  <1>3. ASSUME NEW r \in Subjects
        PROVE  /\ \A i, k \in I!ActiveByAlias(r) : i = k
               /\ \A i, k \in I!ActiveSetByRecord(r) : i = k
    <2>1. ASSUME NEW i \in I!ActiveByAlias(r), NEW k \in I!ActiveByAlias(r) PROVE i = k
      <3>0. /\ i \in DOMAIN claim /\ k \in DOMAIN claim
            /\ claim[i].set \in BOOLEAN /\ claim[k].set \in BOOLEAN
        BY <1>0 DEF I!ActiveByAlias
      <3>1. i \in DOMAIN claim /\ k \in DOMAIN claim /\ Collides(claim[i], claim[k])
        BY <3>0 DEF I!ActiveByAlias, Collides
      <3> QED BY <3>1
    <2>2. ASSUME NEW i \in I!ActiveSetByRecord(r), NEW k \in I!ActiveSetByRecord(r) PROVE i = k
      <3>0. /\ i \in DOMAIN claim /\ k \in DOMAIN claim
            /\ claim[i].set \in BOOLEAN /\ claim[k].set \in BOOLEAN
        BY <1>0 DEF I!ActiveSetByRecord
      <3>1. i \in DOMAIN claim /\ k \in DOMAIN claim /\ Collides(claim[i], claim[k])
        BY <3>0 DEF I!ActiveSetByRecord, Collides
      <3> QED BY <3>1
    <2> QED BY <2>1, <2>2
  <1>4. I!OneStandingClaim BY <1>2, <1>3 DEF I!OneStandingClaim
  <1> QED BY <1>1, <1>4

LEMMA ResearchBegins == ASSUME AuthoringInit PROVE ResearchInv
  <1>1. I!Init BY DEF AuthoringInit
  <1>2. RowsAreTyped
    BY <1>1, ResearchAssumption DEF I!Init, RowsAreTyped, I!Record
  <1>3. ClaimsAreApart BY <1>1, ResearchAssumption DEF I!Init, ClaimsAreApart
  <1>4. ResearchJobs BY <1>1 DEF I!Init, ResearchJobs, ResearchJob, I!Idle
  <1> QED BY <1>2, <1>3, <1>4 DEF ResearchInv

\* A step of p, after which the resolutions others have read are there still.
LEMMA ResearchMoves ==
    ASSUME ResearchInv, RowsAreTyped', ClaimsAreApart', DOMAIN claim \subseteq DOMAIN claim',
           NEW p \in Editors, NEW j, inResearch' = [inResearch EXCEPT ![p] = j], ResearchJob(j)
    PROVE  ResearchInv'
  <1>1. /\ inResearch' = [q \in Editors |-> inResearch'[q]] /\ inResearch'[p] = j
        /\ \A q \in Editors : q # p => inResearch'[q] = inResearch[q]
    BY DEF ResearchInv, ResearchJobs
  <1>2. ASSUME NEW q \in Editors PROVE ResearchJob(inResearch[q])'
    <2>1. CASE q = p BY <2>1, <1>1 DEF ResearchJob
    <2>2. CASE q # p
      <3>1. inResearch'[q] = inResearch[q] /\ ResearchJob(inResearch[q])
        BY <2>2, <1>1 DEF ResearchInv, ResearchJobs
      <3> QED BY <3>1 DEF ResearchJob
    <2> QED BY <2>1, <2>2
  <1> QED BY <1>1, <1>2 DEF ResearchInv, ResearchJobs

\* A step that changes p's job, and what was asked for.
LEMMA ResearchAsks ==
    ASSUME ResearchInv, asked' \in 0 .. MaxAsked, UNCHANGED <<record, revised, claim>>,
           NEW p \in Editors, NEW j, inResearch' = [inResearch EXCEPT ![p] = j], ResearchJob(j)
    PROVE  ResearchInv'
  <1>1. RowsAreTyped' /\ ClaimsAreApart' /\ DOMAIN claim \subseteq DOMAIN claim'
    BY DEF ResearchInv, RowsAreTyped, ClaimsAreApart
  <1> QED BY <1>1, ResearchMoves

LEMMA IdleIsAJob == ResearchJob(I!Idle)
  BY DEF ResearchJob, I!Idle

LEMMA ResearchRefuses ==
    ASSUME ResearchInv, NEW p \in Editors, I!Refuse(p) PROVE ResearchInv'
  <1>1. asked' \in 0 .. MaxAsked /\ UNCHANGED <<record, revised, claim>>
    BY DEF I!Refuse, ResearchInv, RowsAreTyped
  <1> QED BY <1>1, IdleIsAJob, ResearchAsks DEF I!Refuse, I!End

\* What an index lets in collides with nothing that is there.
LEMMA UniqueIsApart ==
    ASSUME ResearchInv, NEW i, NEW c \in I!Claim, I!Unique(i, c), NEW k \in DOMAIN claim, k # i
    PROVE  ~Collides(c, claim[k]) /\ ~Collides(claim[k], c)
  <1>1. SUFFICES ASSUME c.state \in I!Active, claim[k].state \in I!Active, claim[k].set = c.set
                 PROVE  IF c.set THEN (c.aliases \cup {c.canonical})
                                         \cap (claim[k].aliases \cup {claim[k].canonical}) = {}
                                 ELSE c.aliases \cap claim[k].aliases = {}
    BY DEF Collides
  <1>2. I!MayBeActive(i, c) BY <1>1 DEF I!Unique
  <1>3. claim[k] \in I!Claim BY DEF ResearchInv, ClaimsAreApart
  <1>4. CASE c.set
    <2>1. \A r \in c.aliases \cup {c.canonical} : k \notin I!ActiveSetByRecord(r)
      BY <1>2, <1>4 DEF I!MayBeActive
    <2> QED BY <2>1, <1>1, <1>4 DEF I!ActiveSetByRecord
  <1>5. CASE ~c.set
    <2>1. \A r \in c.aliases : k \notin I!ActiveByAlias(r)
      BY <1>2, <1>5 DEF I!MayBeActive
    <2> QED BY <2>1, <1>1, <1>5 DEF I!ActiveByAlias
  <1> QED BY <1>3, <1>4, <1>5 DEF I!Claim

LEMMA ClaimIsSaved ==
    ASSUME ResearchInv, NEW i \in DOMAIN claim, NEW c \in I!Claim, I!Unique(i, c), I!SaveClaim(i, c)
    PROVE  ClaimsAreApart' /\ DOMAIN claim \subseteq DOMAIN claim'
  <1>1. claim \in Seq(I!Claim) /\ Len(claim) <= MaxClaims BY DEF ResearchInv, ClaimsAreApart
  <1>2. /\ claim' \in Seq(I!Claim) /\ Len(claim') = Len(claim) /\ DOMAIN claim' = DOMAIN claim
        /\ claim'[i] = c /\ \A k \in DOMAIN claim : k # i => claim'[k] = claim[k]
    BY <1>1 DEF I!SaveClaim
  <1>3. ASSUME NEW m \in DOMAIN claim', NEW k \in DOMAIN claim', Collides(claim'[m], claim'[k]) PROVE m = k
    <2>1. CASE m = i /\ k # i BY <2>1, <1>2, <1>3, UniqueIsApart
    <2>2. CASE m # i /\ k = i BY <2>2, <1>2, <1>3, UniqueIsApart
    <2>3. CASE m # i /\ k # i
      <3>1. Collides(claim[m], claim[k]) BY <2>3, <1>2, <1>3
      <3> QED BY <3>1, <1>2 DEF ResearchInv, ClaimsAreApart
    <2> QED BY <2>1, <2>2, <2>3
  <1>4. \A m, k \in DOMAIN claim' : Collides(claim'[m], claim'[k]) => m = k BY <1>3
  <1> QED BY <1>1, <1>2, <1>4 DEF ClaimsAreApart, Collides

LEMMA ClaimIsCreated ==
    ASSUME ResearchInv, NEW c \in I!Claim, I!Unique(0, c), Len(claim) < MaxClaims, I!Create(c)
    PROVE  ClaimsAreApart' /\ DOMAIN claim \subseteq DOMAIN claim'
  <1> DEFINE n == Len(claim) + 1
  <1>1. claim \in Seq(I!Claim) /\ Len(claim) <= MaxClaims /\ MaxClaims \in Nat
    BY ResearchAssumption DEF ResearchInv, ClaimsAreApart
  <1>2. /\ claim' \in Seq(I!Claim) /\ Len(claim') = Len(claim) + 1 /\ Len(claim') <= MaxClaims
        /\ DOMAIN claim' = DOMAIN claim \cup {n} /\ n \notin DOMAIN claim
        /\ claim'[n] = c /\ \A k \in DOMAIN claim : k # 0 /\ claim'[k] = claim[k]
    BY <1>1 DEF I!Create
  <1> HIDE DEF n
  <1>3. ASSUME NEW m \in DOMAIN claim', NEW k \in DOMAIN claim', Collides(claim'[m], claim'[k]) PROVE m = k
    <2>1. CASE m = n /\ k # n BY <2>1, <1>2, <1>3, UniqueIsApart
    <2>2. CASE m # n /\ k = n BY <2>2, <1>2, <1>3, UniqueIsApart
    <2>3. CASE m # n /\ k # n
      <3>1. Collides(claim[m], claim[k]) BY <2>3, <1>2, <1>3
      <3> QED BY <2>3, <3>1, <1>2 DEF ResearchInv, ClaimsAreApart
    <2> QED BY <2>1, <2>2, <2>3
  <1>4. \A m, k \in DOMAIN claim' : Collides(claim'[m], claim'[k]) => m = k BY <1>3
  <1> QED BY <1>1, <1>2, <1>4 DEF ClaimsAreApart, Collides

\* Proposing, and asking for an edit, a move or a decision.
LEMMA ResearchOfAsks ==
    ASSUME ResearchInv, NEW p \in Editors, NEW r \in Subjects,
           \/ \E os \in SUBSET Citable : I!editResearchRecord(p, r, os)
           \/ I!archiveResearchRecord(p, r) \/ I!restoreResearchRecord(p, r)
           \/ \E a \in Subjects : I!createRecordResolution(p, a, r)
           \/ \E as \in SUBSET Subjects : I!createResearchResolutionSet(p, as, r)
    PROVE  ResearchInv'
  <1> DEFINE rec == record[r]
  <1>1. /\ rec \in I!Record /\ asked \in 0 .. MaxAsked /\ MaxAsked \in Nat
        /\ \A q \in Subjects : record[q].obs \in SUBSET Citable
    BY ResearchAssumption DEF ResearchInv, RowsAreTyped, I!Record
  <1>2. ASSUME NEW step \in {"edit", "move"}, NEW next \in I!Record,
               asked < MaxAsked, asked' = asked + 1, UNCHANGED <<record, revised, claim>>,
               inResearch' = [inResearch EXCEPT ![p] = [step |-> step, rec |-> r, next |-> next]]
        PROVE  ResearchInv'
    <2> DEFINE j == [step |-> step, rec |-> r, next |-> next]
    <2>1. ResearchJob(j) BY <1>2 DEF ResearchJob
    <2>2. asked' \in 0 .. MaxAsked BY <1>1, <1>2
    <2> HIDE DEF j
    <2> QED BY <1>2, <2>1, <2>2, ResearchAsks DEF j
  <1>3. ASSUME NEW os \in SUBSET Citable, I!editResearchRecord(p, r, os) PROVE ResearchInv'
    <2>1. I!Edited(rec, os) \in I!Record BY <1>1 DEF I!Edited, I!Record
    <2> QED BY <1>2, <1>3, <2>1 DEF I!editResearchRecord, I!AskEdit, I!Begin
  <1>4. CASE I!archiveResearchRecord(p, r)
    <2>1. I!Archive(rec) \in I!Record BY <1>1 DEF I!Archive, I!Record
    <2> QED BY <1>2, <1>4, <2>1 DEF I!archiveResearchRecord, I!AskMove, I!Begin
  <1>5. CASE I!restoreResearchRecord(p, r)
    <2>1. I!Restore(rec) \in I!Record BY <1>1 DEF I!Restore, I!Record
    <2> QED BY <1>2, <1>5, <2>1 DEF I!restoreResearchRecord, I!AskMove, I!Begin
  <1>6. ASSUME NEW set \in BOOLEAN, NEW as \in SUBSET Subjects,
               UNCHANGED <<record, revised, claim, asked>>,
               inResearch' = [inResearch EXCEPT ![p] = [step |-> "propose", new |-> I!Proposal(set, as, r)]]
        PROVE  ResearchInv'
    <2> DEFINE c == I!Proposal(set, as, r)
               j == [step |-> "propose", new |-> c]
    <2>1. UNION {record[a].obs : a \in as} \in SUBSET Citable BY <1>1
    <2>2. c \in I!Claim BY <2>1 DEF I!Proposal, I!Difference, I!Claim, I!States
    <2> HIDE DEF c
    <2>3. ResearchJob(j) BY <2>2 DEF ResearchJob
    <2>4. inResearch' = [inResearch EXCEPT ![p] = j] BY <1>6 DEF c
    <2> HIDE DEF j
    <2> QED BY <1>1, <1>6, <2>3, <2>4, ResearchAsks
  <1>7. ASSUME NEW a \in Subjects, I!createRecordResolution(p, a, r) PROVE ResearchInv'
    <2>1. {a} \in SUBSET Subjects /\ FALSE \in BOOLEAN OBVIOUS
    <2> QED BY <1>6, <1>7, <2>1 DEF I!createRecordResolution, I!Propose, I!Begin
  <1>8. ASSUME NEW as \in SUBSET Subjects, I!createResearchResolutionSet(p, as, r) PROVE ResearchInv'
    <2>1. TRUE \in BOOLEAN OBVIOUS
    <2> QED BY <1>6, <1>8, <2>1 DEF I!createResearchResolutionSet, I!ProposeSet, I!Begin
  <1> QED BY <1>3, <1>4, <1>5, <1>7, <1>8

\* What is decided, on the resolution as it was read.
LEMMA ResearchOfDecisions ==
    ASSUME ResearchInv, NEW p \in Editors,
           \/ \E i \in DOMAIN claim :
                 \/ \E what \in {"accept", "reject"} : \/ I!reviewResearchResolution(p, i, what)
                                                       \/ I!reviewResearchResolutionSet(p, i, what)
                 \/ I!reverseResearchResolution(p, i) \/ I!reverseResearchResolutionSet(p, i)
           \/ I!Review(p) \/ I!Rejected(p) \/ I!Reversed(p)
    PROVE  ResearchInv'
  <1> DEFINE was == inResearch[p]
             held == was.held
             canonical == record[held.canonical].obs
             added == I!Difference(UNION {record[a].obs : a \in held.aliases}, canonical)
  <1>1. ResearchJob(was) /\ asked \in 0 .. MaxAsked /\ record \in [Subjects -> I!Record]
    BY DEF ResearchInv, ResearchJobs, RowsAreTyped
  <1>2. ASSUME NEW i \in DOMAIN claim, NEW what, I!ByID(p, i, what) PROVE ResearchInv'
    <2> DEFINE j == [step |-> "judge", id |-> i, held |-> claim[i], what |-> what]
    <2>1. claim[i] \in I!Claim BY DEF ResearchInv, ClaimsAreApart
    <2>2. ResearchJob(j) BY <2>1 DEF ResearchJob
    <2> HIDE DEF j
    <2> QED BY <1>1, <1>2, <2>2, ResearchAsks DEF I!ByID, I!Begin, j
  <1>3. ASSUME was.step = "judge" PROVE was.id \in DOMAIN claim /\ held \in I!Claim
    BY <1>1, <1>3 DEF ResearchJob
  <1>4. ASSUME was.step = "judge", NEW os \in SUBSET Citable, NEW next \in I!Claim, I!Merge(p, os, next)
        PROVE  ResearchInv'
    <2> DEFINE r == held.canonical
               entry == I!Edited(record[r], os)
               j == [step |-> "merge", id |-> was.id, new |-> next, rec |-> r, next |-> entry]
    <2>1. r \in Subjects BY <1>3, <1>4 DEF I!Claim
    <2>2. entry \in I!Record BY <1>1, <2>1 DEF I!Edited, I!Record
    <2> HIDE DEF entry
    <2>3. ResearchJob(j) BY <1>3, <1>4, <2>1, <2>2 DEF ResearchJob
    <2>4. CASE I!Refuse(p) BY <2>4, ResearchRefuses
    <2>5. CASE /\ inResearch' = [inResearch EXCEPT ![p] = j]
               /\ UNCHANGED <<record, revised, claim, asked>>
      <3> HIDE DEF j
      <3> QED BY <1>1, <2>3, <2>5, ResearchAsks
    <2> QED BY <1>4, <2>4, <2>5 DEF I!Merge, entry
  <1>5. CASE I!Review(p)
    <2>1. was.step = "judge" BY <1>5 DEF I!Review
    <2>2. held \in I!Claim BY <1>3, <2>1
    <2>3. canonical \cup added \in SUBSET Citable /\ added \in SUBSET Citable
      BY <1>1, <2>2 DEF I!Difference, I!Claim, I!Record
    <2>4. I!Accept(held, added) \in I!Claim
      <3> DEFINE h == held
                 m == [h EXCEPT !.state = "accepted"]
      <3>1. m \in I!Claim BY <2>2 DEF I!Claim, I!States
      <3> HIDE DEF m, added
      <3>2. [m EXCEPT !.added = added] \in I!Claim BY <2>3, <3>1 DEF I!Claim
      <3> QED BY <3>2 DEF I!Accept, m
    <2>5. I!Merge(p, canonical \cup added, I!Accept(held, added)) \/ I!Refuse(p) BY <1>5 DEF I!Review
    <2> QED BY <1>4, <2>1, <2>3, <2>4, <2>5, ResearchRefuses
  <1>6. CASE I!Rejected(p)
    <2>1. was.step = "judge" BY <1>6 DEF I!Rejected
    <2> DEFINE new == I!Reject(held)
               j == [step |-> "reject", id |-> was.id, new |-> new]
    <2>2. held \in I!Claim BY <1>3, <2>1
    <2>3. new \in I!Claim /\ new.state = "rejected" BY <2>2 DEF I!Reject, I!Claim, I!States
    <2> HIDE DEF new
    <2>4. ResearchJob(j) BY <1>3, <2>1, <2>3 DEF ResearchJob
    <2>5. CASE I!Refuse(p) BY <2>5, ResearchRefuses
    <2>6. CASE /\ inResearch' = [inResearch EXCEPT ![p] = j]
               /\ UNCHANGED <<record, revised, claim, asked>>
      <3> HIDE DEF j
      <3> QED BY <1>1, <2>4, <2>6, ResearchAsks
    <2> QED BY <1>6, <2>5, <2>6 DEF I!Rejected, new
  <1>7. CASE I!Reversed(p)
    <2>1. was.step = "judge" BY <1>7 DEF I!Reversed
    <2>2. held \in I!Claim BY <1>3, <2>1
    <2>3. canonical \ held.added \in SUBSET Citable BY <1>1, <2>2 DEF I!Claim, I!Record
    <2>4. I!Reverse(held) \in I!Claim BY <2>2 DEF I!Reverse, I!Claim, I!States
    <2>5. I!Merge(p, canonical \ held.added, I!Reverse(held)) \/ I!Refuse(p) BY <1>7 DEF I!Reversed
    <2> QED BY <1>4, <2>1, <2>3, <2>4, <2>5, ResearchRefuses
  <1> QED BY <1>2, <1>5, <1>6, <1>7 DEF I!reviewResearchResolution, I!reviewResearchResolutionSet,
         I!reverseResearchResolution, I!reverseResearchResolutionSet

\* The transactions.
LEMMA ResearchOfCommits ==
    ASSUME ResearchInv, NEW p \in Editors,
           \/ I!CommitEdit(p) \/ I!Transition(p) \/ I!CommitPropose(p)
           \/ I!CommitMerge(p) \/ I!CommitReject(p)
    PROVE  ResearchInv'
  <1> DEFINE was == inResearch[p]
             next == was.next
             r == was.rec
  <1>1. ResearchJob(was) /\ RowsAreTyped /\ ClaimsAreApart BY DEF ResearchInv, ResearchJobs
  <1>2. ASSUME NEW entry \in I!Record, r \in Subjects, next \in I!Record,
               record' = [record EXCEPT ![r] = entry], revised' = [revised EXCEPT ![r] = next],
               UNCHANGED asked
        PROVE  RowsAreTyped'
    BY <1>1, <1>2 DEF RowsAreTyped
  <1>3. ASSUME r \in Subjects, next \in I!Record
        PROVE  /\ I!Save(record[r], next) \in I!Record
               /\ I!ReplaceObservations(I!Save(record[r], next), next.obs) \in I!Record
    <2> DEFINE entry == record[r]
               once == I!Save(entry, next)
    <2>1. entry \in I!Record BY <1>1, <1>3 DEF RowsAreTyped
    <2> HIDE DEF entry
    <2>2. once \in I!Record BY <1>3, <2>1 DEF I!Save, I!Record
    <2> HIDE DEF once
    <2>3. I!ReplaceObservations(once, next.obs) \in I!Record
      BY <1>3, <2>2 DEF I!ReplaceObservations, I!Record
    <2> QED BY <2>2, <2>3 DEF once, entry
  <1>4. ASSUME was.step \in {"edit", "move", "merge"} PROVE r \in Subjects /\ next \in I!Record
    BY <1>1, <1>4 DEF ResearchJob
  <1>5. ASSUME UNCHANGED claim PROVE ClaimsAreApart' /\ DOMAIN claim \subseteq DOMAIN claim'
    BY <1>1, <1>5 DEF ClaimsAreApart
  <1>6. CASE I!CommitEdit(p)
    <2>1. r \in Subjects /\ next \in I!Record BY <1>4, <1>6 DEF I!CommitEdit
    <2>2. /\ record' = [record EXCEPT ![r] = I!ReplaceObservations(I!Save(record[r], next), next.obs)]
          /\ revised' = [revised EXCEPT ![r] = next] /\ UNCHANGED <<claim, asked>> /\ I!End(p)
      BY <1>6 DEF I!CommitEdit, I!NewRevision
    <2>3. RowsAreTyped' BY <1>1, <1>2, <1>3, <2>1, <2>2 DEF RowsAreTyped
    <2> QED BY <1>5, <2>2, <2>3, IdleIsAJob, ResearchMoves DEF I!End
  <1>7. CASE I!Transition(p)
    <2>1. r \in Subjects /\ next \in I!Record BY <1>4, <1>7 DEF I!Transition
    <2>2. /\ record' = [record EXCEPT ![r] = I!Save(record[r], next)]
          /\ revised' = [revised EXCEPT ![r] = next] /\ UNCHANGED <<claim, asked>> /\ I!End(p)
      BY <1>7 DEF I!Transition, I!NewRevision
    <2>3. RowsAreTyped' BY <1>1, <1>2, <1>3, <2>1, <2>2 DEF RowsAreTyped
    <2> QED BY <1>5, <2>2, <2>3, IdleIsAJob, ResearchMoves DEF I!End
  <1>8. CASE I!CommitPropose(p)
    <2>1. was.new \in I!Claim BY <1>1, <1>8 DEF I!CommitPropose, ResearchJob
    <2>2. CASE I!Refuse(p) BY <2>2, ResearchRefuses
    <2>3. CASE /\ I!Unique(0, was.new) /\ Len(claim) < MaxClaims
               /\ I!Create(was.new) /\ I!End(p) /\ UNCHANGED <<record, revised, asked>>
      <3>1. ClaimsAreApart' /\ DOMAIN claim \subseteq DOMAIN claim' BY <2>1, <2>3, ClaimIsCreated
      <3>2. RowsAreTyped' BY <1>1, <2>3 DEF RowsAreTyped
      <3> QED BY <2>3, <3>1, <3>2, IdleIsAJob, ResearchMoves DEF I!End
    <2> QED BY <1>8, <2>2, <2>3 DEF I!CommitPropose
  <1>9. CASE I!CommitMerge(p)
    <2>1. r \in Subjects /\ next \in I!Record BY <1>4, <1>9 DEF I!CommitMerge
    <2>2. was.new \in I!Claim /\ was.id \in DOMAIN claim BY <1>1, <1>9 DEF I!CommitMerge, ResearchJob
    <2>3. CASE I!Refuse(p) BY <2>3, ResearchRefuses
    <2>4. CASE /\ I!Unique(was.id, was.new) /\ I!SaveClaim(was.id, was.new) /\ I!End(p) /\ UNCHANGED asked
               /\ record' = [record EXCEPT ![r] = I!ReplaceObservations(I!Save(record[r], next), next.obs)]
               /\ revised' = [revised EXCEPT ![r] = next]
      <3>1. ClaimsAreApart' /\ DOMAIN claim \subseteq DOMAIN claim' BY <2>2, <2>4, ClaimIsSaved
      <3>2. RowsAreTyped' BY <1>1, <1>2, <1>3, <2>1, <2>4 DEF RowsAreTyped
      <3> QED BY <2>4, <3>1, <3>2, IdleIsAJob, ResearchMoves DEF I!End
    <2> QED BY <1>9, <2>3, <2>4 DEF I!CommitMerge, I!NewRevision
  <1>10. CASE I!CommitReject(p)
    <2>1. was.new \in I!Claim /\ was.id \in DOMAIN claim /\ was.new.state = "rejected"
      BY <1>1, <1>10 DEF I!CommitReject, ResearchJob
    <2>2. I!Unique(was.id, was.new) BY <2>1 DEF I!Unique, I!Active
    <2>3. /\ I!SaveClaim(was.id, was.new) /\ I!End(p) /\ UNCHANGED <<record, revised, asked>>
      BY <1>10 DEF I!CommitReject
    <2>4. ClaimsAreApart' /\ DOMAIN claim \subseteq DOMAIN claim' BY <2>1, <2>2, <2>3, ClaimIsSaved
    <2>5. RowsAreTyped' BY <1>1, <2>3 DEF RowsAreTyped
    <2> QED BY <2>3, <2>4, <2>5, IdleIsAJob, ResearchMoves DEF I!End
  <1> QED BY <1>6, <1>7, <1>8, <1>9, <1>10

LEMMA ResearchLast ==
    ASSUME ResearchInv, [AuthoringNext]_all PROVE ResearchInv'
  <1>1. I!Next \/ UNCHANGED identifying BY DEF AuthoringNext, all
  <1>2. CASE UNCHANGED identifying
    <2>1. RowsAreTyped' /\ ClaimsAreApart'
      BY <1>2 DEF identifying, ResearchInv, RowsAreTyped, ClaimsAreApart
    <2>2. ResearchJobs' BY <1>2 DEF identifying, ResearchInv, ResearchJobs, ResearchJob
    <2> QED BY <2>1, <2>2 DEF ResearchInv
  <1>3. CASE I!Next BY <1>3, ResearchOfAsks, ResearchOfDecisions, ResearchOfCommits DEF I!Next
  <1> QED BY <1>1, <1>2, <1>3
-----------------------------------------------------------------------------
(* The timeline.                                                           *)
(*                                                                         *)
(* An edit carries the ends of the row it read, which no edit changes, so  *)
(* that what it writes into the row and into the history is the same.      *)

Decided == [decision : T!Decisions \cup {"none"}, account : Nat]

TimelineJob(j) ==
    /\ j.step \in {"idle", "connection", "event", "group"}
    /\ j.step = "connection" =>
          /\ j.id \in DOMAIN connection /\ j.next \in T!Connection
          /\ j.next.from = connection[j.id].from /\ j.next.to = connection[j.id].to
    /\ j.step = "event" => j.id \in DOMAIN event /\ j.next \in T!Event
    /\ j.step = "group" => j.id \in DOMAIN group /\ j.next \in T!Group
TimelineJobs ==
    /\ inTimeline = [p \in Chroniclers |-> inTimeline[p]]
    /\ \A p \in Chroniclers : TimelineJob(inTimeline[p])

HistoryIsKept ==
    /\ connection \in Seq(T!Connection) /\ event \in Seq(T!Event) /\ Len(event) <= MaxEvents
    /\ said = [connection |-> connection, event |-> event]
AccountsAreKept ==
    /\ account \in Seq(1 .. MaxEvents) /\ reconciled \in Seq(Decided)
    /\ Len(reconciled) = Len(event)
    /\ \A e \in DOMAIN reconciled : reconciled[e].account <= Len(account)
TimelineInv ==
    /\ HistoryIsKept /\ AccountsAreKept
    /\ group \in Seq(T!Group) /\ edited \in 0 .. MaxEdited
    /\ TimelineJobs

\* What the records cite and what is restricted, for readers.
SourcesAreKept == entryCites \in [Entries -> SUBSET Datable] /\ guarded \subseteq Datable

LEMMA TimelineTypeOK == ASSUME TimelineInv, SourcesAreKept PROVE T!TypeOK /\ T!HistoryEndsAtTheRow
  <1> USE DEF TimelineInv, HistoryIsKept, AccountsAreKept, SourcesAreKept
  <1>1. said.connection = connection /\ said.event = event OBVIOUS
  <1>2. ASSUME NEW e \in DOMAIN reconciled
        PROVE  /\ e \in DOMAIN event /\ reconciled[e].decision \in T!Decisions \cup {"none"}
               /\ reconciled[e].account \in 0 .. Len(account)
    <2>1. reconciled[e] \in Decided OBVIOUS
    <2>2. Len(account) \in Nat /\ reconciled[e].account <= Len(account) OBVIOUS
    <2>3. e \in DOMAIN event OBVIOUS
    <2> QED BY <2>1, <2>2, <2>3 DEF Decided
  <1>3. T!TypeOK BY <1>1, <1>2 DEF T!TypeOK
  <1> QED BY <1>1, <1>3 DEF T!HistoryEndsAtTheRow

LEMMA TimelineBegins == ASSUME AuthoringInit PROVE TimelineInv /\ SourcesAreKept
  <1>1. T!Init BY DEF AuthoringInit
  <1>2. HistoryIsKept /\ AccountsAreKept
    BY <1>1, TimelineAssumption DEF T!Init, HistoryIsKept, AccountsAreKept
  <1>3. group \in Seq(T!Group) /\ edited \in 0 .. MaxEdited
    BY <1>1, TimelineAssumption DEF T!Init
  <1>4. TimelineJobs BY <1>1 DEF T!Init, TimelineJobs, TimelineJob, T!Idle
  <1>5. SourcesAreKept BY <1>1, TimelineAssumption DEF T!Init, SourcesAreKept
  <1> QED BY <1>2, <1>3, <1>4, <1>5 DEF TimelineInv

\* What is created stands after what others have read, which keeps its ends.
RowsStay ==
    /\ DOMAIN connection \subseteq DOMAIN connection'
    /\ \A c \in DOMAIN connection : /\ connection'[c].from = connection[c].from
                                    /\ connection'[c].to = connection[c].to
    /\ DOMAIN event \subseteq DOMAIN event' /\ DOMAIN group \subseteq DOMAIN group'

LEMMA TimelineRests ==
    ASSUME TimelineInv, RowsStay, HistoryIsKept', AccountsAreKept', group' \in Seq(T!Group),
           edited' = edited \/ edited' \in 0 .. MaxEdited, UNCHANGED inTimeline
    PROVE  TimelineInv'
  <1>1. inTimeline' = [q \in Chroniclers |-> inTimeline'[q]] BY DEF TimelineInv, TimelineJobs
  <1>2. ASSUME NEW q \in Chroniclers PROVE TimelineJob(inTimeline[q])'
    <2>1. inTimeline'[q] = inTimeline[q] /\ TimelineJob(inTimeline[q]) BY DEF TimelineInv, TimelineJobs
    <2> QED BY <2>1 DEF TimelineJob, RowsStay
  <1> QED BY <1>1, <1>2 DEF TimelineInv, TimelineJobs

LEMMA TimelineMoves ==
    ASSUME TimelineInv, RowsStay, HistoryIsKept', AccountsAreKept', group' \in Seq(T!Group),
           edited' \in 0 .. MaxEdited,
           NEW p \in Chroniclers, NEW j, inTimeline' = [inTimeline EXCEPT ![p] = j], TimelineJob(j)
    PROVE  TimelineInv'
  <1>1. /\ inTimeline' = [q \in Chroniclers |-> inTimeline'[q]] /\ inTimeline'[p] = j
        /\ \A q \in Chroniclers : q # p => inTimeline'[q] = inTimeline[q]
    BY DEF TimelineInv, TimelineJobs
  <1>2. ASSUME NEW q \in Chroniclers PROVE TimelineJob(inTimeline[q])'
    <2>1. CASE q = p BY <2>1, <1>1 DEF TimelineJob, RowsStay
    <2>2. CASE q # p
      <3>1. inTimeline'[q] = inTimeline[q] /\ TimelineJob(inTimeline[q])
        BY <2>2, <1>1 DEF TimelineInv, TimelineJobs
      <3> QED BY <3>1 DEF TimelineJob, RowsStay
    <2> QED BY <2>1, <2>2
  <1> QED BY <1>1, <1>2 DEF TimelineInv, TimelineJobs

\* A row is created with its first revision.
LEMMA TimelineOfCreation ==
    ASSUME TimelineInv, NEW p \in Chroniclers,
           \/ \E r, s \in Entries, os \in SUBSET Datable : T!createResearchConnection(p, r, s, os)
           \/ \E rs \in SUBSET Entries, os \in SUBSET Datable : T!createTimelineEvent(p, rs, os)
           \/ \E e, f \in DOMAIN event :
                 \/ T!createTimelineEventAccount(p, e) \/ T!createTimelineEventRelationship(p, e, f)
                 \/ T!createTimelineEventCluster(p, <<e, f>>)
    PROVE  TimelineInv'
  <1> USE DEF T!rest
  <1>1. /\ connection \in Seq(T!Connection) /\ event \in Seq(T!Event) /\ group \in Seq(T!Group)
        /\ account \in Seq(1 .. MaxEvents) /\ reconciled \in Seq(Decided)
        /\ Len(event) <= MaxEvents /\ MaxEvents \in Nat /\ Len(reconciled) = Len(event)
        /\ said = [connection |-> connection, event |-> event]
        /\ \A e \in DOMAIN reconciled : reconciled[e].account <= Len(account)
    BY TimelineAssumption DEF TimelineInv, HistoryIsKept, AccountsAreKept
  <1>2. ASSUME NEW r \in Entries, NEW s \in Entries, NEW os \in SUBSET Datable,
               T!createResearchConnection(p, r, s, os)
        PROVE  TimelineInv'
    <2> DEFINE c == T!NewConnection(r, s, os)
    <2>1. c \in T!Connection BY DEF T!NewConnection, T!Connection
    <2>2. /\ connection' = Append(connection, c)
          /\ said' = [said EXCEPT !.connection = Append(said.connection, c)]
          /\ UNCHANGED <<event, account, reconciled, group, inTimeline, edited>>
      BY <1>2 DEF T!createResearchConnection, T!Create
    <2> HIDE DEF c
    <2>3. connection' \in Seq(T!Connection) BY <1>1, <2>1, <2>2
    <2>4. said' = [connection |-> connection', event |-> event'] BY <1>1, <2>2
    <2>5. RowsStay BY <1>1, <2>1, <2>2 DEF RowsStay
    <2>6. HistoryIsKept' BY <1>1, <2>2, <2>3, <2>4 DEF HistoryIsKept
    <2>7. AccountsAreKept' BY <1>1, <2>2 DEF AccountsAreKept
    <2> QED BY <1>1, <2>2, <2>5, <2>6, <2>7, TimelineRests
  <1>3. ASSUME NEW rs \in SUBSET Entries, NEW os \in SUBSET Datable, T!createTimelineEvent(p, rs, os)
        PROVE  TimelineInv'
    <2> DEFINE e == T!NewEvent(rs, os)
    <2>1. e \in T!Event BY DEF T!NewEvent, T!Event
    <2>2. /\ event' = Append(event, e) /\ Len(event) < MaxEvents
          /\ said' = [said EXCEPT !.event = Append(said.event, e)]
          /\ reconciled' = Append(reconciled, T!Undecided)
          /\ UNCHANGED <<connection, account, group, inTimeline, edited>>
      BY <1>3 DEF T!createTimelineEvent, T!CreateEvent
    <2> HIDE DEF e
    <2>3. event' \in Seq(T!Event) /\ Len(event') <= MaxEvents /\ Len(event') = Len(event) + 1
      BY <1>1, <2>1, <2>2
    <2>4. said' = [connection |-> connection', event |-> event'] BY <1>1, <2>2
    <2>5. RowsStay BY <1>1, <2>1, <2>2 DEF RowsStay
    <2>6. HistoryIsKept' BY <1>1, <2>2, <2>3, <2>4 DEF HistoryIsKept
    <2> DEFINE u == T!Undecided
    <2>7. u \in Decided /\ u.account = 0 BY DEF T!Undecided, Decided
    <2> HIDE DEF u
    <2>8. reconciled' = Append(reconciled, u) BY <2>2 DEF u
    <2>9. reconciled' \in Seq(Decided) /\ Len(reconciled') = Len(event') BY <1>1, <2>3, <2>7, <2>8
    <2>10. \A k \in DOMAIN reconciled' : reconciled'[k].account <= Len(account)
      <3>1. ASSUME NEW k \in DOMAIN reconciled' PROVE reconciled'[k].account <= Len(account)
        <4>1. CASE k = Len(reconciled) + 1 BY <4>1, <1>1, <2>7, <2>8
        <4>2. CASE k # Len(reconciled) + 1
          <5>1. k \in DOMAIN reconciled /\ reconciled'[k] = reconciled[k] BY <4>2, <1>1, <2>8
          <5> QED BY <5>1, <1>1
        <4> QED BY <4>1, <4>2
      <3> QED BY <3>1
    <2>11. AccountsAreKept' BY <1>1, <2>2, <2>9, <2>10 DEF AccountsAreKept
    <2> QED BY <1>1, <2>2, <2>5, <2>6, <2>11, TimelineRests
  <1>4. ASSUME NEW e \in DOMAIN event, T!createTimelineEventAccount(p, e) PROVE TimelineInv'
    <2>1. /\ account' = Append(account, e)
          /\ UNCHANGED <<connection, event, said, reconciled, group, inTimeline, edited>>
      BY <1>4 DEF T!createTimelineEventAccount, T!CreateAccount
    <2>2. e \in 1 .. MaxEvents BY <1>1
    <2>3. account' \in Seq(1 .. MaxEvents) /\ Len(account') = Len(account) + 1 BY <1>1, <2>1, <2>2
    <2>4. \A k \in DOMAIN reconciled : reconciled[k].account <= Len(account')
      <3>1. ASSUME NEW k \in DOMAIN reconciled PROVE reconciled[k].account <= Len(account')
        <4>1. reconciled[k].account \in Nat
          <5>1. reconciled[k] \in Decided BY <1>1
          <5> QED BY <5>1 DEF Decided
        <4>2. reconciled[k].account <= Len(account) BY <1>1
        <4>3. Len(account) \in Nat /\ Len(account') = Len(account) + 1 BY <1>1, <2>3
        <4> QED BY ONLY <4>1, <4>2, <4>3
      <3> QED BY <3>1
    <2>5. AccountsAreKept' BY <1>1, <2>1, <2>3, <2>4 DEF AccountsAreKept
    <2>6. HistoryIsKept' /\ RowsStay BY <1>1, <2>1 DEF HistoryIsKept, RowsStay
    <2> QED BY <1>1, <2>1, <2>5, <2>6, TimelineRests
  <1>5. ASSUME NEW g \in T!Group, T!CreateGroup(g) PROVE TimelineInv'
    <2>1. /\ group' = Append(group, g)
          /\ UNCHANGED <<connection, event, said, account, reconciled, inTimeline, edited>>
      BY <1>5 DEF T!CreateGroup
    <2>2. group' \in Seq(T!Group) BY <1>1, <1>5, <2>1
    <2>3. HistoryIsKept' /\ AccountsAreKept' /\ RowsStay
      BY <1>1, <2>1 DEF HistoryIsKept, AccountsAreKept, RowsStay
    <2> QED BY <2>1, <2>2, <2>3, TimelineRests
  <1>6. ASSUME NEW e \in DOMAIN event, NEW f \in DOMAIN event
        PROVE  T!NewCluster(<<e, f>>) \in T!Group /\ T!NewRelationship(e, f) \in T!Group
    <2>1. <<e, f>> \in Seq(Nat) BY <1>1
    <2> QED BY <2>1 DEF T!NewCluster, T!NewRelationship, T!Group, T!GroupStates
  <1> QED BY <1>2, <1>3, <1>4, <1>5, <1>6 DEF T!createTimelineEventRelationship, T!createTimelineEventCluster

\* An edit, with the row that it read.
LEMMA TimelineOfAsks ==
    ASSUME TimelineInv, NEW p \in Chroniclers,
           \/ \E c \in DOMAIN connection, os, against \in SUBSET Datable :
                 T!editResearchConnection(p, c, os, against)
           \/ \E rs \in SUBSET Entries, os \in SUBSET Datable, e \in DOMAIN event :
                 T!editTimelineEvent(p, e, rs, os)
           \/ \E e, f \in DOMAIN event, g \in DOMAIN group : T!editTimelineEventCluster(p, g, <<e, f>>)
           \/ \E g \in DOMAIN group, decision \in T!GroupStates :
                 \/ T!reviewTimelineEventCluster(p, g, decision)
                 \/ T!reviewTimelineEventRelationship(p, g, decision)
    PROVE  TimelineInv'
  <1> USE DEF T!rest
  <1>1. /\ connection \in Seq(T!Connection) /\ event \in Seq(T!Event) /\ group \in Seq(T!Group)
        /\ edited \in 0 .. MaxEdited /\ MaxEdited \in Nat
    BY TimelineAssumption DEF TimelineInv, HistoryIsKept
  <1>2. ASSUME T!Counted PROVE edited' \in 0 .. MaxEdited /\ edited' \in Nat
    BY <1>1, <1>2 DEF T!Counted
  <1>3. ASSUME NEW j, TimelineJob(j), T!Counted, inTimeline' = [inTimeline EXCEPT ![p] = j],
               UNCHANGED <<connection, event, said, account, reconciled, group>>
        PROVE  TimelineInv'
    <2>1. RowsStay BY <1>3 DEF RowsStay
    <2>2. HistoryIsKept' BY <1>3 DEF TimelineInv, HistoryIsKept
    <2>3. AccountsAreKept' BY <1>3 DEF TimelineInv, AccountsAreKept
    <2> QED BY <1>1, <1>2, <1>3, <2>1, <2>2, <2>3, TimelineMoves
  <1>4. ASSUME NEW c \in DOMAIN connection, NEW os \in SUBSET Datable, NEW against \in SUBSET Datable,
               T!editResearchConnection(p, c, os, against)
        PROVE  TimelineInv'
    <2> DEFINE held == connection[c]
               once == [held EXCEPT !.obs = os]
               twice == [once EXCEPT !.against = against]
               next == [twice EXCEPT !.n = edited']
               j == [step |-> "connection", id |-> c, next |-> next]
    <2>1. held \in T!Connection BY <1>1
    <2>2. T!Counted /\ edited' \in Nat BY <1>2, <1>4 DEF T!editResearchConnection, T!Edit
    <2>3. T!EditedConnection(held, os, against) = next BY DEF T!EditedConnection
    <2> HIDE DEF held
    <2>4. once \in T!Connection /\ once.from = held.from /\ once.to = held.to
      BY <2>1 DEF T!Connection
    <2> HIDE DEF once
    <2>5. twice \in T!Connection /\ twice.from = once.from /\ twice.to = once.to
      BY <2>4 DEF T!Connection
    <2> HIDE DEF twice
    <2>6. next \in T!Connection /\ next.from = twice.from /\ next.to = twice.to
      BY <2>2, <2>5 DEF T!Connection
    <2> HIDE DEF next
    <2>7. TimelineJob(j) BY <2>4, <2>5, <2>6 DEF TimelineJob, held
    <2>8. /\ inTimeline' = [inTimeline EXCEPT ![p] = j]
          /\ UNCHANGED <<connection, event, said, account, reconciled, group>>
      BY <1>4, <2>3 DEF T!editResearchConnection, T!Edit, T!Begin, held
    <2> HIDE DEF j
    <2> QED BY <1>3, <2>2, <2>7, <2>8
  <1>5. ASSUME NEW rs \in SUBSET Entries, NEW os \in SUBSET Datable, NEW e \in DOMAIN event,
               T!editTimelineEvent(p, e, rs, os)
        PROVE  TimelineInv'
    <2> DEFINE next == T!EditedEvent(rs, os)
               j == [step |-> "event", id |-> e, next |-> next]
    <2>1. T!Counted /\ edited' \in Nat BY <1>2, <1>5 DEF T!editTimelineEvent, T!EditEvent
    <2>2. next \in T!Event BY <2>1 DEF T!EditedEvent, T!Event
    <2>3. /\ inTimeline' = [inTimeline EXCEPT ![p] = j]
          /\ UNCHANGED <<connection, event, said, account, reconciled, group>>
      BY <1>5 DEF T!editTimelineEvent, T!EditEvent, T!Begin
    <2> HIDE DEF next
    <2>4. TimelineJob(j) BY <2>2 DEF TimelineJob
    <2> HIDE DEF j
    <2> QED BY <1>3, <2>1, <2>3, <2>4
  <1>6. ASSUME NEW g \in DOMAIN group, NEW next \in T!Group, T!AskGroup(p, g, next) PROVE TimelineInv'
    <2> DEFINE j == [step |-> "group", id |-> g, next |-> next]
    <2>1. TimelineJob(j) BY DEF TimelineJob
    <2> HIDE DEF j
    <2> QED BY <1>3, <1>6, <2>1 DEF T!AskGroup, T!Begin, j
  <1>7. ASSUME NEW g \in DOMAIN group
        PROVE  /\ \A e, f \in DOMAIN event : T!EditedCluster(group[g], <<e, f>>) \in T!Group
               /\ \A decision \in T!GroupStates : T!Reviewed(group[g], p, decision) \in T!Group
    <2> DEFINE held == group[g]
    <2>1. held \in T!Group BY <1>1
    <2> HIDE DEF held
    <2>2. ASSUME NEW e \in DOMAIN event, NEW f \in DOMAIN event
          PROVE  T!EditedCluster(held, <<e, f>>) \in T!Group
      <3>1. <<e, f>> \in Seq(Nat) BY <1>1
      <3> QED BY <2>1, <3>1 DEF T!EditedCluster, T!Group
    <2>3. ASSUME NEW decision \in T!GroupStates PROVE T!Reviewed(held, p, decision) \in T!Group
      <3> DEFINE once == [held EXCEPT !.state = decision]
                 by == IF decision = "proposed" THEN "nobody" ELSE p
      <3>1. once \in T!Group BY <2>1 DEF T!Group
      <3>2. by \in {"nobody"} \cup Chroniclers OBVIOUS
      <3>3. T!Reviewed(held, p, decision) = [once EXCEPT !.by = by] BY DEF T!Reviewed
      <3> HIDE DEF once, by
      <3> QED BY <3>1, <3>2, <3>3 DEF T!Group
    <2> QED BY <2>2, <2>3 DEF held
  <1> QED BY <1>4, <1>5, <1>6, <1>7 DEF T!editTimelineEventCluster, T!reviewTimelineEventCluster,
         T!reviewTimelineEventRelationship

\* What a request writes: of a connection the history's own words, since the
\* ends it read are the ends the row has.
LEMMA TimelineOfCommits ==
    ASSUME TimelineInv, NEW p \in Chroniclers,
           T!CommitConnection(p) \/ T!CommitEvent(p) \/ T!CommitGroup(p)
    PROVE  TimelineInv'
  <1> USE DEF T!rest
  <1> DEFINE was == inTimeline[p]
             next == was.next
             i == was.id
  <1>1. /\ connection \in Seq(T!Connection) /\ event \in Seq(T!Event) /\ group \in Seq(T!Group)
        /\ edited \in 0 .. MaxEdited /\ Len(event) <= MaxEvents
        /\ said = [connection |-> connection, event |-> event]
        /\ TimelineJob(was)
    BY DEF TimelineInv, HistoryIsKept, TimelineJobs
  <1>2. TimelineJob(T!Idle) BY DEF TimelineJob, T!Idle
  <1>3. CASE T!CommitConnection(p)
    <2> DEFINE held == connection[i]
               saved == T!SaveConnection(held, next)
               whole == T!ReplaceEvidence(saved, next)
    <2>1. /\ i \in DOMAIN connection /\ next \in T!Connection
          /\ next.from = held.from /\ next.to = held.to
      BY <1>1, <1>3 DEF T!CommitConnection, TimelineJob
    <2>2. held \in T!Connection BY <1>1, <2>1
    <2>3. /\ connection' = [connection EXCEPT ![i] = whole]
          /\ said' = [said EXCEPT !.connection[i] = next]
          /\ T!End(p) /\ UNCHANGED <<event, account, reconciled, group, edited>>
      BY <1>3 DEF T!CommitConnection, T!ConnectionRevision
    <2> HIDE DEF held
    <2> DEFINE n == next
    <2> HIDE DEF next, n
    <2>4. saved = [held EXCEPT !.n = next.n] BY DEF T!SaveConnection
    <2>5. /\ saved \in T!Connection /\ saved.from = held.from /\ saved.to = held.to /\ saved.n = next.n
      BY <2>1, <2>2, <2>4 DEF T!Connection
    <2> HIDE DEF saved
    <2> DEFINE once == [saved EXCEPT !.obs = next.obs]
    <2>6. /\ once \in T!Connection /\ once.from = held.from /\ once.to = held.to /\ once.n = next.n
          /\ once.obs = next.obs
      BY <2>1, <2>5 DEF T!Connection
    <2>7. whole = [once EXCEPT !.against = next.against] BY DEF T!ReplaceEvidence
    <2> HIDE DEF once, whole
    <2>8. /\ whole \in T!Connection /\ whole.from = next.from /\ whole.to = next.to /\ whole.n = next.n
          /\ whole.obs = next.obs /\ whole.against = next.against
      BY <2>1, <2>6, <2>7 DEF T!Connection
    <2>9. whole = next BY <2>1, <2>8 DEF T!Connection
    <2>10. connection' = [connection EXCEPT ![i] = next] BY <2>3, <2>9
    <2>11. said' = [connection |-> connection', event |-> event'] BY <1>1, <2>3, <2>10
    <2>12. connection' \in Seq(T!Connection) BY <1>1, <2>1, <2>10
    <2>13. HistoryIsKept' BY <1>1, <2>3, <2>11, <2>12 DEF HistoryIsKept
    <2>14. AccountsAreKept' BY <2>3 DEF TimelineInv, AccountsAreKept
    <2>15. RowsStay
      <3>1. DOMAIN connection' = DOMAIN connection BY <1>1, <2>10
      <3>2. ASSUME NEW c \in DOMAIN connection
            PROVE  connection'[c].from = connection[c].from /\ connection'[c].to = connection[c].to
        <4>1. CASE c = i BY <4>1, <1>1, <2>1, <2>10 DEF held
        <4>2. CASE c # i BY <4>2, <1>1, <2>10
        <4> QED BY <4>1, <4>2
      <3> QED BY <3>1, <3>2, <2>3 DEF RowsStay
    <2> QED BY <1>1, <1>2, <2>3, <2>13, <2>14, <2>15, TimelineMoves DEF T!End
  <1>4. CASE T!CommitEvent(p)
    <2> DEFINE held == event[i]
               saved == T!SaveEvent(held, next)
               cited == T!ReplaceObservations(saved, next.obs)
               whole == T!ReplaceParticipantLinks(cited, next.parts)
    <2>1. i \in DOMAIN event /\ next \in T!Event
      BY <1>1, <1>4 DEF T!CommitEvent, TimelineJob
    <2>2. held \in T!Event BY <1>1, <2>1
    <2>3. /\ event' = [event EXCEPT ![i] = whole]
          /\ said' = [said EXCEPT !.event[i] = next]
          /\ T!End(p) /\ UNCHANGED <<connection, account, reconciled, group, edited>>
      BY <1>4 DEF T!CommitEvent, T!EventRevision
    <2> HIDE DEF held, next
    <2>4. saved = [held EXCEPT !.n = next.n] BY DEF T!SaveEvent
    <2>5. saved \in T!Event /\ saved.n = next.n BY <2>1, <2>2, <2>4 DEF T!Event
    <2> HIDE DEF saved
    <2>6. cited = [saved EXCEPT !.obs = next.obs] BY DEF T!ReplaceObservations
    <2>7. cited \in T!Event /\ cited.n = next.n /\ cited.obs = next.obs BY <2>1, <2>5, <2>6 DEF T!Event
    <2> HIDE DEF cited
    <2>8. whole = [cited EXCEPT !.parts = next.parts] BY DEF T!ReplaceParticipantLinks
    <2>9. whole \in T!Event /\ whole.n = next.n /\ whole.obs = next.obs /\ whole.parts = next.parts
      BY <2>1, <2>7, <2>8 DEF T!Event
    <2> HIDE DEF whole
    <2>10. whole = next BY <2>1, <2>9 DEF T!Event
    <2>11. event' = [event EXCEPT ![i] = next] BY <2>3, <2>10
    <2>12. said' = [connection |-> connection', event |-> event'] BY <1>1, <2>3, <2>11
    <2>13. event' \in Seq(T!Event) /\ Len(event') = Len(event) /\ DOMAIN event' = DOMAIN event
      BY <1>1, <2>1, <2>11
    <2>14. HistoryIsKept' BY <1>1, <2>3, <2>12, <2>13 DEF HistoryIsKept
    <2>15. AccountsAreKept' BY <2>3, <2>13 DEF TimelineInv, AccountsAreKept
    <2>16. RowsStay BY <2>3, <2>13 DEF RowsStay
    <2> QED BY <1>1, <1>2, <2>3, <2>14, <2>15, <2>16, TimelineMoves DEF T!End
  <1>5. CASE T!CommitGroup(p)
    <2> DEFINE held == group[i]
               to == IF next.kind = "cluster" THEN T!SaveCluster(held, next) ELSE T!SaveRelationship(held, next)
    <2>1. i \in DOMAIN group /\ next \in T!Group BY <1>1, <1>5 DEF T!CommitGroup, TimelineJob
    <2>2. held \in T!Group BY <1>1, <2>1
    <2>3. /\ group' = [group EXCEPT ![i] = to]
          /\ T!End(p) /\ UNCHANGED <<connection, event, said, account, reconciled, edited>>
      BY <1>5 DEF T!CommitGroup
    <2> HIDE DEF held, next
    <2>4. T!SaveRelationship(held, next) \in T!Group
      <3> DEFINE once == [held EXCEPT !.state = next.state]
      <3>1. once \in T!Group BY <2>1, <2>2 DEF T!Group
      <3>2. T!SaveRelationship(held, next) = [once EXCEPT !.by = next.by] BY DEF T!SaveRelationship
      <3> HIDE DEF once
      <3> QED BY <2>1, <3>1, <3>2 DEF T!Group
    <2>5. to \in T!Group BY <2>1, <2>4 DEF T!SaveCluster
    <2> HIDE DEF to
    <2>6. group' \in Seq(T!Group) /\ DOMAIN group' = DOMAIN group BY <1>1, <2>1, <2>3, <2>5
    <2>7. HistoryIsKept' /\ AccountsAreKept'
      BY <2>3 DEF TimelineInv, HistoryIsKept, AccountsAreKept
    <2>8. RowsStay BY <2>3, <2>6 DEF RowsStay
    <2> QED BY <1>1, <1>2, <2>3, <2>6, <2>7, <2>8, TimelineMoves DEF T!End
  <1> QED BY <1>3, <1>4, <1>5

\* What is decided of accounts names one there is.
LEMMA TimelineOfReconciliation ==
    ASSUME TimelineInv, NEW p \in Chroniclers, NEW e \in DOMAIN event, NEW decision \in T!Decisions,
           NEW a \in 0 .. Len(account), T!reconcileTimelineEventAccounts(p, e, decision, a)
    PROVE  TimelineInv'
  <1> DEFINE d == [decision |-> decision, account |-> a]
  <1>1. /\ reconciled \in Seq(Decided) /\ account \in Seq(1 .. MaxEvents) /\ Len(reconciled) = Len(event)
        /\ \A k \in DOMAIN reconciled : reconciled[k].account <= Len(account)
        /\ event \in Seq(T!Event) /\ group \in Seq(T!Group)
    BY DEF TimelineInv, HistoryIsKept, AccountsAreKept
  <1>2. d \in Decided /\ d.account = a BY <1>1 DEF Decided
  <1> HIDE DEF d
  <1>3. /\ reconciled' = [reconciled EXCEPT ![e] = d]
        /\ UNCHANGED <<connection, event, said, account, group, inTimeline, edited>>
    BY DEF T!reconcileTimelineEventAccounts, T!Reconcile, T!CreateReconciliation, d
  <1>4. e \in DOMAIN reconciled BY <1>1
  <1>5. /\ reconciled' \in Seq(Decided) /\ Len(reconciled') = Len(reconciled)
        /\ DOMAIN reconciled' = DOMAIN reconciled
        /\ reconciled'[e] = d /\ \A k \in DOMAIN reconciled : k # e => reconciled'[k] = reconciled[k]
    BY <1>1, <1>2, <1>3, <1>4
  <1>6. \A k \in DOMAIN reconciled' : reconciled'[k].account <= Len(account)
    <2>1. a <= Len(account) BY <1>1
    <2>2. ASSUME NEW k \in DOMAIN reconciled, k # e PROVE reconciled'[k].account <= Len(account)
      <3>1. reconciled'[k] = reconciled[k] BY <1>5, <2>2
      <3> QED BY <1>1, <3>1
    <2>3. reconciled'[e].account <= Len(account) BY <1>2, <1>5, <2>1
    <2> QED BY <1>5, <2>2, <2>3
  <1>7. AccountsAreKept' BY <1>1, <1>3, <1>5, <1>6 DEF AccountsAreKept
  <1>8. HistoryIsKept' /\ RowsStay BY <1>3 DEF TimelineInv, HistoryIsKept, RowsStay
  <1> QED BY <1>1, <1>3, <1>7, <1>8, TimelineRests

\* Who reads writes nothing, and who restricts a source or edits a record writes
\* no row of the timeline.
LEMMA TimelineOfReads ==
    ASSUME TimelineInv, SourcesAreKept, T!Looks \/ T!Restricts
    PROVE  TimelineInv' /\ SourcesAreKept'
  <1> USE DEF T!rows
  <1>1. /\ UNCHANGED <<connection, event, said, account, reconciled, group, inTimeline>>
        /\ edited' = edited \/ (edited' = edited + 1 /\ edited < MaxEdited)
        /\ \/ UNCHANGED <<entryCites, guarded>>
           \/ \E os \in SUBSET Datable :
                 \/ guarded' = os /\ entryCites' = entryCites
                 \/ \E r \in Entries : entryCites' = [entryCites EXCEPT ![r] = os] /\ guarded' = guarded
    <2>1. CASE T!Restricts
      BY <2>1 DEF T!Restricts, T!SetSensitivity, T!EditRecord, T!Counted
    <2>2. CASE T!Looks
      BY <2>2 DEF T!Looks, T!LookAtConnections, T!LookAtEvents, T!LookAtRecord,
         T!readResearchRecordNeighborhood
    <2> QED BY <2>1, <2>2
  <1>2. SourcesAreKept' BY <1>1 DEF SourcesAreKept
  <1>3. edited' = edited \/ edited' \in 0 .. MaxEdited
    BY <1>1, TimelineAssumption DEF TimelineInv
  <1>4. HistoryIsKept' /\ AccountsAreKept' /\ RowsStay /\ group' \in Seq(T!Group)
    BY <1>1 DEF TimelineInv, HistoryIsKept, AccountsAreKept, RowsStay
  <1> QED BY <1>1, <1>2, <1>3, <1>4, TimelineRests

LEMMA SourcesOfWrites ==
    ASSUME T!Writes PROVE UNCHANGED <<entryCites, guarded>>
  <1> USE DEF T!reads
  <1>1. ASSUME NEW p \in Chroniclers, NEW r \in Entries, NEW s \in Entries, NEW os \in SUBSET Datable,
               T!createResearchConnection(p, r, s, os)
        PROVE  UNCHANGED <<entryCites, guarded>>
    BY <1>1 DEF T!createResearchConnection, T!Create
  <1>2. ASSUME NEW p \in Chroniclers, NEW c \in DOMAIN connection, NEW os \in SUBSET Datable,
               NEW against \in SUBSET Datable, T!editResearchConnection(p, c, os, against)
        PROVE  UNCHANGED <<entryCites, guarded>>
    BY <1>2 DEF T!editResearchConnection, T!Edit
  <1>3. ASSUME NEW p \in Chroniclers, NEW rs \in SUBSET Entries, NEW os \in SUBSET Datable,
               \/ T!createTimelineEvent(p, rs, os)
               \/ \E e \in DOMAIN event : T!editTimelineEvent(p, e, rs, os)
        PROVE  UNCHANGED <<entryCites, guarded>>
    BY <1>3 DEF T!createTimelineEvent, T!CreateEvent, T!editTimelineEvent, T!EditEvent
  <1>4. ASSUME NEW g, T!CreateGroup(g) PROVE UNCHANGED <<entryCites, guarded>>
    BY <1>4 DEF T!CreateGroup
  <1>5. ASSUME NEW p \in Chroniclers, NEW g, NEW next, T!AskGroup(p, g, next)
        PROVE  UNCHANGED <<entryCites, guarded>>
    BY <1>5 DEF T!AskGroup
  <1>6. ASSUME NEW p \in Chroniclers, NEW e \in DOMAIN event, NEW f \in DOMAIN event,
               \/ T!createTimelineEventAccount(p, e)
               \/ T!createTimelineEventRelationship(p, e, f)
               \/ T!createTimelineEventCluster(p, <<e, f>>)
               \/ \E g \in DOMAIN group : T!editTimelineEventCluster(p, g, <<e, f>>)
               \/ \E decision \in T!Decisions, a \in 0 .. Len(account) :
                     T!reconcileTimelineEventAccounts(p, e, decision, a)
        PROVE  UNCHANGED <<entryCites, guarded>>
    <2>1. CASE T!createTimelineEventAccount(p, e)
      BY <2>1 DEF T!createTimelineEventAccount, T!CreateAccount
    <2>2. CASE T!createTimelineEventRelationship(p, e, f) \/ T!createTimelineEventCluster(p, <<e, f>>)
      BY <1>4, <2>2 DEF T!createTimelineEventRelationship, T!createTimelineEventCluster
    <2>3. ASSUME NEW g \in DOMAIN group, T!editTimelineEventCluster(p, g, <<e, f>>)
          PROVE  UNCHANGED <<entryCites, guarded>>
      BY <1>5, <2>3 DEF T!editTimelineEventCluster
    <2>4. ASSUME NEW decision \in T!Decisions, NEW a \in 0 .. Len(account),
                 T!reconcileTimelineEventAccounts(p, e, decision, a)
          PROVE  UNCHANGED <<entryCites, guarded>>
      BY <2>4 DEF T!reconcileTimelineEventAccounts, T!Reconcile
    <2> QED BY <1>6, <2>1, <2>2, <2>3, <2>4
  <1>7. ASSUME NEW p \in Chroniclers, NEW g \in DOMAIN group, NEW decision \in T!GroupStates,
               \/ T!reviewTimelineEventCluster(p, g, decision)
               \/ T!reviewTimelineEventRelationship(p, g, decision)
        PROVE  UNCHANGED <<entryCites, guarded>>
    BY <1>5, <1>7 DEF T!reviewTimelineEventCluster, T!reviewTimelineEventRelationship
  <1>8. ASSUME NEW p \in Chroniclers, T!CommitConnection(p) \/ T!CommitEvent(p) \/ T!CommitGroup(p)
        PROVE  UNCHANGED <<entryCites, guarded>>
    BY <1>8 DEF T!CommitConnection, T!CommitEvent, T!CommitGroup
  <1> QED BY <1>1, <1>2, <1>3, <1>6, <1>7, <1>8 DEF T!Writes

LEMMA TimelineLast ==
    ASSUME TimelineInv, SourcesAreKept, [AuthoringNext]_all PROVE TimelineInv' /\ SourcesAreKept'
  <1>1. T!Writes \/ T!Looks \/ T!Restricts \/ UNCHANGED dating BY DEF AuthoringNext, all
  <1>2. CASE UNCHANGED dating
    <2>1. HistoryIsKept' /\ AccountsAreKept' /\ RowsStay /\ group' \in Seq(T!Group)
      BY <1>2 DEF dating, TimelineInv, HistoryIsKept, AccountsAreKept, RowsStay
    <2>2. SourcesAreKept' BY <1>2 DEF dating, SourcesAreKept
    <2> QED BY <1>2, <2>1, <2>2, TimelineRests DEF dating
  <1>3. ASSUME NEW p \in Chroniclers,
               \/ \E r, s \in Entries, os \in SUBSET Datable : T!createResearchConnection(p, r, s, os)
               \/ \E rs \in SUBSET Entries, os \in SUBSET Datable : T!createTimelineEvent(p, rs, os)
               \/ \E e, f \in DOMAIN event :
                     \/ T!createTimelineEventAccount(p, e) \/ T!createTimelineEventRelationship(p, e, f)
                     \/ T!createTimelineEventCluster(p, <<e, f>>)
        PROVE  TimelineInv'
    BY <1>3, TimelineOfCreation
  <1>4. ASSUME NEW p \in Chroniclers,
               \/ \E c \in DOMAIN connection, os, against \in SUBSET Datable :
                     T!editResearchConnection(p, c, os, against)
               \/ \E rs \in SUBSET Entries, os \in SUBSET Datable, e \in DOMAIN event :
                     T!editTimelineEvent(p, e, rs, os)
               \/ \E e, f \in DOMAIN event, g \in DOMAIN group : T!editTimelineEventCluster(p, g, <<e, f>>)
               \/ \E g \in DOMAIN group, decision \in T!GroupStates :
                     \/ T!reviewTimelineEventCluster(p, g, decision)
                     \/ T!reviewTimelineEventRelationship(p, g, decision)
        PROVE  TimelineInv'
    BY <1>4, TimelineOfAsks
  <1>5. CASE T!Writes
    <2>1. SourcesAreKept' BY <1>5, SourcesOfWrites DEF SourcesAreKept
    <2>2. TimelineInv'
      BY <1>3, <1>4, <1>5, TimelineOfReconciliation, TimelineOfCommits DEF T!Writes
    <2> QED BY <2>1, <2>2
  <1> QED BY <1>1, <1>2, <1>5, TimelineOfReads
-----------------------------------------------------------------------------
(* The comparison of evidence.                                             *)
(*                                                                         *)
(* A row is of two observations in one order, and no two rows are of the   *)
(* same two: so the rows within a cluster are as many as the pairs that    *)
(* were compared, and all of them when they are as many as the pairs.      *)

RelationsAreOfPairs ==
    /\ relation \subseteq [left : recorded, right : recorded, kind : V!Kinds]
    /\ \A r \in relation : r.left < r.right
    /\ \A r, s \in relation : r.left = s.left /\ r.right = s.right => r = s
ReviewInv ==
    /\ V!TypeOK /\ RelationsAreOfPairs
    /\ V!ShownIsRecorded

\* A row each for the pairs that are compared, and no more rows than pairs.
LEMMA RowsAreThePairs ==
    ASSUME ReviewInv, NEW c \in Groupings
    PROVE  LET os == cluster[c]
               covered == {{r.left, r.right} : r \in V!Within(os)}
           IN /\ IsFiniteSet(os) /\ covered \subseteq PairsOf(os)
              /\ Cardinality(V!Within(os)) = Cardinality(covered)
              /\ Cardinality(covered) \in Nat
              /\ Cardinality(covered) <= (Cardinality(os) * (Cardinality(os) - 1)) \div 2
  <1> DEFINE os == cluster[c]
             within == V!Within(os)
             covered == {{r.left, r.right} : r \in within}
             f == [r \in within |-> {r.left, r.right}]
  <1>1. os \subseteq recorded /\ recorded \subseteq Passages BY DEF ReviewInv, V!TypeOK
  <1>2. IsFiniteSet(os) BY <1>1, ReviewAssumption, FS_Subset
  <1>3. ASSUME NEW r \in within
        PROVE  /\ r \in relation /\ r.left \in os /\ r.right \in os
               /\ r.left \in Nat /\ r.right \in Nat /\ r.left < r.right
    <2>1. r \in relation /\ {r.left, r.right} \subseteq os BY DEF V!Within
    <2>2. os \subseteq Nat BY <1>1, ReviewAssumption
    <2> QED BY <2>1, <2>2 DEF ReviewInv, RelationsAreOfPairs
  <1>4. covered \subseteq PairsOf(os)
    <2>1. ASSUME NEW r \in within PROVE {r.left, r.right} \in PairsOf(os)
      <3>1. r.left \in os /\ r.right \in os /\ r.left # r.right BY <1>3
      <3> QED BY <3>1 DEF PairsOf
    <2> QED BY <2>1
  <1>5. f \in Surjection(within, covered) BY DEF Surjection
  <1>6. ASSUME NEW r \in within, NEW s \in within, f[r] = f[s] PROVE r = s
    <2>1. {r.left, r.right} = {s.left, s.right} BY <1>6
    <2>2. r.left = s.left /\ r.right = s.right
      <3>1. \/ r.left = s.left /\ r.right = s.right
            \/ r.left = s.right /\ r.right = s.left
        BY <2>1
      <3> QED BY <1>3, <3>1
    <2> QED BY <1>3, <2>2 DEF ReviewInv, RelationsAreOfPairs
  <1>7. f \in Injection(within, covered) BY <1>5, <1>6 DEF Injection, IsInjective, Surjection
  <1>8. /\ IsFiniteSet(PairsOf(os)) /\ Cardinality(PairsOf(os)) \in Nat
        /\ 2 * Cardinality(PairsOf(os)) = Cardinality(os) * (Cardinality(os) - 1)
    BY <1>2, NumberOfPairs, FS_CardinalityType
  <1> HIDE DEF f, covered, within
  <1>9. /\ IsFiniteSet(covered) /\ Cardinality(covered) \in Nat
        /\ Cardinality(covered) <= Cardinality(PairsOf(os))
    BY <1>4, <1>8, FS_Subset, FS_CardinalityType
  <1>10. IsFiniteSet(within) BY <1>7, <1>9, FS_Injection
  <1>11. Cardinality(within) = Cardinality(covered) BY <1>5, <1>7, <1>10, FS_Surjection
  <1>12. \A m \in Nat : (2 * m) \div 2 = m OBVIOUS
  <1>13. Cardinality(covered) <= (Cardinality(os) * (Cardinality(os) - 1)) \div 2
    BY <1>8, <1>9, <1>12
  <1> QED BY <1>2, <1>4, <1>9, <1>11, <1>13 DEF covered, within

LEMMA CoveredMeansCompared == ASSUME ReviewInv PROVE V!CoveredIsCompared
  <1> SUFFICES ASSUME NEW c \in Groupings
               PROVE  LET cov == V!ClusterCoverage(c)
                          compared == {q \in cluster[c] \X cluster[c] :
                                         \E r \in relation : {r.left, r.right} = {q[1], q[2]}} IN
                      /\ cov.reviewed + cov.unreviewed = cov.possible
                      /\ cov.status = "covered" =>
                            \A a, b \in cluster[c] : a # b => <<a, b>> \in compared
    BY DEF V!CoveredIsCompared
  <1> DEFINE os == cluster[c]
             cov == V!ClusterCoverage(c)
             covered == {{r.left, r.right} : r \in V!Within(os)}
             possible == (Cardinality(os) * (Cardinality(os) - 1)) \div 2
  <1>1. /\ IsFiniteSet(os) /\ covered \subseteq PairsOf(os)
        /\ Cardinality(V!Within(os)) = Cardinality(covered) /\ Cardinality(covered) \in Nat
        /\ Cardinality(covered) <= possible
    BY RowsAreThePairs
  <1>2. Cardinality(os) \in Nat BY <1>1, FS_CardinalityType
  <1>3. \A S : V!Cardinality(S) = Cardinality(S) BY DEF V!Cardinality, Cardinality
  <1>4. possible \in Nat
    <2>1. IsFiniteSet(PairsOf(os)) /\ Cardinality(PairsOf(os)) \in Nat
          /\ 2 * Cardinality(PairsOf(os)) = Cardinality(os) * (Cardinality(os) - 1)
      BY <1>1, NumberOfPairs, FS_CardinalityType
    <2>2. \A m \in Nat : (2 * m) \div 2 = m OBVIOUS
    <2> QED BY <2>1, <2>2
  <1>5. Cardinality(os) * (IF Cardinality(os) > 0 THEN Cardinality(os) - 1 ELSE 0)
          = Cardinality(os) * (Cardinality(os) - 1)
    BY <1>2
  <1> DEFINE many == Cardinality(covered)
  <1>6. /\ cov.possible = possible /\ cov.reviewed = many
        /\ cov.unreviewed = IF possible > many THEN possible - many ELSE 0
        /\ cov.status = "covered" => ~(many < possible)
    BY <1>1, <1>3, <1>5 DEF V!ClusterCoverage
  <1>7. cov.reviewed + cov.unreviewed = cov.possible
    <2> HIDE DEF possible, many, cov
    <2>1. many \in Nat /\ many <= possible BY <1>1 DEF many
    <2> QED BY <1>4, <1>6, <2>1
  <1>8. ASSUME cov.status = "covered", NEW a \in os, NEW b \in os, a # b
        PROVE  \E r \in relation : {r.left, r.right} = {a, b}
    <2>1. ~(many < possible) BY <1>6, <1>8
    <2> HIDE DEF cov, os
    <2>2. covered = PairsOf(os)
      <3> HIDE DEF covered
      <3> QED BY <1>1, <2>1, CoveredIsAllPairs
    <2>3. {a, b} \in PairsOf(os) BY <1>8 DEF PairsOf
    <2>4. PICK r \in V!Within(os) : {r.left, r.right} = {a, b} BY <2>2, <2>3
    <2> QED BY <2>4 DEF V!Within
  <1> HIDE DEF cov
  <1> QED BY <1>7, <1>8 DEF cov

LEMMA ReviewBegins == ASSUME AuthoringInit PROVE ReviewInv
  <1>1. V!Init BY DEF AuthoringInit
  <1>2. V!TypeOK /\ V!ShownIsRecorded
    BY <1>1, ReviewAssumption DEF V!Init, V!TypeOK, V!ShownIsRecorded, V!NoCluster, V!Nothing
  <1>3. RelationsAreOfPairs BY <1>1 DEF V!Init, RelationsAreOfPairs
  <1> QED BY <1>2, <1>3 DEF ReviewInv

LEMMA ReviewOfRecording ==
    ASSUME ReviewInv, NEW o \in Passages, V!Record(o) PROVE ReviewInv'
  <1> USE DEF V!assessment, V!sharing
  <1>1. recorded' = recorded \cup {o} BY DEF V!Record
  <1>2. UNCHANGED <<relation, sourceLinks, cluster, share, reading, accesses, shown>>
    BY DEF V!Record
  <1>3. recorded' \subseteq Passages BY <1>1 DEF ReviewInv, V!TypeOK
  <1>4. cluster' \in [Groupings -> SUBSET recorded'] BY <1>1, <1>2 DEF ReviewInv, V!TypeOK
  <1>5. V!TypeOK' BY <1>1, <1>2, <1>3, <1>4 DEF ReviewInv, V!TypeOK
  <1>6. RelationsAreOfPairs' BY <1>1, <1>2 DEF ReviewInv, RelationsAreOfPairs
  <1> QED BY <1>2, <1>5, <1>6 DEF ReviewInv, V!ShownIsRecorded

\* A row about observations that are recorded, a cluster of them.
LEMMA ReviewOfEvidence ==
    ASSUME ReviewInv, NEW p \in Analysts,
           \/ \E a, b \in Passages :
                 \/ \E kind \in V!Kinds : V!setEvidenceRelation(p, a, b, kind)
                 \/ V!setEvidenceSourceLink(p, a, b)
           \/ \E c \in Groupings, os \in SUBSET Passages :
                 V!createEvidenceCluster(p, c, os) \/ V!editEvidenceCluster(p, c, os)
    PROVE  ReviewInv'
  <1> USE DEF V!assessment, V!sharing
  <1>2. ASSUME NEW a \in Passages, NEW b \in Passages, NEW kind \in V!Kinds,
               V!setEvidenceRelation(p, a, b, kind)
        PROVE  ReviewInv'
    <2> DEFINE pair == V!Ordered(a, b)
               r == [left |-> pair[1], right |-> pair[2], kind |-> kind]
    <2>1. /\ a # b /\ {a, b} \subseteq recorded
          /\ relation' = {s \in relation : <<s.left, s.right>> # pair} \cup {r}
          /\ UNCHANGED <<recorded, sourceLinks, cluster, share, reading, accesses, shown>>
      BY <1>2 DEF V!setEvidenceRelation, V!SetRelation, V!Upsert
    <2>2. /\ pair = <<pair[1], pair[2]>> /\ pair[1] \in recorded /\ pair[2] \in recorded
          /\ pair[1] < pair[2]
      BY <2>1, ReviewAssumption DEF V!Ordered
    <2> HIDE DEF pair
    <2>3. /\ r \in [left : recorded, right : recorded, kind : V!Kinds] /\ r.left < r.right
          /\ <<r.left, r.right>> = pair
      BY <2>2
    <2> HIDE DEF r
    <2>4. ASSUME NEW s \in relation' PROVE s = r \/ (s \in relation /\ <<s.left, s.right>> # pair)
      BY <2>1
    <2>5. RelationsAreOfPairs'
      <3>1. relation' \subseteq [left : recorded, right : recorded, kind : V!Kinds]
        BY <2>3, <2>4 DEF ReviewInv, RelationsAreOfPairs
      <3>2. \A s \in relation' : s.left < s.right
        BY <2>3, <2>4 DEF ReviewInv, RelationsAreOfPairs
      <3>3. \A s, t \in relation' : s.left = t.left /\ s.right = t.right => s = t
        BY <2>3, <2>4 DEF ReviewInv, RelationsAreOfPairs
      <3> QED BY <3>1, <3>2, <3>3, <2>1 DEF RelationsAreOfPairs
    <2>6. \A s \in relation' : {s.left, s.right} \subseteq recorded /\ s.left # s.right /\ s.kind \in V!Kinds
      <3>1. ASSUME NEW s \in relation'
            PROVE  {s.left, s.right} \subseteq recorded /\ s.left # s.right /\ s.kind \in V!Kinds
        <4>1. s \in [left : recorded, right : recorded, kind : V!Kinds] /\ s.left < s.right
          BY <2>1, <2>5 DEF RelationsAreOfPairs
        <4>2. s.left \in Nat /\ s.right \in Nat
          BY <4>1, ReviewAssumption DEF ReviewInv, V!TypeOK
        <4> QED BY <4>1, <4>2
      <3> QED BY <3>1
    <2>7. V!TypeOK' BY <2>1, <2>6 DEF ReviewInv, V!TypeOK
    <2> QED BY <2>1, <2>5, <2>7 DEF ReviewInv, V!ShownIsRecorded
  <1>3. ASSUME NEW a \in Passages, NEW b \in Passages, V!setEvidenceSourceLink(p, a, b) PROVE ReviewInv'
    <2>1. /\ a # b /\ {a, b} \subseteq recorded /\ sourceLinks' = sourceLinks \cup {<<a, b>>}
          /\ UNCHANGED <<recorded, relation, cluster, share, reading, accesses, shown>>
      BY <1>3 DEF V!setEvidenceSourceLink, V!SetSourceLink, V!NewSourceLink, V!UpsertSourceLink
    <2>2. V!TypeOK' BY <2>1 DEF ReviewInv, V!TypeOK
    <2>3. RelationsAreOfPairs' BY <2>1 DEF ReviewInv, RelationsAreOfPairs
    <2> QED BY <2>1, <2>2, <2>3 DEF ReviewInv, V!ShownIsRecorded
  <1>4. ASSUME NEW c \in Groupings, NEW os \in SUBSET Passages,
               V!createEvidenceCluster(p, c, os) \/ V!editEvidenceCluster(p, c, os)
        PROVE  ReviewInv'
    <2>1. /\ os \subseteq recorded /\ cluster' = [cluster EXCEPT ![c] = os]
          /\ UNCHANGED <<recorded, relation, sourceLinks, share, reading, accesses, shown>>
      BY <1>4 DEF V!createEvidenceCluster, V!editEvidenceCluster, V!CreateCluster, V!UpdateCluster,
         V!NewCluster, V!EditedCluster, V!ValidCluster
    <2>2. V!TypeOK' BY <2>1 DEF ReviewInv, V!TypeOK
    <2>3. RelationsAreOfPairs' BY <2>1 DEF ReviewInv, RelationsAreOfPairs
    <2> QED BY <2>1, <2>2, <2>3 DEF ReviewInv, V!ShownIsRecorded
  <1> QED BY <1>2, <1>3, <1>4

\* A share, and a citation that is opened by one.
LEMMA ReviewOfShares ==
    ASSUME ReviewInv, NEW p \in Analysts,
           \/ \E o \in Passages : \/ V!createCitationShare(p, o) \/ V!revokeCitationShare(p, o)
                                  \/ V!readSharedCitation(p, o)
           \/ V!RecordCitationShareAccess(p)
    PROVE  ReviewInv'
  <1> USE DEF V!assessment, V!sharing
  <1>1. UNCHANGED <<recorded, relation, sourceLinks, cluster>>
    BY DEF V!createCitationShare, V!CreateCitationShare, V!revokeCitationShare, V!RevokeCitationShare,
       V!readSharedCitation, V!RecordCitationShareAccess
  <1>2. RelationsAreOfPairs' BY <1>1 DEF ReviewInv, RelationsAreOfPairs
  <1>3. ASSUME NEW o \in Passages,
               V!createCitationShare(p, o) \/ V!revokeCitationShare(p, o) \/ V!readSharedCitation(p, o)
        PROVE  ReviewInv'
    <2>1. V!TypeOK'
      BY <1>1, <1>3 DEF V!createCitationShare, V!CreateCitationShare, V!revokeCitationShare,
         V!RevokeCitationShare, V!readSharedCitation, ReviewInv, V!TypeOK
    <2>2. UNCHANGED <<accesses, shown>>
      BY <1>3 DEF V!createCitationShare, V!CreateCitationShare, V!revokeCitationShare,
         V!RevokeCitationShare, V!readSharedCitation
    <2> QED BY <1>2, <2>1, <2>2 DEF ReviewInv, V!ShownIsRecorded
  <1>4. CASE V!RecordCitationShareAccess(p)
    <2>1. /\ accesses < MaxReads /\ accesses' = accesses + 1
          /\ shown' = shown \/ shown' = shown + 1
          /\ reading' = [reading EXCEPT ![p] = V!Nothing] /\ UNCHANGED share
      <3>1. PICK answered \in {0, 1} : shown' = shown + answered
        BY <1>4 DEF V!RecordCitationShareAccess
      <3>2. shown \in Nat BY DEF ReviewInv, V!TypeOK
      <3> QED BY <1>4, <3>1, <3>2 DEF V!RecordCitationShareAccess
    <2>2. /\ accesses \in 0 .. MaxReads /\ shown \in 0 .. MaxReads /\ shown <= accesses /\ MaxReads \in Nat
      BY ReviewAssumption DEF ReviewInv, V!TypeOK, V!ShownIsRecorded
    <2>3. accesses' \in 0 .. MaxReads /\ shown' \in 0 .. MaxReads /\ shown' <= accesses'
      BY <2>1, <2>2
    <2>4. V!TypeOK' BY <1>1, <2>1, <2>3 DEF ReviewInv, V!TypeOK
    <2> QED BY <1>2, <2>3, <2>4 DEF ReviewInv, V!ShownIsRecorded
  <1> QED BY <1>3, <1>4

LEMMA ReviewLast ==
    ASSUME ReviewInv, [AuthoringNext]_all PROVE ReviewInv'
  <1>1. V!Next \/ UNCHANGED reviewing BY DEF AuthoringNext, all
  <1>2. CASE UNCHANGED reviewing
    BY <1>2 DEF reviewing, ReviewInv, RelationsAreOfPairs, V!TypeOK, V!ShownIsRecorded
  <1>3. ASSUME NEW o \in Passages, V!Record(o) PROVE ReviewInv' BY <1>3, ReviewOfRecording
  <1>4. ASSUME NEW p \in Analysts,
               \/ \E a, b \in Passages :
                     \/ \E kind \in V!Kinds : V!setEvidenceRelation(p, a, b, kind)
                     \/ V!setEvidenceSourceLink(p, a, b)
               \/ \E c \in Groupings, os \in SUBSET Passages :
                     V!createEvidenceCluster(p, c, os) \/ V!editEvidenceCluster(p, c, os)
        PROVE  ReviewInv'
    BY <1>4, ReviewOfEvidence
  <1>5. ASSUME NEW p \in Analysts,
               \/ \E o \in Passages : \/ V!createCitationShare(p, o) \/ V!revokeCitationShare(p, o)
                                      \/ V!readSharedCitation(p, o)
               \/ V!RecordCitationShareAccess(p)
        PROVE  ReviewInv'
    BY <1>5, ReviewOfShares
  <1> QED BY <1>1, <1>2, <1>3, <1>4, <1>5 DEF V!Next

\* Whoever compares, edits, merges or dates at the same time: a cluster called
\* covered has every two of its observations compared, no citation is shown
\* without its access on record; a record is the alias of one standing
\* resolution and a member of one standing set at most; and the newest
\* revision of a connection or an event is the row.
THEOREM RecordsHold == AuthoringSpec => []RecordsAreWhole
  <1>1. ReviewInv /\ ResearchInv /\ TimelineInv /\ SourcesAreKept => RecordsAreWhole
    BY CoveredMeansCompared, ResearchTypeOK, TimelineTypeOK DEF ReviewInv, RecordsAreWhole
  <1> QED BY <1>1, ReviewBegins, ReviewLast, ResearchBegins, ResearchLast, TimelineBegins, TimelineLast,
         PTL DEF AuthoringSpec
=============================================================================
