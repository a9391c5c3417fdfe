-------------------------------- MODULE Watch --------------------------------
(***************************************************************************)
(* The watch of one referenced source: people configure it, and it is run  *)
(* by hand or by a worker that claims it when it is due and holds a lease  *)
(* of it.  A run reads the page with no transaction open, keeps a capture  *)
(* if the bytes are not the latest ones kept, and records itself and its   *)
(* alert by writing the whole row of the watch that it read before.        *)
(*                                                                         *)
(* A request may end anywhere (Die).  Time is a small counter; what the    *)
(* code says of it is that the least interval exceeds the lease.           *)
(***************************************************************************)
EXTENDS Naturals, Sequences, FiniteSets

CONSTANTS
    Requests,     \* each configures, claims or runs the watch once
    Pages,        \* what the address may answer
    MaxTime, MaxDeaths

VARIABLES
    now,
    page,         \* what the address answers
    purged,       \* whether the source is
    captures,     \* the captures kept: their bytes, and the run that kept them
    watch,        \* the row
    alerts,       \* the alerts of runs
    job,          \* job[r]: where the request is and what it holds
    deaths,
    wanted,       \* what was last configured (history)
    stale,        \* requests that hold a row that was written since (history)
    crossed       \* one of them wrote it (history)

vars == <<now, page, purged, captures, watch, alerts, job, deaths, wanted, stale, crossed>>
world == <<now, page, purged>>

None == "nobody"
Never == 0
Lease == 1        \* two minutes, and the least interval is fifteen
Interval == 2

Statuses == {"never", "changed", "unchanged", "failed"}
Idle == [step |-> "idle", lease |-> None, until |-> Never]
Running == {"begin", "fetching", "looking", "capturing", "reading", "writing"}

TypeOK ==
    /\ now \in 0 .. MaxTime /\ page \in Pages /\ purged \in BOOLEAN
    /\ \A i \in DOMAIN captures : captures[i].bytes \in Pages /\ captures[i].by \in Requests
    /\ watch.enabled \in BOOLEAN /\ watch.status \in Statuses
    /\ watch.lease \in Requests \cup {None} /\ (watch.lease = None <=> watch.until = Never)
    /\ watch.enabled <=> watch.next # Never
    /\ \A r \in Requests : job[r].step \in Running \cup {"idle", "configuring", "told", "lost", "done"}
    /\ deaths \in 0 .. MaxDeaths /\ wanted \in BOOLEAN
    /\ stale \subseteq Requests /\ crossed \in BOOLEAN

NewWatch(enabled, at) ==
    [enabled |-> enabled, next |-> IF enabled THEN at + Interval ELSE Never,
     status |-> "never", capture |-> Never, lease |-> None, until |-> Never]

Init ==
    /\ now = 0 /\ page \in Pages /\ purged = FALSE
    /\ captures = <<>> /\ alerts = {}
    /\ watch = NewWatch(TRUE, 0) /\ wanted = TRUE
    /\ job = [r \in Requests |-> Idle]
    /\ deaths = 0 /\ stale = {} /\ crossed = FALSE

At(r, step) == job[r].step = step
Goes(r, step) == job' = [job EXCEPT ![r].step = step]
EndsAs(r, step) == job' = [job EXCEPT ![r] = [Idle EXCEPT !.step = step]]

-----------------------------------------------------------------------------
(* Configuring it: the source and the row are read, and then the row is    *)
(* written whole.                                                          *)

WatchBySource == watch
Watchable == ~purged
Asks(r, on) == [step |-> "configuring", lease |-> None, until |-> Never,
                held |-> WatchBySource, at |-> now, on |-> on]
setSourceWatch(r, on) ==
    /\ At(r, "idle") /\ Watchable
    /\ job' = [job EXCEPT ![r] = Asks(r, on)]
    /\ UNCHANGED <<world, captures, watch, alerts, deaths, wanted, stale, crossed>>

\* Mutant: a configuration leaves the next run when it is.
ConfiguredInPlace(row, on, at) ==
    [row EXCEPT !.enabled = on,
                !.next = IF ~on THEN Never ELSE IF row.enabled THEN @ ELSE at + Interval,
                !.lease = None, !.until = Never]

Configured(row, on, at) ==
    [row EXCEPT !.enabled = on, !.next = IF on THEN at + Interval ELSE Never,
                !.lease = None, !.until = Never]

\* Whoever holds the row holds an old one once it is written.
Holders == {r \in Requests : At(r, "configuring") \/ At(r, "writing")}
Writes(r, row) == watch' = row /\ stale' = Holders \ {r}
UpsertWatch(r, row) == Writes(r, row) /\ crossed' = (crossed \/ r \in stale)

ConfigureWatch(r) ==
    /\ At(r, "configuring")
    /\ UpsertWatch(r, Configured(job[r].held, job[r].on, job[r].at))
    /\ wanted' = job[r].on
    /\ EndsAs(r, "done")
    /\ UNCHANGED <<world, captures, alerts, deaths>>

-----------------------------------------------------------------------------
(* Running it.                                                             *)

Due == watch.enabled /\ watch.next <= now /\ (watch.lease = None \/ watch.until <= now)
ClaimDueWatch(r) ==
    /\ Due
    /\ Writes(r, [watch EXCEPT !.lease = r, !.until = now + Lease])
runDueSourceWatch(r) ==
    /\ At(r, "idle") /\ ClaimDueWatch(r)
    /\ job' = [job EXCEPT ![r] = [step |-> "begin", lease |-> r, until |-> now + Lease]]
    /\ UNCHANGED <<world, captures, alerts, deaths, wanted, crossed>>

runSourceWatch(r) ==
    /\ At(r, "idle")
    /\ Goes(r, "begin")
    /\ UNCHANGED <<world, captures, watch, alerts, deaths, wanted, stale, crossed>>

\* A lease another holds stands in the way, one that has passed as well.
MayRun(r) == WatchBySource.enabled /\ WatchBySource.lease \in {None, job[r].lease}
Begin(r) ==
    /\ At(r, "begin")
    /\ \/ MayRun(r) /\ Goes(r, "fetching")
       \/ ~MayRun(r) /\ EndsAs(r, "done")
    /\ UNCHANGED <<world, captures, watch, alerts, deaths, wanted, stale, crossed>>

Recording(r, status, capture) ==
    job' = [job EXCEPT ![r] = [step |-> "reading", lease |-> job[r].lease, until |-> job[r].until,
                               status |-> status, capture |-> capture]]
Fails(r) == Recording(r, "failed", Never)

\* It answers with what is there, or with nothing that may be kept: an
\* error, another status, a type that is not kept, or too much.
Answers == {page}
Fetch(r) ==
    /\ At(r, "fetching")
    /\ \/ \E bytes \in Answers : job' = [job EXCEPT ![r] = [step |-> "looking", lease |-> job[r].lease,
                                     until |-> job[r].until, bytes |-> bytes]]
       \/ Fails(r)
    /\ UNCHANGED <<world, captures, watch, alerts, deaths, wanted, stale, crossed>>

\* The latest capture is read after the page is.
IsLatest(bytes) == captures # <<>> /\ captures[Len(captures)].bytes = bytes
Look(r) ==
    /\ At(r, "looking")
    /\ \/ IsLatest(job[r].bytes) /\ Recording(r, "unchanged", Never)
       \/ /\ ~IsLatest(job[r].bytes)
          /\ job' = [job EXCEPT ![r] = [step |-> "capturing", lease |-> job[r].lease,
                                        until |-> job[r].until, bytes |-> job[r].bytes,
                                        looked |-> Len(captures)]]
    /\ UNCHANGED <<world, captures, watch, alerts, deaths, wanted, stale, crossed>>

\* A transaction of its own, which a purge, a rule against twins or the
\* store of bytes may refuse.
AddCapture(r) ==
    /\ At(r, "capturing")
    /\ \/ /\ ~purged
          /\ captures' = Append(captures, [bytes |-> job[r].bytes, by |-> r, looked |-> job[r].looked])
          /\ Recording(r, "changed", Len(captures) + 1)
       \/ Fails(r) /\ UNCHANGED captures
    /\ UNCHANGED <<world, watch, alerts, deaths, wanted, stale, crossed>>

MayRecord(r) ==
    /\ watch.enabled
    /\ watch.lease = None \/ (watch.lease = job[r].lease /\ watch.until > now)
ReadWatch(r) ==
    /\ At(r, "reading")
    /\ \/ /\ MayRecord(r)
          /\ job' = [job EXCEPT ![r] = [step |-> "writing", lease |-> job[r].lease,
                                        until |-> job[r].until, held |-> WatchBySource, at |-> now,
                                        status |-> job[r].status, capture |-> job[r].capture]]
       \/ ~MayRecord(r) /\ EndsAs(r, "lost")
    /\ UNCHANGED <<world, captures, watch, alerts, deaths, wanted, stale, crossed>>

Ran(row, status, capture, at) ==
    [row EXCEPT !.status = status, !.capture = capture, !.lease = None, !.until = Never,
                !.next = at + Interval]
NewAlert(r) ==
    { [by |-> r, kind |-> IF job[r].status = "changed" THEN "capture_changed" ELSE "watch_failed",
       capture |-> job[r].capture] : s \in {job[r].status} \cap {"changed", "failed"} }

\* The row and the alert are one transaction.
RecordWatchRun(r) ==
    /\ At(r, "writing")
    /\ UpsertWatch(r, Ran(job[r].held, job[r].status, job[r].capture, job[r].at))
    /\ alerts' = alerts \cup NewAlert(r)
    /\ EndsAs(r, "told")
    /\ UNCHANGED <<world, captures, deaths, wanted>>

\* The request ends where it is: its process does, or what it called fails.
Die(r) ==
    /\ deaths < MaxDeaths /\ job[r].step \in Running \cup {"configuring"}
    /\ deaths' = deaths + 1 /\ EndsAs(r, "lost")
    /\ UNCHANGED <<world, captures, watch, alerts, wanted, stale, crossed>>

-----------------------------------------------------------------------------
(* What happens around it.                                                 *)

Tick == now < MaxTime /\ now' = now + 1 /\ UNCHANGED <<page, purged>>
PageChanges == page' \in Pages \ {page} /\ UNCHANGED <<now, purged>>
Purge == ~purged /\ purged' = TRUE /\ UNCHANGED <<now, page>>
Around ==
    /\ Tick \/ PageChanges \/ Purge
    /\ UNCHANGED <<captures, watch, alerts, job, deaths, wanted, stale, crossed>>

Next ==
    \/ Around
    \/ \E r \in Requests :
          \/ \E on \in BOOLEAN : setSourceWatch(r, on)
          \/ ConfigureWatch(r) \/ runDueSourceWatch(r) \/ runSourceWatch(r)
          \/ Begin(r) \/ Fetch(r) \/ Look(r) \/ AddCapture(r)
          \/ ReadWatch(r) \/ RecordWatchRun(r) \/ Die(r)

Spec == Init /\ [][Next]_vars

-----------------------------------------------------------------------------
\* Two workers never run a watch inside their leases at once, although a
\* configuration and a run by hand drop the lease of another: what they write
\* is not due before that lease has passed.  Only a row written over one that
\* was not read undoes that.
Leased(r) == job[r].step \in Running /\ job[r].lease = r /\ job[r].until > now
OneLeaseAtATime ==
    crossed \/ \A r, q \in Requests : Leased(r) /\ Leased(q) => r = q

\* A watch runs if and only if the last configuration says so, unless a row
\* was written over one that was not read.
SwitchIsKept == crossed \/ watch.enabled = wanted

\* A capture a watch has kept has its alert, or its run is on its way to it,
\* was cut, or found its lease or its watch gone; and an alert of a change
\* names a capture its own run has kept.
ChangesAreTold ==
    /\ \A i \in DOMAIN captures :
          \/ \E a \in alerts : a.capture = i /\ a.by = captures[i].by
          \/ job[captures[i].by].step \in {"reading", "writing", "lost"}
    /\ \A a \in alerts : job[a.by].step = "told"
    /\ \A a \in alerts : a.kind = "capture_changed" => captures[a.capture].by = a.by

\* The same bytes are kept twice in a row only by a run that had looked for
\* them before the first of the two was kept.
TwinsWereRaced ==
    \A i \in 1 .. Len(captures) - 1 :
        captures[i].bytes = captures[i + 1].bytes => captures[i + 1].looked < i
=============================================================================
