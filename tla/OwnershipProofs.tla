--------------------------- MODULE OwnershipProofs ---------------------------
(***************************************************************************)
(* For every org, any number of requests and of dispatchers: the state is  *)
(* well typed, and no request takes the last owner away.                   *)
(*                                                                         *)
(* The second is not inductive.  What makes it so is that the rows a       *)
(* request holds at its decision are owners and nobody else's, and that a  *)
(* copy of a membership which is not stale says of it what is stored.      *)
(***************************************************************************)
EXTENDS Ownership, TLAPS

\* An event is buried at its last failure, so one that is owed has tries left.
TriesLeft ==
    /\ \A a \in owed : tries[a] < MaxTries
    /\ \A a \in Accounts \ closed : tries[a] = 0
    /\ \A p \in Processes : At(p, "publish") =>
         /\ job[p].on \in closed \ owed
         /\ tries[job[p].on] = 0
         /\ \A q \in Processes \ {p} : At(q, "publish") => job[q].on # job[p].on

LocksAreApart ==
    \A p, q \in Processes : p # q => Locked(p) \cap Locked(q) = {}

LockedAreOwners ==
    \A p \in Processes : Locked(p) \subseteq Owners

\* What the process has read of its target is still so, unless it is stale.
Current(p) ==
    job[p] # Idle /\ ~job[p].stale =>
        /\ At(p, "owners") => role[job[p].on] = "owner"
        /\ At(p, "lock") \/ At(p, "decide") => /\ role[job[p].on] = "owner"
                                               /\ job[p].on \in job[p].rows
        /\ At(p, "write") => role[job[p].on] # "owner"
CopyIsCurrent == \A p \in Processes : Current(p)

Safe == LocksAreApart /\ LockedAreOwners /\ CopyIsCurrent

IInv == TypeOK /\ TriesLeft /\ Safe

-----------------------------------------------------------------------------
(* What a job is, and what the steps make of it.                           *)

\* A process is idle, or its job has all the fields.
LEMMA JobKinds ==
    ASSUME TypeOK, NEW p \in Processes
    PROVE  /\ At(p, "idle") <=> job[p] = Idle
           /\ ~At(p, "idle") <=> job[p] \in Jobs
  <1>1. job[p] \in {Idle} \cup Jobs BY DEF TypeOK
  <1>2. Idle.step = "idle" BY DEF Idle
  <1>3. \A j \in Jobs : j.step # "idle" BY DEF Jobs, Steps
  <1> QED BY <1>1, <1>2, <1>3 DEF At

\* A process that ends its job touches nobody else's.
LEMMA Ends ==
    ASSUME TypeOK, NEW p \in Processes, End(p)
    PROVE  /\ job' \in [Processes -> {Idle} \cup Jobs]
           /\ job'[p] = Idle
           /\ \A q \in Processes \ {p} : job'[q] = job[q]
  BY DEF TypeOK, End

\* Nor does one that goes on to its next step, with all else as it was.
LEMMA GoesOn ==
    ASSUME TypeOK, NEW p \in Processes, job[p] \in Jobs, NEW s \in Steps, Goto(p, s)
    PROVE  /\ job' \in [Processes -> {Idle} \cup Jobs]
           /\ job'[p].step = s
           /\ job'[p].on = job[p].on
           /\ \A q \in Processes \ {p} : job'[q] = job[q]
  <1>1. job' = [job EXCEPT ![p] = [job[p] EXCEPT !.step = s]] BY DEF Goto
  <1>2. [job[p] EXCEPT !.step = s] \in Jobs BY DEF Jobs
  <1>3. [job[p] EXCEPT !.step = s].step = s BY DEF Jobs
  <1>4. [job[p] EXCEPT !.step = s].on = job[p].on BY DEF Jobs
  <1> QED BY <1>1, <1>2, <1>3, <1>4 DEF TypeOK

\* A write changes one row, ends the writer's job, and leaves the jobs of the
\* others as they were but for being stale if they are about that row.
LEMMA SeatDoes ==
    ASSUME TypeOK, NEW p \in Processes, job[p] \in Jobs, NEW seat \in Seats, Seat(p, seat)
    PROVE  /\ role' \in [Accounts -> Seats]
           /\ role'[job[p].on] = seat
           /\ \A a \in Accounts \ {job[p].on} : role'[a] = role[a]
           /\ job' \in [Processes -> {Idle} \cup Jobs]
           /\ job'[p] = Idle
           /\ \A q \in Processes \ {p} : job[q] = Idle => job'[q] = Idle
           /\ \A q \in Processes \ {p} : job[q] \in Jobs =>
                /\ job'[q] \in Jobs
                /\ job'[q].step = job[q].step
                /\ job'[q].on = job[q].on
                /\ job'[q].rows = job[q].rows
                /\ ~job'[q].stale => ~job[q].stale /\ job[q].on # job[p].on
  <1>1. job[p].on \in Accounts BY DEF Jobs
  <1>2. /\ role' \in [Accounts -> Seats]
        /\ role'[job[p].on] = seat
        /\ \A a \in Accounts \ {job[p].on} : role'[a] = role[a]
    BY <1>1 DEF Seat, TypeOK
  <1>3. job'[p] = Idle BY DEF Seat
  <1>4. ASSUME NEW q \in Processes \ {p}, job[q] = Idle PROVE job'[q] = Idle
    BY <1>4 DEF Seat
  <1>5. ASSUME NEW q \in Processes \ {p}, job[q] \in Jobs
        PROVE  /\ job'[q] \in Jobs
               /\ job'[q].step = job[q].step
               /\ job'[q].on = job[q].on
               /\ job'[q].rows = job[q].rows
               /\ ~job'[q].stale => ~job[q].stale /\ job[q].on # job[p].on
    <2>1. job[q] # Idle BY <1>5, JobKinds
    <2>2. CASE job[q].on = job[p].on
      <3>1. job'[q] = [job[q] EXCEPT !.stale = TRUE] BY <2>1, <2>2 DEF Seat
      <3>2. \A j \in Jobs : /\ [j EXCEPT !.stale = TRUE] \in Jobs
                            /\ [j EXCEPT !.stale = TRUE].step = j.step
                            /\ [j EXCEPT !.stale = TRUE].on = j.on
                            /\ [j EXCEPT !.stale = TRUE].rows = j.rows
                            /\ [j EXCEPT !.stale = TRUE].stale = TRUE
        BY DEF Jobs
      <3> QED BY <1>5, <3>1, <3>2
    <2>3. CASE job[q].on # job[p].on
      <3>1. job'[q] = job[q] BY <2>1, <2>3 DEF Seat
      <3> QED BY <1>5, <2>3, <3>1
    <2> QED BY <2>2, <2>3
  <1>6. job' \in [Processes -> {Idle} \cup Jobs]
    <2>1. \A q \in Processes : job'[q] \in {Idle} \cup Jobs
      BY <1>3, <1>4, <1>5 DEF TypeOK
    <2>2. job' = [q \in Processes |-> job'[q]] BY DEF Seat
    <2> QED BY <2>1, <2>2
  <1> QED BY <1>2, <1>3, <1>4, <1>5, <1>6

-----------------------------------------------------------------------------
(* The invariant is kept wherever no role is written.                      *)

\* A job may move on if its own locks and its own copy are in order.
LEMMA SafeAside ==
    ASSUME TypeOK, Safe, UNCHANGED role, NEW p \in Processes,
           \A q \in Processes \ {p} : job'[q] = job[q],
           Locked(p)' \subseteq Owners,
           \A q \in Processes \ {p} : Locked(p)' \cap Locked(q) = {},
           Current(p)'
    PROVE  Safe'
  <1>1. \A q \in Processes \ {p} : Locked(q)' = Locked(q) BY DEF Locked, At
  <1>2. Owners' = Owners BY DEF Owners
  <1>3. LocksAreApart' BY <1>1 DEF Safe, LocksAreApart
  <1>4. LockedAreOwners' BY <1>1, <1>2 DEF Safe, LockedAreOwners
  <1>5. ASSUME NEW q \in Processes \ {p} PROVE Current(q)'
    BY <1>5 DEF Safe, CopyIsCurrent, Current, At
  <1>6. CopyIsCurrent' BY <1>5 DEF CopyIsCurrent
  <1> QED BY <1>3, <1>4, <1>6 DEF Safe

\* In particular if it holds no locks and says nothing of its copy.
LEMMA SafeApart ==
    ASSUME TypeOK, Safe, UNCHANGED role, NEW p \in Processes,
           \A q \in Processes \ {p} : job'[q] = job[q],
           job'[p] = Idle \/ job'[p].step \in Steps \ {"owners", "lock", "decide", "write"}
    PROVE  Safe'
  <1>1. Idle.step = "idle" BY DEF Idle
  <1>2. Locked(p)' = {} BY <1>1 DEF Locked, At
  <1>3. Current(p)' BY <1>1 DEF Current, At
  <1> QED BY <1>2, <1>3, SafeAside

\* Events are only drained or buried, and nobody new is about to publish.
LEMMA TriesAside ==
    ASSUME TypeOK, TriesLeft, UNCHANGED <<closed, tries>>, owed' \subseteq owed,
           \A p \in Processes : At(p, "publish")' =>
               At(p, "publish") /\ job'[p].on = job[p].on
    PROVE  TriesLeft'
  BY DEF TriesLeft, TypeOK

-----------------------------------------------------------------------------
(* One lemma for each way a role is written.                               *)

\* A row that nobody has locked may be given any role; one that its writer
\* has locked may too, for the locks of others are elsewhere.
LEMMA SafeSeat ==
    ASSUME TypeOK, Safe, NEW p \in Processes, job[p] \in Jobs, NEW seat \in Seats,
           Seat(p, seat), FreeOfOthers(p, {job[p].on})
    PROVE  Safe'
  <1>1. \A q \in Processes : Locked(q)' \subseteq Locked(q)
    <2>1. Idle.step = "idle" BY DEF Idle
    <2>2. Locked(p)' = {} BY <2>1, SeatDoes DEF Locked, At
    <2>3. ASSUME NEW q \in Processes \ {p} PROVE Locked(q)' \subseteq Locked(q)
      <3>1. CASE job[q] = Idle BY <3>1, <2>1, SeatDoes DEF Locked, At
      <3>2. CASE job[q] \in Jobs BY <3>2, SeatDoes DEF Locked, At
      <3> QED BY <3>1, <3>2, JobKinds
    <2> QED BY <2>2, <2>3
  <1>2. \A q \in Processes \ {p} : job[p].on \notin Locked(q) BY DEF FreeOfOthers
  <1>3. LocksAreApart' BY <1>1 DEF Safe, LocksAreApart
  <1>4. ASSUME NEW q \in Processes PROVE Locked(q)' \subseteq Owners'
    <2>1. CASE q = p
      <3>1. Locked(p)' = {} BY SeatDoes DEF Locked, At, Idle
      <3> QED BY <2>1, <3>1
    <2>2. CASE q # p
      <3>1. Locked(q) \subseteq Owners BY DEF Safe, LockedAreOwners
      <3>2. \A a \in Owners \ {job[p].on} : a \in Owners' BY SeatDoes DEF Owners
      <3> QED BY <1>1, <1>2, <2>2, <3>1, <3>2
    <2> QED BY <2>1, <2>2
  <1>5. ASSUME NEW q \in Processes PROVE Current(q)'
    <2>1. CASE q = p BY <2>1, SeatDoes DEF Current
    <2>2. CASE q # p /\ job[q] = Idle BY <2>2, SeatDoes DEF Current
    <2>3. CASE q # p /\ job[q] \in Jobs
      <3>1. Current(q) BY DEF Safe, CopyIsCurrent
      <3>2. job[q] # Idle BY <2>3, JobKinds
      <3>3. job[q].on \in Accounts BY <2>3 DEF Jobs
      <3>4. CASE job'[q].stale BY <3>4 DEF Current
      <3>5. CASE ~job'[q].stale
        <4>1. ~job[q].stale /\ job[q].on # job[p].on BY <3>5, <2>3, SeatDoes
        <4>2. /\ job'[q].step = job[q].step
              /\ job'[q].on = job[q].on
              /\ job'[q].rows = job[q].rows
          BY <2>3, SeatDoes
        <4>3. role'[job[q].on] = role[job[q].on] BY <3>3, <4>1, SeatDoes
        <4> QED BY <3>1, <3>2, <4>1, <4>2, <4>3 DEF Current, At
      <3> QED BY <3>4, <3>5
    <2> QED BY <2>1, <2>2, <2>3, JobKinds
  <1> QED BY <1>3, <1>4, <1>5 DEF Safe, LockedAreOwners, CopyIsCurrent

\* A write leaves nobody newly about to publish.
LEMMA SeatPublishesNothing ==
    ASSUME TypeOK, NEW p \in Processes, job[p] \in Jobs, NEW seat \in Seats, Seat(p, seat)
    PROVE  \A q \in Processes : At(q, "publish")' =>
               At(q, "publish") /\ job'[q].on = job[q].on
  <1> SUFFICES ASSUME NEW q \in Processes, At(q, "publish")'
               PROVE  At(q, "publish") /\ job'[q].on = job[q].on
    OBVIOUS
  <1>1. Idle.step = "idle" BY DEF Idle
  <1>2. job'[q] # Idle BY <1>1 DEF At
  <1>3. q # p /\ job[q] # Idle BY <1>2, SeatDoes
  <1>4. job[q] \in Jobs BY <1>3, JobKinds
  <1> QED BY <1>3, <1>4, SeatDoes DEF At

-----------------------------------------------------------------------------
(* Every action keeps the invariant.                                       *)

\* A process begins a job: nobody else's changes.
LEMMA Begins ==
    ASSUME TypeOK, NEW p \in Processes, NEW j \in Jobs, job' = [job EXCEPT ![p] = j]
    PROVE  /\ job' \in [Processes -> {Idle} \cup Jobs]
           /\ job'[p] = j
           /\ \A q \in Processes \ {p} : job'[q] = job[q]
  BY DEF TypeOK

LEMMA AskStep ==
    ASSUME IInv, NEW q \in Requests, NEW c \in Accounts, NEW a \in Accounts,
           NEW seat \in Seats, Ask(q, c, a, seat)
    PROVE  IInv'
  <1> DEFINE j == [step |-> "target", on |-> a, as |-> seat,
                   free |-> role[c] = "owner" \/ (c = a /\ seat = "none"),
                   rows |-> {}, stale |-> FALSE]
  <1>0. TypeOK /\ TriesLeft /\ Safe BY DEF IInv
  <1>1. q \in Processes BY DEF Processes
  <1>2. j \in Jobs BY DEF Jobs, Steps
  <1>3. job' = [job EXCEPT ![q] = j] BY DEF Ask
  <1>4. j.step = "target" OBVIOUS
  <1> HIDE DEF j
  <1>5. /\ job' \in [Processes -> {Idle} \cup Jobs]
        /\ job'[q] = j
        /\ \A r \in Processes \ {q} : job'[r] = job[r]
    BY <1>0, <1>1, <1>2, <1>3, Begins
  <1>6. UNCHANGED <<role, closed, owed, tries, buried, unread>> BY DEF Ask
  <1>7. TypeOK' BY <1>0, <1>5, <1>6 DEF TypeOK
  <1>8. TriesLeft'
    <2>1. \A p \in Processes : At(p, "publish")' =>
             At(p, "publish") /\ job'[p].on = job[p].on
      BY <1>4, <1>5 DEF At
    <2> QED BY <1>0, <1>6, <2>1, TriesAside
  <1>9. Safe' BY <1>0, <1>1, <1>4, <1>5, <1>6, SafeApart DEF Steps
  <1> QED BY <1>7, <1>8, <1>9 DEF IInv

LEMMA AskCloseStep ==
    ASSUME IInv, NEW q \in Requests, NEW a \in Accounts, AskClose(q, a)
    PROVE  IInv'
  <1> DEFINE j == [step |-> "close", on |-> a, as |-> "none", free |-> FALSE,
                   rows |-> {}, stale |-> FALSE]
  <1>0. TypeOK /\ TriesLeft /\ Safe BY DEF IInv
  <1>1. q \in Processes BY DEF Processes
  <1>2. j \in Jobs BY DEF Jobs, Steps, Seats
  <1>3. job' = [job EXCEPT ![q] = j] BY DEF AskClose
  <1>4. j.step = "close" OBVIOUS
  <1> HIDE DEF j
  <1>5. /\ job' \in [Processes -> {Idle} \cup Jobs]
        /\ job'[q] = j
        /\ \A r \in Processes \ {q} : job'[r] = job[r]
    BY <1>0, <1>1, <1>2, <1>3, Begins
  <1>6. UNCHANGED <<role, closed, owed, tries, buried, unread>> BY DEF AskClose
  <1>7. TypeOK' BY <1>0, <1>5, <1>6 DEF TypeOK
  <1>8. TriesLeft'
    <2>1. \A p \in Processes : At(p, "publish")' =>
             At(p, "publish") /\ job'[p].on = job[p].on
      BY <1>4, <1>5 DEF At
    <2> QED BY <1>0, <1>6, <2>1, TriesAside
  <1>9. Safe' BY <1>0, <1>1, <1>4, <1>5, <1>6, SafeApart DEF Steps
  <1> QED BY <1>7, <1>8, <1>9 DEF IInv

\* A process ends its job and writes nothing.
LEMMA EndStep ==
    ASSUME IInv, NEW p \in Processes, End(p), UNCHANGED <<role, closed, owed, tries, buried, unread>>
    PROVE  IInv'
  <1>0. TypeOK /\ TriesLeft /\ Safe BY DEF IInv
  <1>1. /\ job' \in [Processes -> {Idle} \cup Jobs]
        /\ job'[p] = Idle
        /\ \A q \in Processes \ {p} : job'[q] = job[q]
    BY <1>0, Ends
  <1>2. TypeOK' BY <1>0, <1>1 DEF TypeOK
  <1>3. TriesLeft'
    <2>1. \A q \in Processes : At(q, "publish")' =>
             At(q, "publish") /\ job'[q].on = job[q].on
      BY <1>1 DEF At, Idle
    <2> QED BY <1>0, <2>1, TriesAside
  <1>4. Safe' BY <1>0, <1>1, SafeApart
  <1> QED BY <1>2, <1>3, <1>4 DEF IInv

LEMMA ReadTargetStep ==
    ASSUME IInv, NEW q \in Requests, ReadTarget(q)
    PROVE  IInv'
  <1> DEFINE held == role[job[q].on]
             next == IF held = "owner" THEN "owners" ELSE "write"
             j == [job[q] EXCEPT !.stale = FALSE, !.free = FALSE, !.step = next]
  <1>0. TypeOK /\ TriesLeft /\ Safe BY DEF IInv
  <1>1. q \in Processes BY DEF Processes
  <1>2. UNCHANGED <<role, closed, owed, tries, buried, unread>> BY DEF ReadTarget
  <1>3. job[q] \in Jobs BY <1>0, <1>1, JobKinds DEF ReadTarget, At
  <1>4. CASE End(q) BY <1>1, <1>2, <1>4, EndStep
  <1>5. CASE job' = [job EXCEPT ![q] = j]
    <2>1. j \in Jobs BY <1>3 DEF Jobs, Steps
    <2>2. j.step = next /\ j.on = job[q].on BY <1>3 DEF Jobs
    <2> HIDE DEF j
    <2>3. /\ job' \in [Processes -> {Idle} \cup Jobs]
          /\ job'[q] = j
          /\ \A r \in Processes \ {q} : job'[r] = job[r]
      BY <1>0, <1>1, <1>5, <2>1, Begins
    <2>4. TypeOK' BY <1>0, <1>2, <2>3 DEF TypeOK
    <2>5. TriesLeft'
      <3>1. \A p \in Processes : At(p, "publish")' =>
               At(p, "publish") /\ job'[p].on = job[p].on
        BY <2>2, <2>3 DEF At
      <3> QED BY <1>0, <1>2, <3>1, TriesAside
    <2>6. Locked(q)' = {} BY <2>2, <2>3 DEF Locked, At
    <2>7. Current(q)' BY <1>2, <2>2, <2>3 DEF Current, At
    <2>8. Safe' BY <1>0, <1>1, <1>2, <2>3, <2>6, <2>7, SafeAside
    <2> QED BY <2>4, <2>5, <2>8 DEF IInv
  <1> QED BY <1>4, <1>5 DEF ReadTarget

LEMMA SnapOwnersStep ==
    ASSUME IInv, NEW p \in Processes, SnapOwners(p)
    PROVE  IInv'
  <1> DEFINE j == [job[p] EXCEPT !.rows = Owners, !.step = "lock"]
  <1>0. TypeOK /\ TriesLeft /\ Safe BY DEF IInv
  <1>1. UNCHANGED <<role, closed, owed, tries, buried, unread>> BY DEF SnapOwners
  <1>2. job[p] \in Jobs /\ At(p, "owners") BY <1>0, JobKinds DEF SnapOwners, At
  <1>3. Owners \subseteq Accounts BY DEF Owners
  <1>4. j \in Jobs BY <1>2, <1>3 DEF Jobs, Steps
  <1>5. j.step = "lock" /\ j.on = job[p].on /\ j.rows = Owners /\ j.stale = job[p].stale
    BY <1>2 DEF Jobs
  <1>6. job' = [job EXCEPT ![p] = j] BY DEF SnapOwners
  <1> HIDE DEF j
  <1>7. /\ job' \in [Processes -> {Idle} \cup Jobs]
        /\ job'[p] = j
        /\ \A r \in Processes \ {p} : job'[r] = job[r]
    BY <1>0, <1>4, <1>6, Begins
  <1>8. TypeOK' BY <1>0, <1>1, <1>7 DEF TypeOK
  <1>9. TriesLeft'
    <2>1. \A q \in Processes : At(q, "publish")' =>
             At(q, "publish") /\ job'[q].on = job[q].on
      BY <1>5, <1>7 DEF At
    <2> QED BY <1>0, <1>1, <2>1, TriesAside
  <1>10. Locked(p)' = {} BY <1>5, <1>7 DEF Locked, At
  <1>11. Current(p)'
    <2>1. ~job[p].stale => role[job[p].on] = "owner"
      BY <1>0, <1>2, JobKinds DEF Safe, CopyIsCurrent, Current, At
    <2>2. job[p].on \in Accounts BY <1>2 DEF Jobs
    <2>3. ~job[p].stale => job[p].on \in Owners BY <2>1, <2>2 DEF Owners
    <2> QED BY <1>1, <1>5, <1>7, <2>1, <2>3 DEF Current, At
  <1>12. Safe' BY <1>0, <1>1, <1>7, <1>10, <1>11, SafeAside
  <1> QED BY <1>8, <1>9, <1>12 DEF IInv

LEMMA LockOwnersStep ==
    ASSUME IInv, NEW p \in Processes, LockOwners(p)
    PROVE  IInv'
  <1> DEFINE rows == job[p].rows \cap Owners
             next == IF p \in Requests THEN "decide" ELSE "count"
             j == [job[p] EXCEPT !.rows = rows, !.step = next]
  <1>0. TypeOK /\ TriesLeft /\ Safe BY DEF IInv
  <1>1. UNCHANGED <<role, closed, owed, tries, buried, unread>> BY DEF LockOwners
  <1>2. job[p] \in Jobs /\ At(p, "lock") BY <1>0, JobKinds DEF LockOwners, At
  <1>3. rows \subseteq Accounts BY DEF Owners
  <1>4. j \in Jobs BY <1>2, <1>3 DEF Jobs, Steps
  <1>5. j.step = next /\ j.on = job[p].on /\ j.rows = rows /\ j.stale = job[p].stale
    BY <1>2 DEF Jobs
  <1>6. job' = [job EXCEPT ![p] = j] BY DEF LockOwners
  <1> HIDE DEF j
  <1>7. /\ job' \in [Processes -> {Idle} \cup Jobs]
        /\ job'[p] = j
        /\ \A r \in Processes \ {p} : job'[r] = job[r]
    BY <1>0, <1>4, <1>6, Begins
  <1>8. TypeOK' BY <1>0, <1>1, <1>7 DEF TypeOK
  <1>9. TriesLeft'
    <2>1. \A q \in Processes : At(q, "publish")' =>
             At(q, "publish") /\ job'[q].on = job[q].on
      BY <1>5, <1>7 DEF At
    <2> QED BY <1>0, <1>1, <2>1, TriesAside
  <1>10. Locked(p)' \subseteq rows BY <1>5, <1>7 DEF Locked, At
  <1>11. \A q \in Processes \ {p} : Locked(p)' \cap Locked(q) = {}
    BY <1>10 DEF LockOwners, FreeOfOthers
  <1>12. Current(p)'
    <2>1. ~job[p].stale => role[job[p].on] = "owner" /\ job[p].on \in job[p].rows
      BY <1>0, <1>2, JobKinds DEF Safe, CopyIsCurrent, Current, At
    <2>2. job[p].on \in Accounts BY <1>2 DEF Jobs
    <2>3. ~job[p].stale => job[p].on \in rows BY <2>1, <2>2 DEF Owners
    <2> QED BY <1>1, <1>5, <1>7, <2>1, <2>3 DEF Current, At
  <1>13. Safe' BY <1>0, <1>1, <1>7, <1>10, <1>11, <1>12, SafeAside
  <1> QED BY <1>8, <1>9, <1>13 DEF IInv

\* A membership that is not stale is written under locks nobody else holds.
LEMMA SeatStep ==
    ASSUME IInv, NEW p \in Processes, job[p] \in Jobs, NEW seat \in Seats,
           Seat(p, seat), FreeOfOthers(p, {job[p].on}),
           UNCHANGED <<closed, owed, tries, buried, unread>>
    PROVE  IInv'
  <1>0. TypeOK /\ TriesLeft /\ Safe BY DEF IInv
  <1>1. TypeOK'
    <2>1. role' \in [Accounts -> Seats] /\ job' \in [Processes -> {Idle} \cup Jobs]
      BY <1>0, SeatDoes
    <2> QED BY <1>0, <2>1 DEF TypeOK
  <1>2. TriesLeft' BY <1>0, SeatPublishesNothing, TriesAside
  <1>3. Safe' BY <1>0, SafeSeat
  <1> QED BY <1>1, <1>2, <1>3 DEF IInv

\* At its decision a process holds the row it is about to write.
LEMMA DecidesOnItsOwn ==
    ASSUME IInv, NEW p \in Processes, At(p, "decide"), ~job[p].stale
    PROVE  /\ job[p] \in Jobs
           /\ job[p].on \in job[p].rows
           /\ job[p].rows \subseteq Owners
           /\ FreeOfOthers(p, {job[p].on})
  <1>0. TypeOK /\ Safe BY DEF IInv
  <1>1. job[p] \in Jobs BY <1>0, JobKinds DEF At
  <1>2. job[p].on \in job[p].rows
    BY <1>0, <1>1, JobKinds DEF Safe, CopyIsCurrent, Current
  <1>3. Locked(p) = job[p].rows BY DEF Locked
  <1>4. job[p].rows \subseteq Owners BY <1>0, <1>3 DEF Safe, LockedAreOwners
  <1>5. FreeOfOthers(p, {job[p].on})
    BY <1>0, <1>2, <1>3 DEF Safe, LocksAreApart, FreeOfOthers
  <1> QED BY <1>1, <1>2, <1>4, <1>5

LEMMA DecideStep ==
    ASSUME IInv, NEW q \in Requests, Decide(q)
    PROVE  IInv'
  <1>1. q \in Processes BY DEF Processes
  <1>2. At(q, "decide") /\ UNCHANGED <<closed, owed, tries, buried, unread>> BY DEF Decide
  <1>3. CASE OthersRemain(q) /\ ~job[q].stale
    <2>1. Seat(q, job[q].as) BY <1>3 DEF Decide
    <2>2. job[q] \in Jobs /\ FreeOfOthers(q, {job[q].on})
      BY <1>1, <1>2, <1>3, DecidesOnItsOwn
    <2>3. job[q].as \in Seats BY <2>2 DEF Jobs
    <2> QED BY <1>1, <1>2, <2>1, <2>2, <2>3, SeatStep
  <1>4. CASE ~(OthersRemain(q) /\ ~job[q].stale)
    BY <1>1, <1>2, <1>4, EndStep DEF Decide
  <1> QED BY <1>3, <1>4

LEMMA WriteStep ==
    ASSUME IInv, NEW q \in Requests, Write(q)
    PROVE  IInv'
  <1>1. q \in Processes BY DEF Processes
  <1>2. /\ At(q, "write") /\ FreeOfOthers(q, {job[q].on})
        /\ UNCHANGED <<closed, owed, tries, buried, unread>>
    BY DEF Write
  <1>3. CASE ~job[q].stale
    <2>1. Seat(q, job[q].as) BY <1>3 DEF Write
    <2>2. job[q] \in Jobs BY <1>1, <1>2, JobKinds DEF At, IInv
    <2>3. job[q].as \in Seats BY <2>2 DEF Jobs
    <2> QED BY <1>1, <1>2, <2>1, <2>2, <2>3, SeatStep
  <1>4. CASE job[q].stale BY <1>1, <1>2, <1>4, EndStep DEF Write
  <1> QED BY <1>3, <1>4

\* Whoever archives an account is the only one, and nothing is owed for it yet.
LEMMA ArchiveStep ==
    ASSUME IInv, NEW q \in Requests, Archive(q)
    PROVE  IInv'
  <1>0. TypeOK /\ TriesLeft /\ Safe BY DEF IInv
  <1>1. q \in Processes BY DEF Processes
  <1>2. At(q, "close") /\ UNCHANGED <<role, owed, tries, buried, unread>> BY DEF Archive
  <1>3. job[q] \in Jobs BY <1>0, <1>1, <1>2, JobKinds DEF At
  <1>4. job[q].on \in Accounts BY <1>3 DEF Jobs
  <1>5. CASE job[q].on \in closed BY <1>1, <1>2, <1>5, EndStep DEF Archive
  <1>6. CASE job[q].on \notin closed
    <2>1. Goto(q, "publish") /\ closed' = closed \cup {job[q].on} BY <1>6 DEF Archive
    <2>2. /\ job' \in [Processes -> {Idle} \cup Jobs]
          /\ job'[q].step = "publish" /\ job'[q].on = job[q].on
          /\ \A r \in Processes \ {q} : job'[r] = job[r]
      BY <1>0, <1>1, <1>3, <2>1, GoesOn DEF Steps
    <2>3. TypeOK' BY <1>0, <1>2, <1>4, <2>1, <2>2 DEF TypeOK
    <2>4. TriesLeft' BY <1>0, <1>1, <1>2, <1>4, <1>6, <2>1, <2>2 DEF TriesLeft, TypeOK, At
    <2>5. job'[q].step \in Steps \ {"owners", "lock", "decide", "write"}
      BY <2>2 DEF Steps
    <2>6. Safe' BY <1>0, <1>1, <1>2, <2>2, <2>5, SafeApart
    <2> QED BY <2>3, <2>4, <2>6 DEF IInv
  <1> QED BY <1>5, <1>6

LEMMA PublishArchivedStep ==
    ASSUME IInv, NEW q \in Requests, PublishArchived(q)
    PROVE  IInv'
  <1>0. TypeOK /\ TriesLeft /\ Safe BY DEF IInv
  <1>1. q \in Processes BY DEF Processes
  <1>2. /\ At(q, "publish") /\ End(q) /\ owed' = owed \cup {job[q].on}
        /\ UNCHANGED <<role, closed, tries, buried, unread>>
    BY DEF PublishArchived
  <1>3. /\ job' \in [Processes -> {Idle} \cup Jobs]
        /\ job'[q] = Idle
        /\ \A r \in Processes \ {q} : job'[r] = job[r]
    BY <1>0, <1>1, <1>2, Ends
  <1>4. job[q].on \in closed \ owed /\ tries[job[q].on] = 0
    BY <1>0, <1>1, <1>2 DEF TriesLeft
  <1>5. TypeOK' BY <1>0, <1>2, <1>3, <1>4 DEF TypeOK
  <1>6. TriesLeft'
    <2>1. \A a \in owed' : tries[a] < MaxTries
      BY <1>0, <1>2, <1>4, MaxTriesAssumption DEF TriesLeft
    <2>2. ASSUME NEW p \in Processes, At(p, "publish")'
          PROVE  p # q /\ At(p, "publish") /\ job'[p] = job[p] /\ job[p].on # job[q].on
      <3>1. p # q BY <1>3, <2>2 DEF At, Idle
      <3>2. job'[p] = job[p] BY <1>3, <3>1
      <3>3. At(p, "publish") BY <2>2, <3>2 DEF At
      <3> QED BY <1>0, <1>1, <1>2, <3>1, <3>2, <3>3 DEF TriesLeft
    <2> QED BY <1>0, <1>2, <2>1, <2>2 DEF TriesLeft
  <1>7. Safe' BY <1>0, <1>1, <1>2, <1>3, SafeApart
  <1> QED BY <1>5, <1>6, <1>7 DEF IInv

\* A failed delivery is counted, and the last one buries the event.
LEMMA FailedCounts ==
    ASSUME TypeOK, TriesLeft, NEW a \in Accounts, Failed(a), UNCHANGED closed,
           \A p \in Processes : At(p, "publish")' =>
               At(p, "publish") /\ job'[p].on = job[p].on
    PROVE  /\ owed' \in SUBSET closed /\ buried' \in SUBSET closed
           /\ tries' \in [Accounts -> 0 .. MaxTries]
           /\ TriesLeft'
  <1>1. CASE a \notin owed
    <2>1. UNCHANGED <<closed, owed, tries, buried>> BY <1>1 DEF Failed
    <2>2. TriesLeft' BY <2>1, TriesAside
    <2> QED BY <2>1, <2>2 DEF TypeOK
  <1>2. CASE a \in owed
    <2>1. tries' = [tries EXCEPT ![a] = tries[a] + 1] BY <1>2 DEF Failed
    <2>2. /\ owed' = IF tries'[a] = MaxTries THEN owed \ {a} ELSE owed
          /\ buried' = IF tries'[a] = MaxTries THEN buried \cup {a} ELSE buried
      BY <1>2 DEF Failed
    <2>3. a \in closed BY <1>2 DEF TypeOK
    <2>4. tries[a] \in Nat /\ tries[a] < MaxTries
      <3>1. tries[a] \in 0 .. MaxTries BY DEF TypeOK
      <3> QED BY <1>2, <3>1, MaxTriesAssumption DEF TriesLeft
    <2>5. tries'[a] = tries[a] + 1 BY <2>1 DEF TypeOK
    <2>6. \A b \in Accounts \ {a} : tries'[b] = tries[b] BY <2>1 DEF TypeOK
    <2>7. tries' \in [Accounts -> 0 .. MaxTries]
      BY <2>1, <2>4, MaxTriesAssumption DEF TypeOK
    <2>8. owed' \in SUBSET closed /\ buried' \in SUBSET closed
      BY <2>2, <2>3 DEF TypeOK
    <2>9. TriesLeft'
      <3>1. ASSUME NEW b \in owed' PROVE tries'[b] < MaxTries
        <4>1. b \in owed /\ b \in Accounts BY <2>2 DEF TypeOK
        <4>2. CASE b = a
          <5>1. tries'[a] # MaxTries BY <2>2, <4>2
          <5> QED BY <2>4, <2>5, <4>2, <5>1, MaxTriesAssumption
        <4>3. CASE b # a BY <2>6, <4>1, <4>3 DEF TriesLeft
        <4> QED BY <4>2, <4>3
      <3>2. \A b \in Accounts \ closed' : tries'[b] = 0
        BY <2>3, <2>6 DEF TriesLeft
      <3>3. \A p \in Processes : At(p, "publish") => job[p].on # a /\ job[p].on \in Accounts
        BY <1>2 DEF TriesLeft, TypeOK
      <3>4. owed' \subseteq owed BY <2>2
      <3> QED BY <2>6, <3>1, <3>2, <3>3, <3>4 DEF TriesLeft
    <2> QED BY <2>7, <2>8, <2>9
  <1> QED BY <1>1, <1>2

\* An event leaves the outbox, or fails, and no job is begun for it.
LEMMA PassedOver ==
    ASSUME IInv, NEW a \in Accounts, UNCHANGED <<role, closed, job>>,
           unread' \in SUBSET closed,
           Failed(a) \/ (owed' = owed \ {a} /\ UNCHANGED <<tries, buried>>)
    PROVE  IInv'
  <1>0. TypeOK /\ TriesLeft /\ Safe BY DEF IInv
  <1>1. \A p \in Processes : At(p, "publish")' =>
            At(p, "publish") /\ job'[p].on = job[p].on
    BY DEF At
  <1>2. /\ owed' \in SUBSET closed /\ buried' \in SUBSET closed
        /\ tries' \in [Accounts -> 0 .. MaxTries]
        /\ TriesLeft'
    <2>1. CASE Failed(a) BY <1>0, <1>1, <2>1, FailedCounts
    <2>2. CASE owed' = owed \ {a} /\ UNCHANGED <<tries, buried>>
      BY <1>0, <1>1, <2>2, TriesAside DEF TypeOK
    <2> QED BY <2>1, <2>2
  <1>3. TypeOK' BY <1>0, <1>2 DEF TypeOK
  <1>4. Safe'
    BY <1>0
    DEF Safe, LocksAreApart, LockedAreOwners, CopyIsCurrent, Current, Locked, At, Owners
  <1> QED BY <1>2, <1>3, <1>4 DEF IInv

LEMMA DeliverStep ==
    ASSUME IInv, NEW d \in Dispatchers, NEW a \in Accounts, Deliver(d, a)
    PROVE  IInv'
  <1> DEFINE next == IF role[a] = "owner" THEN "owners" ELSE "save"
             j == [step |-> next, on |-> a, as |-> "none", free |-> FALSE,
                   rows |-> {}, stale |-> FALSE]
             begins == /\ job' = [job EXCEPT ![d] = j]
                       /\ UNCHANGED <<owed, tries, buried, unread>>
  <1>0. TypeOK /\ TriesLeft /\ Safe BY DEF IInv
  <1>1. d \in Processes BY DEF Processes
  <1>2. a \in owed /\ UNCHANGED <<role, closed>> BY DEF Deliver
  <1>3. a \in closed /\ unread \in SUBSET closed BY <1>0, <1>2 DEF TypeOK
  <1>4. CASE Failed(a) /\ UNCHANGED <<job, unread>>
    BY <1>2, <1>3, <1>4, PassedOver
  <1>5. CASE /\ owed' = owed \ {a}
             /\ unread' = IF role[a] = "none" THEN unread ELSE unread \cup {a}
             /\ UNCHANGED <<job, tries, buried>>
    <2>1. unread' \in SUBSET closed BY <1>3, <1>5
    <2> QED BY <1>2, <1>5, <2>1, PassedOver
  <1>6. CASE begins
    <2>1. j \in Jobs BY DEF Jobs, Steps, Seats
    <2>2. j.step = next /\ j.on = a OBVIOUS
    <2>3. job' = [job EXCEPT ![d] = j] /\ UNCHANGED <<owed, tries, buried, unread>>
      BY <1>6
    <2> HIDE DEF j
    <2>4. /\ job' \in [Processes -> {Idle} \cup Jobs]
          /\ job'[d] = j
          /\ \A r \in Processes \ {d} : job'[r] = job[r]
      BY <1>0, <1>1, <2>1, <2>3, Begins
    <2>5. TypeOK' BY <1>0, <1>2, <2>3, <2>4 DEF TypeOK
    <2>6. TriesLeft'
      <3>1. \A p \in Processes : At(p, "publish")' =>
               At(p, "publish") /\ job'[p].on = job[p].on
        BY <2>2, <2>4 DEF At
      <3> QED BY <1>0, <1>2, <2>3, <3>1, TriesAside
    <2>7. Locked(d)' = {} BY <2>2, <2>4 DEF Locked, At
    <2>8. Current(d)' BY <1>2, <2>2, <2>4 DEF Current, At
    <2>9. Safe' BY <1>0, <1>1, <1>2, <2>4, <2>7, <2>8, SafeAside
    <2> QED BY <2>5, <2>6, <2>9 DEF IInv
  <1> QED BY <1>4, <1>5, <1>6 DEF Deliver

\* The handler ends with an error.
LEMMA DeliveryFailsStep ==
    ASSUME IInv, NEW d \in Dispatchers, job[d] \in Jobs, DeliveryFails(d),
           UNCHANGED <<closed, unread>>
    PROVE  IInv'
  <1>0. TypeOK /\ TriesLeft /\ Safe BY DEF IInv
  <1>1. d \in Processes BY DEF Processes
  <1>2. Failed(job[d].on) /\ End(d) /\ UNCHANGED role BY DEF DeliveryFails
  <1>3. job[d].on \in Accounts BY DEF Jobs
  <1>4. /\ job' \in [Processes -> {Idle} \cup Jobs]
        /\ job'[d] = Idle
        /\ \A r \in Processes \ {d} : job'[r] = job[r]
    BY <1>0, <1>1, <1>2, Ends
  <1>5. \A p \in Processes : At(p, "publish")' =>
            At(p, "publish") /\ job'[p].on = job[p].on
    BY <1>4 DEF At, Idle
  <1>6. /\ owed' \in SUBSET closed /\ buried' \in SUBSET closed
        /\ tries' \in [Accounts -> 0 .. MaxTries]
        /\ TriesLeft'
    BY <1>0, <1>2, <1>3, <1>5, FailedCounts
  <1>7. TypeOK' BY <1>0, <1>2, <1>4, <1>6 DEF TypeOK
  <1>8. Safe' BY <1>0, <1>1, <1>2, <1>4, SafeApart
  <1> QED BY <1>6, <1>7, <1>8 DEF IInv

LEMMA CountStep ==
    ASSUME IInv, NEW d \in Dispatchers, Count(d)
    PROVE  IInv'
  <1>0. TypeOK /\ TriesLeft /\ Safe BY DEF IInv
  <1>1. d \in Processes BY DEF Processes
  <1>2. At(d, "count") /\ UNCHANGED <<closed, unread>> BY DEF Count
  <1>3. job[d] \in Jobs BY <1>0, <1>1, <1>2, JobKinds DEF At
  <1>4. CASE Strands(d) BY <1>2, <1>3, <1>4, DeliveryFailsStep DEF Count
  <1>5. CASE ~Strands(d)
    <2>1. Goto(d, "save") /\ UNCHANGED <<role, owed, tries, buried>> BY <1>5 DEF Count
    <2>2. /\ job' \in [Processes -> {Idle} \cup Jobs]
          /\ job'[d].step = "save"
          /\ \A r \in Processes \ {d} : job'[r] = job[r]
      BY <1>0, <1>1, <1>3, <2>1, GoesOn DEF Steps
    <2>3. TypeOK' BY <1>0, <1>2, <2>1, <2>2 DEF TypeOK
    <2>4. TriesLeft'
      <3>1. \A p \in Processes : At(p, "publish")' =>
               At(p, "publish") /\ job'[p].on = job[p].on
        BY <2>2 DEF At
      <3> QED BY <1>0, <1>2, <2>1, <3>1, TriesAside
    <2>5. Safe' BY <1>0, <1>1, <2>1, <2>2, SafeApart DEF Steps
    <2> QED BY <2>3, <2>4, <2>5 DEF IInv
  <1> QED BY <1>4, <1>5

LEMMA ErrsStep ==
    ASSUME IInv, NEW d \in Dispatchers, Errs(d)
    PROVE  IInv'
  <1>1. d \in Processes BY DEF Processes
  <1>2. job[d] \in Jobs BY <1>1, JobKinds DEF Errs, IInv
  <1> QED BY <1>2, DeliveryFailsStep DEF Errs

LEMMA SaveStep ==
    ASSUME IInv, NEW d \in Dispatchers, Save(d)
    PROVE  IInv'
  <1>0. TypeOK /\ TriesLeft /\ Safe BY DEF IInv
  <1>1. d \in Processes BY DEF Processes
  <1>2. At(d, "save") /\ FreeOfOthers(d, {job[d].on}) /\ UNCHANGED <<closed, unread>>
    BY DEF Save
  <1>3. job[d] \in Jobs BY <1>0, <1>1, <1>2, JobKinds DEF At
  <1>4. CASE job[d].stale BY <1>2, <1>3, <1>4, DeliveryFailsStep DEF Save
  <1>5. CASE ~job[d].stale
    <2>1. Seat(d, "none") BY <1>5 DEF Save
    <2>2. "none" \in Seats BY DEF Seats
    <2>3. job[d].on \in Accounts BY <1>3 DEF Jobs
    <2>4. \A p \in Processes : At(p, "publish")' =>
              At(p, "publish") /\ job'[p].on = job[p].on
      BY <1>0, <1>1, <1>3, <2>1, <2>2, SeatPublishesNothing
    <2>5. /\ owed' \in SUBSET closed /\ buried' \in SUBSET closed
          /\ tries' \in [Accounts -> 0 .. MaxTries]
          /\ TriesLeft'
      <3>1. CASE Failed(job[d].on) BY <1>0, <1>2, <2>3, <2>4, <3>1, FailedCounts
      <3>2. CASE owed' = owed \ {job[d].on} /\ UNCHANGED <<tries, buried>>
        BY <1>0, <1>2, <2>4, <3>2, TriesAside DEF TypeOK
      <3> QED BY <1>5, <3>1, <3>2 DEF Save
    <2>6. role' \in [Accounts -> Seats] /\ job' \in [Processes -> {Idle} \cup Jobs]
      BY <1>0, <1>1, <1>3, <2>1, <2>2, SeatDoes
    <2>7. TypeOK' BY <1>0, <1>2, <2>5, <2>6 DEF TypeOK
    <2>8. Safe' BY <1>0, <1>1, <1>2, <1>3, <2>1, <2>2, SafeSeat
    <2> QED BY <2>5, <2>7, <2>8 DEF IInv
  <1> QED BY <1>4, <1>5

-----------------------------------------------------------------------------
(* The theorems.                                                           *)

LEMMA InitOK == Init => IInv
  <1> SUFFICES ASSUME Init PROVE IInv
    OBVIOUS
  <1>1. \A p \in Processes : job[p] = Idle BY DEF Init
  <1>2. Idle.step = "idle" BY DEF Idle
  <1>3. TypeOK BY MaxTriesAssumption DEF Init, TypeOK
  <1>4. TriesLeft BY <1>1, <1>2 DEF Init, TriesLeft, At
  <1>5. Safe
    BY <1>1, <1>2 DEF Safe, LocksAreApart, LockedAreOwners, CopyIsCurrent, Current, Locked, At
  <1> QED BY <1>3, <1>4, <1>5 DEF IInv

LEMMA Step == IInv /\ [Next]_vars => IInv'
  <1> SUFFICES ASSUME IInv, [Next]_vars PROVE IInv'
    OBVIOUS
  <1>1. ASSUME NEW q \in Requests, Request(q) PROVE IInv'
    <2>1. q \in Processes BY DEF Processes
    <2>2. Dies(q) => End(q) /\ UNCHANGED <<role, closed, owed, tries, buried, unread>> BY DEF Dies
    <2> QED
      BY <1>1, <2>1, <2>2, AskStep, AskCloseStep, ReadTargetStep, SnapOwnersStep,
         LockOwnersStep, DecideStep, WriteStep, ArchiveStep, PublishArchivedStep, EndStep
      DEF Request
  <1>2. ASSUME NEW d \in Dispatchers, Departure(d) PROVE IInv'
    <2>1. d \in Processes BY DEF Processes
    <2> QED
      BY <1>2, <2>1, DeliverStep, SnapOwnersStep, LockOwnersStep, CountStep, SaveStep,
         ErrsStep
      DEF Departure
  <1>3. CASE UNCHANGED vars
    BY <1>3 DEF vars, IInv, TypeOK, TriesLeft, Safe, LocksAreApart, LockedAreOwners,
                CopyIsCurrent, Current, Locked, At, Owners
  <1> QED BY <1>1, <1>2, <1>3 DEF Next

\* Every variable keeps its type, however many requests and dispatchers.
THEOREM TypeCorrect == Spec => []TypeOK
  <1>1. IInv => TypeOK BY DEF IInv
  <1> QED BY <1>1, InitOK, Step, PTL DEF Spec

\* A row the request has locked, other than the one it unmakes, is an owner's
\* before and after it; and a target that was no owner takes none away.
LEMMA OwnersOutlastARequest ==
    ASSUME IInv, NEW q \in Requests, Decide(q) \/ Write(q), Owners # {}
    PROVE  Owners' # {}
  <1>0. TypeOK /\ Safe BY DEF IInv
  <1>1. q \in Processes BY DEF Processes
  <1>2. CASE UNCHANGED role BY <1>2 DEF Owners
  <1>3. CASE Decide(q) /\ OthersRemain(q) /\ ~job[q].stale
    <2>1. At(q, "decide") /\ Seat(q, job[q].as) BY <1>3 DEF Decide
    <2>2. job[q] \in Jobs /\ job[q].rows \subseteq Owners
      BY <1>1, <1>3, <2>1, DecidesOnItsOwn
    <2>3. PICK o \in job[q].rows : o # job[q].on BY <1>3 DEF OthersRemain
    <2>4. o \in Accounts /\ role[o] = "owner" BY <2>2, <2>3 DEF Owners
    <2>5. job[q].as \in Seats BY <2>2 DEF Jobs
    <2>6. role'[o] = role[o] BY <1>0, <1>1, <2>1, <2>2, <2>3, <2>4, <2>5, SeatDoes
    <2> QED BY <2>4, <2>6 DEF Owners
  <1>4. CASE Write(q) /\ ~job[q].stale
    <2>1. At(q, "write") /\ Seat(q, job[q].as) BY <1>4 DEF Write
    <2>2. job[q] \in Jobs BY <1>0, <1>1, <2>1, JobKinds DEF At
    <2>3. role[job[q].on] # "owner"
      BY <1>0, <1>1, <1>4, <2>1, <2>2, JobKinds DEF Safe, CopyIsCurrent, Current
    <2>4. PICK o \in Accounts : role[o] = "owner" BY DEF Owners
    <2>5. job[q].as \in Seats BY <2>2 DEF Jobs
    <2>6. role'[o] = role[o] BY <1>0, <1>1, <2>1, <2>2, <2>3, <2>4, <2>5, SeatDoes
    <2> QED BY <2>4, <2>6 DEF Owners
  <1> QED BY <1>2, <1>3, <1>4 DEF Decide, Write

\* However many requests change roles and remove members side by side, none
\* of them takes the last owner of the org away.
THEOREM RequestsKeepAnOwnerAlways == Spec => RequestsKeepAnOwner
  <1>1. IInv /\ [Next]_vars =>
          [\A q \in Requests : (Decide(q) \/ Write(q)) /\ Owners # {} => Owners' # {}]_vars
    BY OwnersOutlastARequest
  <1> QED BY <1>1, InitOK, Step, PTL DEF Spec, RequestsKeepAnOwner
=============================================================================
