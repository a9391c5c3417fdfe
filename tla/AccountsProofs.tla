--------------------------- MODULE AccountsProofs ---------------------------
(***************************************************************************)
(* Proofs about Seats, for any accounts, invitations, requests and roles;  *)
(* about Identity, for any accounts, links, sessions and requests, any of  *)
(* which may be cut short at any statement; and about MCAccounts, which    *)
(* follows either of them.                                                 *)
(*                                                                         *)
(* An invitation is read, judged and saved in statements of their own, and *)
(* the save writes both lifecycle columns without asking what they are.    *)
(* The invariant says what makes that harmless: whatever a request holds   *)
(* was sent, and whatever is saved over is saved as spent.                 *)
(***************************************************************************)
EXTENDS MCAccounts, Sequences, TLAPS

-----------------------------------------------------------------------------
(* The inductive invariant.                                                *)

\* A row that seated somebody was made, and is spent; one that was taken did.
RowsTell == \A i \in Invitations :
    /\ invite[i] # Unsent /\ invite[i].taken => i \in seated
    /\ i \in seated => invite[i] # Unsent /\ ~Live(i)

\* A request that is about to write a row of invite holds one that was sent,
\* and one that hands a role on holds a role.
Holding == {"withdraw", "revoke", "take"}
Granting == {"find", "withdraw", "create", "take", "role"}
Sent == {i \in Invitations : invite[i] # Unsent}
JobsHold == \A p \in Requests :
    /\ job[p].step \in Holding => job[p].row \in Sent
    /\ job[p].step \in Granting => job[p].as \in SeatRoles

IInv == TypeOK /\ RowsTell /\ JobsHold

-----------------------------------------------------------------------------
(* What the statements do to a row of invite.                              *)

SeatType ==
    /\ seat \in [Accounts -> SeatRoles \cup {"none"}]
    /\ lapsed \subseteq {a \in Accounts : seat[a] \in Boxed}
GrantType == grant \in [Accounts -> Levels]
InviteType == invite \in [Invitations -> {Unsent} \cup Invites]

LEMMA NoRowIsUnsent == \A r \in Invites : r # Unsent
  BY DEF Invites, Unsent

LEMMA Lifecycles ==
    /\ AcceptedInvite \in [taken : BOOLEAN, withdrawn : BOOLEAN]
    /\ AcceptedInvite.taken = TRUE /\ AcceptedInvite.withdrawn = FALSE
    /\ RevokedInvite \in [taken : BOOLEAN, withdrawn : BOOLEAN]
    /\ RevokedInvite.taken = FALSE /\ RevokedInvite.withdrawn = TRUE
  BY DEF AcceptedInvite, RevokedInvite

\* SaveInvite writes both lifecycle columns of one row that was sent.
LEMMA SaveWrites ==
    ASSUME InviteType, NEW i \in Sent,
           NEW made \in [taken : BOOLEAN, withdrawn : BOOLEAN], SaveInvite(i, made)
    PROVE  /\ InviteType'
           /\ invite'[i] \in Invites /\ invite'[i].taken = made.taken
           /\ invite'[i].withdrawn = made.withdrawn
           /\ \A k \in Invitations \ {i} : invite'[k] = invite[k]
  <1> DEFINE r == [invite[i] EXCEPT !.taken = made.taken]
             s == [r EXCEPT !.withdrawn = made.withdrawn]
  <1>1. invite' = [invite EXCEPT ![i] = s]
    BY Zenon DEF SaveInvite
  <1>2. made.taken \in BOOLEAN /\ made.withdrawn \in BOOLEAN /\ invite[i] \in Invites
    BY DEF InviteType, Sent
  <1>3. r \in Invites /\ r.taken = made.taken
    BY <1>2 DEF Invites
  <1>4. s \in Invites /\ s.taken = made.taken /\ s.withdrawn = made.withdrawn
    <2> HIDE DEF r
    <2> QED BY <1>2, <1>3 DEF Invites
  <1> HIDE DEF s
  <1> QED BY <1>1, <1>4 DEF InviteType, Sent

-----------------------------------------------------------------------------
(* What becomes of the jobs.                                               *)

Job == {Idle} \cup Jobs
Same(j, k) == /\ j.step = k.step /\ j.row = k.row /\ j.as = k.as /\ j.on = k.on
              /\ j.level = k.level

LEMMA IdleIsNoJob == Idle \notin Jobs /\ \A j \in Jobs : j.step # "idle"
  BY DEF Idle, Jobs

LEMMA StaleJob ==
    ASSUME NEW j \in Jobs
    PROVE  [j EXCEPT !.stale = TRUE] \in Jobs /\ Same([j EXCEPT !.stale = TRUE], j)
  BY DEF Jobs, Same

\* Every job is over, or as it was but for the version it read.
Continue == \A q \in Requests : 
    /\ job'[q] \in Job
    /\ job'[q] = Idle \/ Same(job'[q], job[q])

LEMMA DoneContinues ==
    ASSUME job \in [Requests -> Job], NEW p, NEW M, NEW G, DoneHaving(p, M, G)
    PROVE  job' \in [Requests -> Job] /\ Continue
  <1>1. ASSUME NEW q \in Requests
        PROVE  job'[q] \in Job /\ (job'[q] = Idle \/ Same(job'[q], job[q]))
    <2>1. \/ job'[q] = Idle \/ job'[q] = job[q]
          \/ job[q].step # "idle" /\ job'[q] = [job[q] EXCEPT !.stale = TRUE]
      BY DEF DoneHaving, At
    <2>2. CASE job'[q] = Idle BY <2>2 DEF Job
    <2>3. CASE job'[q] = job[q] BY <2>3 DEF Same
    <2>4. CASE job[q].step # "idle" /\ job'[q] = [job[q] EXCEPT !.stale = TRUE]
      <3>1. job[q] \in Jobs BY <2>4 DEF Job, Idle
      <3> QED BY <2>4, <3>1, StaleJob DEF Job
    <2> QED BY <2>1, <2>2, <2>3, <2>4
  <1>2. job' = [q \in Requests |-> job'[q]] BY DEF DoneHaving
  <1> QED BY <1>1, <1>2 DEF Continue

\* Jobs that continue hold what they held, while no row is taken back.
LEMMA ContinueHolds ==
    ASSUME IInv, Continue, Sent \subseteq Sent'
    PROVE  JobsHold'
  <1> SUFFICES ASSUME NEW q \in Requests
               PROVE  /\ job'[q].step \in Holding => job'[q].row \in Sent'
                      /\ job'[q].step \in Granting => job'[q].as \in SeatRoles
    BY DEF JobsHold
  <1>1. CASE job'[q] = Idle BY <1>1 DEF Idle, Holding, Granting
  <1>2. CASE Same(job'[q], job[q])
    BY <1>2 DEF Same, IInv, JobsHold, Sent
  <1> QED BY <1>1, <1>2 DEF Continue

-----------------------------------------------------------------------------
(* The steps.                                                              *)

LEMMA InitIInv == Init => IInv
  <1> SUFFICES ASSUME Init PROVE IInv
    OBVIOUS
  <1>1. TypeOK
    BY SeatRolesAssumption, GivenAssumption DEF Init, TypeOK, Levels
  <1>2. RowsTell BY DEF Init, RowsTell
  <1>3. JobsHold BY DEF Init, JobsHold, Idle, Holding, Granting
  <1> QED BY <1>1, <1>2, <1>3 DEF IInv

WellAsked(step, a, r, l, i) ==
    /\ step \in {"find", "revoke", "take", "put", "drop", "remove", "role"}
    /\ a \in Accounts /\ r \in SeatRoles \cup {"none"} /\ l \in Levels
    /\ i \in Invitations \cup {"no row"}
    /\ step \in Holding => i \in Sent
    /\ step \in Granting => r \in SeatRoles

\* A handler has read, and what it read is put down in its job.
LEMMA StartKept ==
    ASSUME IInv, NEW p \in Requests, NEW step, NEW a, NEW r, NEW l, NEW i,
           WellAsked(step, a, r, l, i), Start(p, step, a, r, l, i)
    PROVE  IInv'
  <1> DEFINE j == [step |-> step, on |-> a, as |-> r, level |-> l, row |-> i, stale |-> FALSE]
  <1>1. j \in Jobs BY DEF Jobs, WellAsked
  <1>2. j.step = step /\ j.as = r /\ j.row = i OBVIOUS
  <1>3. job' = [job EXCEPT ![p] = j] /\ UNCHANGED <<seat, lapsed, grant, invite, opened, seated>>
    BY DEF Start
  <1> HIDE DEF j
  <1>4. TypeOK' BY <1>1, <1>3 DEF IInv, TypeOK
  <1>5. RowsTell' BY <1>3 DEF IInv, RowsTell, Live
  <1>6. JobsHold'
    <2> SUFFICES ASSUME NEW q \in Requests
                 PROVE  /\ job'[q].step \in Holding => job'[q].row \in Sent'
                        /\ job'[q].step \in Granting => job'[q].as \in SeatRoles
      BY DEF JobsHold
    <2>1. Sent' = Sent BY <1>3 DEF Sent
    <2>2. job'[q] = IF q = p THEN j ELSE job[q] BY <1>3 DEF IInv, TypeOK
    <2> QED BY <1>2, <2>1, <2>2 DEF IInv, JobsHold, WellAsked
  <1> QED BY <1>4, <1>5, <1>6 DEF IInv

LEMMA AskKept ==
    ASSUME IInv, NEW p \in Requests,
           \/ Invite(p) \/ acceptInvite(p) \/ revokeInvite(p)
           \/ setGrant(p) \/ revokeGrant(p) \/ changeRole(p) \/ removeMember(p)
    PROVE  IInv'
  <1>0. Given \cup {0} \subseteq Levels /\ 0 \in Levels /\ "owner" \in SeatRoles
    BY SeatRolesAssumption DEF Levels
  <1>1. CASE Invite(p)
    <2> PICK c \in Accounts, a \in Accounts, r \in SeatRoles, l \in Given \cup {0} :
             AskSend(p, c, a, r, l)
      BY <1>1 DEF Invite
    <2>1. Start(p, "find", a, r, l, "no row") BY DEF AskSend
    <2>4. WellAsked("find", a, r, l, "no row")
      BY <1>0, <2>1 DEF WellAsked, Holding, Granting, Sent
    <2> QED BY <2>1, <2>4, StartKept
  <1>2. CASE acceptInvite(p)
    <2> PICK a \in Accounts, i \in Invitations : AskAccept(p, a, i)
      BY <1>2 DEF acceptInvite
    <2>1. i \in Sent /\ Start(p, "take", a, invite[i].as, invite[i].level, i)
      BY DEF AskAccept, Live, Sent
    <2>2. invite[i] \in Invites BY <2>1 DEF IInv, TypeOK, Sent
    <2>3. invite[i].as \in SeatRoles /\ invite[i].level \in Levels BY <2>2 DEF Invites
    <2>4. WellAsked("take", a, invite[i].as, invite[i].level, i)
      BY <2>1, <2>3 DEF WellAsked, Holding, Granting, Sent
    <2> QED BY <2>1, <2>4, StartKept
  <1>3. CASE revokeInvite(p)
    <2> PICK c \in Accounts, i \in Invitations : AskRevoke(p, c, i)
      BY <1>3 DEF revokeInvite
    <2>1. i \in Sent /\ Start(p, "revoke", invite[i].to, "none", 0, i)
      BY DEF AskRevoke, Live, Sent
    <2>2. invite[i] \in Invites BY <2>1 DEF IInv, TypeOK, Sent
    <2>3. invite[i].to \in Accounts BY <2>2 DEF Invites
    <2>4. WellAsked("revoke", invite[i].to, "none", 0, i)
      BY <1>0, <2>1, <2>3 DEF WellAsked, Holding, Granting, Sent
    <2> QED BY <2>1, <2>4, StartKept
  <1>4. CASE setGrant(p)
    <2> PICK c \in Accounts, a \in Accounts, l \in Given : AskSet(p, c, a, l)
      BY <1>4 DEF setGrant
    <2>1. PICK r \in {"none", "owner"} : Start(p, "put", a, r, l, "no row")
      BY DEF AskSet
    <2>4. WellAsked("put", a, r, l, "no row")
      BY <1>0, <2>1 DEF WellAsked, Holding, Granting, Sent
    <2> QED BY <2>1, <2>4, StartKept
  <1>5. CASE revokeGrant(p)
    <2> PICK c \in Accounts, a \in Accounts : AskDrop(p, c, a)
      BY <1>5 DEF revokeGrant
    <2>1. Start(p, "drop", a, "none", 0, "no row") BY DEF AskDrop
    <2>4. WellAsked("drop", a, "none", 0, "no row")
      BY <1>0, <2>1 DEF WellAsked, Holding, Granting, Sent
    <2> QED BY <2>1, <2>4, StartKept
  <1>6. CASE changeRole(p)
    <2> PICK c \in Accounts, a \in Accounts, r \in SeatRoles : AskRole(p, c, a, r)
      BY <1>6 DEF changeRole
    <2>1. Start(p, "role", a, r, 0, "no row") BY DEF AskRole
    <2>4. WellAsked("role", a, r, 0, "no row")
      BY <1>0, <2>1 DEF WellAsked, Holding, Granting, Sent
    <2> QED BY <2>1, <2>4, StartKept
  <1>7. CASE removeMember(p)
    <2> PICK c \in Accounts, a \in Accounts : AskRemove(p, c, a)
      BY <1>7 DEF removeMember
    <2>1. Start(p, "remove", a, "none", 0, "no row") BY DEF AskRemove
    <2>4. WellAsked("remove", a, "none", 0, "no row")
      BY <1>0, <2>1 DEF WellAsked, Holding, Granting, Sent
    <2> QED BY <2>1, <2>4, StartKept
  <1> QED BY <1>1, <1>2, <1>3, <1>4, <1>5, <1>6, <1>7

\* A request that ends, and one of those that write no row of invite.
LEMMA GrantsKept ==
    ASSUME IInv, NEW p \in Requests, NEW M, NEW G,
           DoneHaving(p, M, G), UNCHANGED <<invite, opened, seated>>,
           SeatType', GrantType'
    PROVE  IInv'
  <1>1. job' \in [Requests -> Job] /\ Continue
    BY DoneContinues DEF IInv, TypeOK, Job
  <1>2. TypeOK' BY <1>1 DEF IInv, TypeOK, Job, SeatType, GrantType
  <1>3. RowsTell' BY DEF IInv, RowsTell, Live
  <1>4. JobsHold' BY <1>1, ContinueHolds DEF Sent
  <1> QED BY <1>2, <1>3, <1>4 DEF IInv

\* A job with the roles of a row, a level and an account in it.
LEMMA JobTypes ==
    ASSUME IInv, NEW p \in Requests, job[p].step # "idle"
    PROVE  /\ job[p] \in Jobs /\ job[p].on \in Accounts /\ job[p].level \in Levels
           /\ job[p].as \in SeatRoles \cup {"none"} /\ job[p].stale \in BOOLEAN
  <1>1. job[p] \in Jobs BY DEF IInv, TypeOK, Idle
  <1> QED BY <1>1 DEF Jobs

LEMMA AbortKept == ASSUME IInv, NEW p \in Requests, Abort(p) PROVE IInv'
  BY GrantsKept DEF Abort, Done, IInv, TypeOK, SeatType, GrantType

LEMMA SetGrantKept == ASSUME IInv, NEW p \in Requests, SetGrant(p) PROVE IInv'
  <1>1. job[p].step # "idle" BY DEF SetGrant, At
  <1>2. SeatType' /\ GrantType'
    BY <1>1, JobTypes DEF SetGrant, InsertGrant, IInv, TypeOK, SeatType, GrantType
  <1>3. PICK G : DoneHaving(p, {}, G) BY DEF SetGrant, Done
  <1> QED BY <1>2, <1>3, GrantsKept DEF SetGrant

LEMMA RevokeGrantKept == ASSUME IInv, NEW p \in Requests, RevokeGrant(p) PROVE IInv'
  <1>1. job[p].step # "idle" BY DEF RevokeGrant, At
  <1>2. 0 \in Levels BY DEF Levels
  <1>3. SeatType' /\ GrantType'
    BY <1>1, <1>2, JobTypes
    DEF RevokeGrant, DeleteGrant, IInv, TypeOK, SeatType, GrantType
  <1> QED BY <1>3, GrantsKept DEF RevokeGrant

LEMMA RemoveKept == ASSUME IInv, NEW p \in Requests, Remove(p) PROVE IInv'
  <1>1. job[p].step # "idle" BY DEF Remove, At
  <1>2. 0 \in Levels BY DEF Levels
  <1>3. SeatType'
    BY <1>1, JobTypes DEF Remove, IInv, TypeOK, SeatType
  <1>4. GrantType'
    BY <1>1, <1>2, JobTypes DEF Remove, RevokeGrantsFor, IInv, TypeOK, GrantType
  <1>5. PICK M, G : DoneHaving(p, M, G) BY DEF Remove, Done
  <1> QED BY <1>3, <1>4, <1>5, GrantsKept DEF Remove

LEMMA ChangeRoleKept == ASSUME IInv, NEW p \in Requests, ChangeRole(p) PROVE IInv'
  <1>1. job[p].step # "idle" BY DEF ChangeRole, At
  <1>2. SeatType' BY <1>1, JobTypes DEF ChangeRole, IInv, TypeOK, SeatType
  <1>3. GrantType' BY DEF ChangeRole, IInv, TypeOK, GrantType
  <1>4. PICK M : DoneHaving(p, M, {}) BY DEF ChangeRole, Done
  <1> QED BY <1>2, <1>3, <1>4, GrantsKept DEF ChangeRole

LEMMA GrantOpenerKept == ASSUME IInv, NEW a \in Accounts, GrantOpener(a) PROVE IInv'
  <1>1. ASSUME NEW q \in Requests
        PROVE  job'[q] \in Job /\ Same(job'[q], job[q])
    <2>1. \/ job'[q] = job[q]
          \/ job[q].step # "idle" /\ job'[q] = [job[q] EXCEPT !.stale = TRUE]
      BY DEF GrantOpener, At
    <2>2. CASE job'[q] = job[q] BY <2>2 DEF Same, IInv, TypeOK, Job
    <2>3. CASE job[q].step # "idle" /\ job'[q] = [job[q] EXCEPT !.stale = TRUE]
      BY <2>3, JobTypes, StaleJob DEF Job
    <2> QED BY <2>1, <2>2, <2>3
  <1>2. job' = [q \in Requests |-> job'[q]] BY DEF GrantOpener
  <1>3. 3 \in Levels BY DEF Levels
  <1>4. TypeOK'
    <2>1. job' \in [Requests -> {Idle} \cup Jobs] BY <1>1, <1>2 DEF Job
    <2> QED BY <1>3, <2>1 DEF GrantOpener, InsertGrant, IInv, TypeOK
  <1>5. RowsTell' BY DEF GrantOpener, IInv, RowsTell, Live
  <1>6. Continue BY <1>1 DEF Continue
  <1>7. JobsHold' BY <1>6, ContinueHolds DEF GrantOpener, Sent
  <1> QED BY <1>4, <1>5, <1>7 DEF IInv

LEMMA BoxPassesKept == ASSUME IInv, NEW a \in Accounts, BoxPasses(a) PROVE IInv'
  <1>1. TypeOK' BY DEF BoxPasses, IInv, TypeOK
  <1>2. RowsTell' BY DEF BoxPasses, IInv, RowsTell, Live
  <1>3. JobsHold' BY DEF BoxPasses, IInv, JobsHold, Sent
  <1> QED BY <1>1, <1>2, <1>3 DEF IInv

-----------------------------------------------------------------------------
(* The steps that write a row of invite.                                   *)

\* A job's next step, and the row it will write.
LEMMA NextStep ==
    ASSUME NEW j \in Jobs
    PROVE  /\ [j EXCEPT !.step = "create"] \in Jobs
           /\ [j EXCEPT !.step = "create"].step = "create"
           /\ [j EXCEPT !.step = "create"].as = j.as
  BY DEF Jobs

LEMMA FoundRow ==
    ASSUME NEW j \in Jobs, NEW i \in Invitations
    PROVE  LET k == [j EXCEPT !.step = "withdraw"]
               m == [k EXCEPT !.row = i]
           IN m \in Jobs /\ m.step = "withdraw" /\ m.as = j.as /\ m.row = i
  BY DEF Jobs

\* One job goes on, and holds what its step asks for.
LEMMA OneGoesOn ==
    ASSUME IInv, NEW p \in Requests, NEW j \in Jobs, job' = [job EXCEPT ![p] = j],
           j.step \in Holding => j.row \in Sent', j.step \in Granting => j.as \in SeatRoles,
           Sent \subseteq Sent'
    PROVE  job' \in [Requests -> {Idle} \cup Jobs] /\ JobsHold'
  <1>1. job' \in [Requests -> {Idle} \cup Jobs] BY DEF IInv, TypeOK
  <1> SUFFICES ASSUME NEW q \in Requests
               PROVE  /\ job'[q].step \in Holding => job'[q].row \in Sent'
                      /\ job'[q].step \in Granting => job'[q].as \in SeatRoles
    BY <1>1 DEF JobsHold
  <1>2. job'[q] = IF q = p THEN j ELSE job[q] BY DEF IInv, TypeOK
  <1> QED BY <1>2 DEF IInv, JobsHold

LEMMA FindLiveKept == ASSUME IInv, NEW p \in Requests, FindLive(p) PROVE IInv'
  <1>0. job[p].step = "find" /\ job[p].step # "idle" BY DEF FindLive, At
  <1>1. job[p] \in Jobs /\ job[p].as \in SeatRoles
    BY <1>0, JobTypes DEF IInv, JobsHold, Granting
  <1>2. PICK j \in Jobs : /\ job' = [job EXCEPT ![p] = j]
                          /\ j.step \in Holding => j.row \in Sent
                          /\ j.as \in SeatRoles
    <2>1. CASE job' = [job EXCEPT ![p].step = "create"]
      <3> DEFINE j == [job[p] EXCEPT !.step = "create"]
      <3>1. job' = [job EXCEPT ![p] = j] BY <2>1, Zenon
      <3>2. j \in Jobs /\ j.step \notin Holding /\ j.as \in SeatRoles
        BY <1>1, NextStep DEF Holding
      <3> HIDE DEF j
      <3> QED BY <3>1, <3>2
    <2>2. ASSUME NEW i \in LiveFor(job[p].on),
                 job' = [job EXCEPT ![p].step = "withdraw", ![p].row = i]
          PROVE  \E j \in Jobs : /\ job' = [job EXCEPT ![p] = j]
                                 /\ j.step \in Holding => j.row \in Sent
                                 /\ j.as \in SeatRoles
      <3> DEFINE k == [job[p] EXCEPT !.step = "withdraw"]
                 j == [k EXCEPT !.row = i]
      <3>1. job' = [job EXCEPT ![p] = j] BY <2>2, Zenon
      <3>2. i \in Sent BY DEF LiveFor, Live, Sent
      <3>3. j \in Jobs /\ j.row = i /\ j.as \in SeatRoles
        BY <1>1, <3>2, FoundRow DEF Sent
      <3> HIDE DEF j
      <3> QED BY <3>1, <3>2, <3>3
    <2> QED BY <2>1, <2>2 DEF FindLive
  <1>3. UNCHANGED <<seat, lapsed, grant, invite, opened, seated>> BY DEF FindLive
  <1>4. job' \in [Requests -> {Idle} \cup Jobs] /\ JobsHold'
    BY <1>2, <1>3, OneGoesOn DEF Sent
  <1>5. TypeOK' BY <1>3, <1>4 DEF IInv, TypeOK
  <1>6. RowsTell' BY <1>3 DEF IInv, RowsTell, Live
  <1> QED BY <1>4, <1>5, <1>6 DEF IInv

LEMMA StepJob == ASSUME IInv, NEW p \in Requests, job[p].step \in Holding
                 PROVE  job[p] \in Jobs /\ job[p].row \in Sent
  BY JobTypes DEF IInv, JobsHold, Holding

\* A row that is withdrawn is spent, and says it seated nobody.
LEMMA RowWithdrawn ==
    ASSUME IInv, NEW i \in Sent, SaveInvite(i, RevokedInvite), UNCHANGED seated
    PROVE  /\ InviteType' /\ RowsTell' /\ Sent \subseteq Sent'
           /\ \A k \in Invitations :
                 invite'[k] # Unsent => ~(invite'[k].taken /\ invite'[k].withdrawn)
  <1>1. /\ InviteType'
        /\ invite'[i] \in Invites /\ invite'[i].taken = FALSE
        /\ invite'[i].withdrawn = TRUE
        /\ \A k \in Invitations \ {i} : invite'[k] = invite[k]
    BY SaveWrites, Lifecycles DEF IInv, TypeOK, InviteType
  <1>2. Sent \subseteq Sent' BY <1>1, NoRowIsUnsent DEF Sent
  <1>3. RowsTell' BY <1>1, NoRowIsUnsent DEF IInv, RowsTell, Live, Sent
  <1>4. \A k \in Invitations :
           invite'[k] # Unsent => ~(invite'[k].taken /\ invite'[k].withdrawn)
    BY <1>1 DEF IInv, TypeOK
  <1> QED BY <1>1, <1>2, <1>3, <1>4

LEMMA WithdrawKept == ASSUME IInv, NEW p \in Requests, Withdraw(p) PROVE IInv'
  <1>1. /\ job[p] \in Jobs /\ job[p].row \in Sent /\ job[p].as \in SeatRoles
    BY StepJob DEF Withdraw, At, Holding, Granting, IInv, JobsHold
  <1>2. /\ InviteType' /\ RowsTell' /\ Sent \subseteq Sent'
        /\ \A k \in Invitations :
              invite'[k] # Unsent => ~(invite'[k].taken /\ invite'[k].withdrawn)
    BY <1>1, RowWithdrawn DEF Withdraw
  <1>3. job' \in [Requests -> {Idle} \cup Jobs] /\ JobsHold'
    <2> DEFINE j == [job[p] EXCEPT !.step = "create"]
    <2>1. job' = [job EXCEPT ![p] = j] BY Zenon DEF Withdraw
    <2>2. j \in Jobs /\ j.step \notin Holding /\ j.as \in SeatRoles
      BY <1>1, NextStep DEF Holding
    <2> HIDE DEF j
    <2> QED BY <1>2, <2>1, <2>2, OneGoesOn
  <1>4. TypeOK' BY <1>2, <1>3 DEF Withdraw, IInv, TypeOK, InviteType
  <1> QED BY <1>2, <1>3, <1>4 DEF IInv

LEMMA RevokeInviteKept == ASSUME IInv, NEW p \in Requests, RevokeInvite(p) PROVE IInv'
  <1>1. job[p].row \in Sent
    BY StepJob DEF RevokeInvite, At, Holding
  <1>2. /\ InviteType' /\ RowsTell' /\ Sent \subseteq Sent'
        /\ \A k \in Invitations :
              invite'[k] # Unsent => ~(invite'[k].taken /\ invite'[k].withdrawn)
    BY <1>1, RowWithdrawn DEF RevokeInvite
  <1>3. job' \in [Requests -> Job] /\ Continue
    BY DoneContinues DEF RevokeInvite, Done, IInv, TypeOK, Job
  <1>4. TypeOK' BY <1>2, <1>3 DEF RevokeInvite, IInv, TypeOK, InviteType, Job
  <1>5. JobsHold' BY <1>2, <1>3, ContinueHolds
  <1> QED BY <1>2, <1>4, <1>5 DEF IInv

\* Taking, the transaction is one: the row, the seat and what it seated.
LEMMA AcceptKept == ASSUME IInv, NEW p \in Requests, Accept(p) PROVE IInv'
  <1>0. job[p].step = "take" /\ job[p].step # "idle" BY DEF Accept, At
  <1>1. job[p].row \in Sent BY <1>0, StepJob DEF Holding
  <1> DEFINE a == job[p].on
             i == job[p].row
  <1>2. CASE ~MayJoin(a, job[p].level)
    <2>1. Done(p) /\ UNCHANGED <<seat, grant, invite, seated, lapsed, opened>>
      BY <1>2 DEF Accept
    <2> QED BY <2>1, GrantsKept DEF Done, IInv, TypeOK, SeatType, GrantType
  <1>3. CASE MayJoin(a, job[p].level)
    <2>1. /\ SaveInvite(i, AcceptedInvite) /\ AddMember(a, job[p].as)
          /\ grant' = [grant EXCEPT ![a] = IF job[p].level > 0 THEN job[p].level ELSE @]
          /\ seated' = seated \cup {i} /\ DoneHaving(p, {a}, {a})
          /\ UNCHANGED <<lapsed, opened>>
      BY <1>3 DEF Accept
    <2>2. /\ InviteType'
          /\ invite'[i] \in Invites /\ invite'[i].taken = TRUE
          /\ invite'[i].withdrawn = FALSE
          /\ \A k \in Invitations \ {i} : invite'[k] = invite[k]
      BY <1>1, <2>1, SaveWrites, Lifecycles DEF IInv, TypeOK, InviteType
    <2>3. Sent \subseteq Sent' /\ i \in Invitations BY <1>1, <2>2, NoRowIsUnsent DEF Sent
    <2>4. RowsTell' BY <2>1, <2>2, <2>3, NoRowIsUnsent DEF IInv, RowsTell, Live, Sent
    <2>5. job' \in [Requests -> Job] /\ Continue
      BY <2>1, DoneContinues DEF IInv, TypeOK, Job
    <2>6. SeatType'
      <3>1. seat[a] = "none" BY <1>3 DEF MayJoin
      <3>2. a \notin lapsed BY <3>1 DEF IInv, TypeOK, Boxed
      <3> QED BY <1>0, <2>1, <3>2, JobTypes DEF AddMember, IInv, TypeOK, SeatType
    <2>7. GrantType' BY <1>0, <2>1, JobTypes DEF IInv, TypeOK, GrantType
    <2>8. \A k \in Invitations :
             invite'[k] # Unsent => ~(invite'[k].taken /\ invite'[k].withdrawn)
      BY <2>2 DEF IInv, TypeOK
    <2>9. TypeOK'
      BY <2>1, <2>2, <2>3, <2>5, <2>6, <2>7, <2>8
      DEF IInv, TypeOK, InviteType, SeatType, GrantType, Job
    <2>10. JobsHold' BY <2>3, <2>5, ContinueHolds
    <2> QED BY <2>4, <2>9, <2>10 DEF IInv
  <1> QED BY <1>2, <1>3

LEMMA CreateInviteKept == ASSUME IInv, NEW p \in Requests, CreateInvite(p) PROVE IInv'
  <1>0. job[p].step = "create" /\ job[p].step # "idle" BY DEF CreateInvite, At
  <1>1. Done(p) /\ UNCHANGED <<seat, lapsed, grant, opened, seated>> BY DEF CreateInvite
  <1>2. job' \in [Requests -> Job] /\ Continue
    BY <1>1, DoneContinues DEF Done, IInv, TypeOK, Job
  <1>3. CASE UNCHANGED invite
    BY <1>1, <1>3, GrantsKept DEF Done, IInv, TypeOK, SeatType, GrantType
  <1>4. ASSUME NEW i \in Invitations, invite[i] = Unsent, InsertInvite(i, job[p])
        PROVE  IInv'
    <2> DEFINE r == NewInvite(job[p])
    <2>1. r \in Invites /\ ~r.taken /\ ~r.withdrawn
      <3>1. job[p].on \in Accounts /\ job[p].level \in Levels /\ job[p].as \in SeatRoles
        BY <1>0, JobTypes DEF IInv, JobsHold, Granting
      <3> QED BY <3>1 DEF NewInvite, Invites
    <2>2. invite' = [invite EXCEPT ![i] = r] BY <1>4 DEF InsertInvite
    <2> HIDE DEF r
    <2>3. InviteType' BY <2>1, <2>2 DEF IInv, TypeOK, InviteType
    <2>4. Sent \subseteq Sent' BY <2>1, <2>2, NoRowIsUnsent DEF Sent, IInv, TypeOK
    <2>5. i \notin seated BY <1>4 DEF IInv, RowsTell
    <2>6. RowsTell'
      BY <1>1, <2>1, <2>2, <2>5 DEF IInv, RowsTell, Live, TypeOK
    <2>7. TypeOK'
      BY <1>1, <1>2, <2>1, <2>2, <2>3 DEF IInv, TypeOK, InviteType, Job
    <2>8. JobsHold' BY <1>2, <2>4, ContinueHolds
    <2> QED BY <2>6, <2>7, <2>8 DEF IInv
  <1> QED BY <1>3, <1>4 DEF CreateInvite

LEMMA LinkExpiresKept == ASSUME IInv, NEW i \in Invitations, LinkExpires(i) PROVE IInv'
  <1> DEFINE r == [invite[i] EXCEPT !.expired = TRUE]
  <1>1. invite[i] \in Invites /\ i \in Sent
    BY DEF LinkExpires, Live, IInv, TypeOK, Sent
  <1>2. r \in Invites /\ ~r.taken /\ ~r.withdrawn
    BY <1>1 DEF LinkExpires, Live, Invites
  <1>3. invite' = [invite EXCEPT ![i] = r] BY Zenon DEF LinkExpires
  <1> HIDE DEF r
  <1>4. UNCHANGED <<seat, lapsed, grant, job, opened, seated>> BY DEF LinkExpires
  <1>5. Live(i) BY DEF LinkExpires
  <1>6. TypeOK' BY <1>2, <1>3, <1>4 DEF IInv, TypeOK
  <1>7. RowsTell' BY <1>2, <1>3, <1>4, <1>5 DEF IInv, RowsTell, Live, TypeOK
  <1>8. Sent \subseteq Sent' BY <1>2, <1>3, NoRowIsUnsent DEF Sent, IInv, TypeOK
  <1>9. JobsHold' BY <1>4, <1>8 DEF IInv, JobsHold
  <1> QED BY <1>6, <1>7, <1>9 DEF IInv

LEMMA IInvKept == IInv /\ [Next]_vars => IInv'
  <1> SUFFICES ASSUME IInv, [Next]_vars PROVE IInv'
    OBVIOUS
  <1>1. CASE UNCHANGED vars
    <2>1. TypeOK' BY <1>1 DEF vars, IInv, TypeOK
    <2>2. RowsTell' BY <1>1 DEF vars, IInv, RowsTell, Live
    <2>3. JobsHold' BY <1>1 DEF vars, IInv, JobsHold, Sent
    <2> QED BY <2>1, <2>2, <2>3 DEF IInv
  <1>2. ASSUME NEW p \in Requests,
               \/ Invite(p) \/ acceptInvite(p) \/ revokeInvite(p)
               \/ setGrant(p) \/ revokeGrant(p) \/ changeRole(p) \/ removeMember(p)
        PROVE  IInv'
    BY <1>2, AskKept
  <1>3. ASSUME NEW p \in Requests,
               \/ Abort(p)
               \/ FindLive(p) \/ Withdraw(p) \/ CreateInvite(p)
               \/ RevokeInvite(p) \/ Accept(p)
               \/ SetGrant(p) \/ RevokeGrant(p)
               \/ Remove(p) \/ ChangeRole(p)
        PROVE  IInv'
    BY <1>3, AbortKept, FindLiveKept, WithdrawKept, CreateInviteKept, RevokeInviteKept,
       AcceptKept, SetGrantKept, RevokeGrantKept, RemoveKept, ChangeRoleKept
  <1>4. ASSUME NEW a \in Accounts, GrantOpener(a) \/ BoxPasses(a) PROVE IInv'
    BY <1>4, GrantOpenerKept, BoxPassesKept
  <1>5. ASSUME NEW i \in Invitations, LinkExpires(i) PROVE IInv'
    BY <1>5, LinkExpiresKept
  <1> QED BY <1>1, <1>2, <1>3, <1>4, <1>5 DEF Next

LEMMA AlwaysIInv == Spec => []IInv
  BY InitIInv, IInvKept, PTL DEF Spec

-----------------------------------------------------------------------------
(* A row that is spent stays spent.                                        *)

\* Every write of a row leaves it spent, makes it, or finds it live.
InviteWritten ==
    \/ UNCHANGED invite
    \/ \E i \in Sent, made \in {AcceptedInvite, RevokedInvite} : SaveInvite(i, made)
    \/ \E i \in Invitations, r \in Invites :
          /\ invite[i] = Unsent \/ Live(i)
          /\ invite' = [invite EXCEPT ![i] = r]

LEMMA WritesOfInvite == IInv /\ [Next]_vars => InviteWritten
  <1> SUFFICES ASSUME IInv, [Next]_vars PROVE InviteWritten
    OBVIOUS
  <1>1. CASE UNCHANGED vars BY <1>1 DEF vars, InviteWritten
  <1>2. ASSUME NEW p \in Requests,
               \/ Invite(p) \/ acceptInvite(p) \/ revokeInvite(p)
               \/ setGrant(p) \/ revokeGrant(p) \/ changeRole(p) \/ removeMember(p)
        PROVE  UNCHANGED invite
    BY <1>2
    DEF Invite, acceptInvite, revokeInvite, setGrant, revokeGrant, changeRole, removeMember,
        AskSend, AskAccept, AskRevoke, AskSet, AskDrop, AskRole, AskRemove, Start
  <1>3. ASSUME NEW p \in Requests,
               \/ Abort(p) \/ FindLive(p) \/ SetGrant(p) \/ RevokeGrant(p)
               \/ Remove(p) \/ ChangeRole(p)
        PROVE  UNCHANGED invite
    BY <1>3 DEF Abort, FindLive, SetGrant, RevokeGrant, Remove, ChangeRole
  <1>4. ASSUME NEW p \in Requests, Withdraw(p) \/ RevokeInvite(p) \/ Accept(p)
        PROVE  InviteWritten
    <2>1. job[p].row \in Sent
      BY <1>4, StepJob DEF Withdraw, RevokeInvite, Accept, At, Holding
    <2>2. \/ UNCHANGED invite
          \/ SaveInvite(job[p].row, RevokedInvite) \/ SaveInvite(job[p].row, AcceptedInvite)
      BY <1>4 DEF Withdraw, RevokeInvite, Accept
    <2> QED BY <2>1, <2>2 DEF InviteWritten
  <1>5. ASSUME NEW p \in Requests, CreateInvite(p) PROVE InviteWritten
    <2>1. job[p].on \in Accounts /\ job[p].level \in Levels /\ job[p].as \in SeatRoles
      BY <1>5, JobTypes DEF CreateInvite, At, IInv, JobsHold, Granting
    <2>2. NewInvite(job[p]) \in Invites BY <2>1 DEF NewInvite, Invites
    <2> QED BY <1>5, <2>2 DEF CreateInvite, InsertInvite, InviteWritten
  <1>6. ASSUME NEW a \in Accounts, GrantOpener(a) \/ BoxPasses(a) PROVE UNCHANGED invite
    BY <1>6 DEF GrantOpener, BoxPasses
  <1>7. ASSUME NEW i \in Invitations, LinkExpires(i) PROVE InviteWritten
    <2> DEFINE r == [invite[i] EXCEPT !.expired = TRUE]
    <2>1. invite' = [invite EXCEPT ![i] = r] BY <1>7, Zenon DEF LinkExpires
    <2>2. invite[i] \in Invites BY <1>7 DEF LinkExpires, Live, IInv, TypeOK
    <2>3. r \in Invites BY <2>2 DEF Invites
    <2> HIDE DEF r
    <2> QED BY <1>7, <2>1, <2>3 DEF LinkExpires, InviteWritten
  <1> QED BY <1>1, <1>2, <1>3, <1>4, <1>5, <1>6, <1>7 DEF Next, InviteWritten

LEMMA DeadStays == IInv /\ InviteWritten => StaysDead
  <1> SUFFICES ASSUME IInv, InviteWritten,
                      NEW k \in Invitations, invite[k] # Unsent, ~Live(k)
               PROVE  ~Live(k)'
    BY DEF StaysDead
  <1>1. CASE UNCHANGED invite BY <1>1 DEF Live
  <1>2. ASSUME NEW i \in Sent, NEW made \in {AcceptedInvite, RevokedInvite},
               SaveInvite(i, made)
        PROVE  ~Live(k)'
    <2>1. /\ invite'[i].taken = made.taken /\ invite'[i].withdrawn = made.withdrawn
          /\ \A l \in Invitations \ {i} : invite'[l] = invite[l]
      BY <1>2, SaveWrites, Lifecycles DEF IInv, TypeOK, InviteType
    <2> QED BY <2>1, Lifecycles DEF Live
  <1>3. ASSUME NEW i \in Invitations, NEW r \in Invites,
               invite[i] = Unsent \/ Live(i), invite' = [invite EXCEPT ![i] = r]
        PROVE  ~Live(k)'
    BY <1>3 DEF Live, IInv, TypeOK
  <1> QED BY <1>1, <1>2, <1>3 DEF InviteWritten

-----------------------------------------------------------------------------
(* What is proved.                                                         *)

\* Every variable keeps its type, for any accounts, invitations and requests;
\* in particular only a boxed role lapses, and no row is taken and withdrawn.
THEOREM TypeCorrect == Spec => []TypeOK
  BY AlwaysIInv, PTL DEF IInv

\* A row of invite that was taken has seated somebody and one that has seated
\* somebody is spent, although SaveInvite writes what its caller once read.
THEOREM RowsAlwaysTell == Spec => []RowsTellTheSeats
  <1>1. IInv => RowsTellTheSeats BY DEF IInv, RowsTell, RowsTellTheSeats
  <1> QED BY <1>1, AlwaysIInv, PTL

\* A link that was spent or withdrawn never works again: accept, revoke and
\* replace write a row blindly, and each of them leaves it spent.
THEOREM NeverLive == Spec => NeverLiveAgain
  <1>1. IInv /\ [Next]_vars => [StaysDead]_vars
    BY WritesOfInvite, DeadStays
  <1> QED BY <1>1, AlwaysIInv, PTL DEF Spec, NeverLiveAgain

-----------------------------------------------------------------------------
(* Identity.                                                               *)
(*                                                                         *)
(* What is at stake lies between two statements of a request, so the       *)
(* invariant speaks of the jobs: of what each says about the rows it was   *)
(* made from unless it knows them stale (Fit), and of any two that hold    *)
(* the same link or sessions (Compatible).  A link is consumed before what *)
(* it is for is saved, so of those who consumed it only one is left with a *)
(* save to make; sessions are ended before they are reported, so no two    *)
(* have the same ones to report; and whoever saves a row leaves every      *)
(* other copy of it stale.  Each step is then either one job going on past *)
(* others that stand still (OneMoves), or a save that some of them fall    *)
(* behind (SavedKept).                                                     *)
\* No identifier is the one that stands for nobody and for no password.
NobodyIsNone == Nobody \notin Persons \cup Addresses \cup Passwords \cup Letters

-----------------------------------------------------------------------------
(* What is known of a job, whatever else happens.                          *)

Plan == {"read", "consume", "account", "credential", "password", "rehash", "links",
         "mint", "sessions", "session", "announce", "tell"}

\* The steps before a request: a read stands alone, a link is consumed first,
\* what is told is told last, and nothing is saved twice.
Planned(j) ==
    /\ Len(j.todo) > 0
    /\ \A i \in 1 .. Len(j.todo) :
          /\ j.todo[i] = "read" => Len(j.todo) = 1
          /\ j.todo[i] = "consume" => i = 1
          /\ j.todo[i] \in {"read", "consume"} => j.link # Nobody
          /\ j.todo[i] = "tell" => i = Len(j.todo)
          /\ j.todo[i] = "credential" => i + 2 <= Len(j.todo) /\ j.todo[i + 1] = "password"
          /\ j.todo[i] = "sessions" => i < Len(j.todo)
          /\ \A k \in 1 .. Len(j.todo) \ {i} :
                /\ j.todo[i] \in {"account", "sessions"} => j.todo[k] # j.todo[i]
                /\ j.todo[i] = "account" /\ j.todo[k] = "announce" => i < k
                /\ j.todo[i] = "rehash" => j.todo[k] = "session"
                /\ j.link # Nobody /\ j.todo[i] \in {"account", "password"} =>
                      j.todo[k] \notin {"account", "password"}

\* A request that has consumed its link and has still to save what it is for.
Spender(j) ==
    /\ j.link # Nobody
    /\ ~I!Ahead(j, {"read", "consume"})
    /\ I!Ahead(j, {"account", "password"})

\* A request that has ended sessions and has still to report them.
Telling(j) == I!Ahead(j, {"tell"}) /\ ~I!Ahead(j, {"sessions"})

Compatible(j, k) ==
    /\ Spender(j) /\ Spender(k) => j.link # k.link
    /\ Telling(j) /\ Telling(k) => j.ends \cap k.ends = {}

LEMMA JobFields ==
    ASSUME NEW j \in I!Jobs
    PROVE  /\ j.todo \in Seq(Plan) /\ j.on \in Persons /\ j.link \in Letters \cup {Nobody}
           /\ j.row \in I!Rows /\ j.secret \in Passwords \cup {I!Revoked} /\ j.kind \in I!Kinds
           /\ j.ends \in SUBSET Visits /\ j.stale \in SUBSET {"account", "password"}
  BY DEF I!Jobs, Plan

\* The fields of a job that is one step further.
SameBut(k, j) ==
    /\ k.on = j.on /\ k.link = j.link /\ k.row = j.row /\ k.secret = j.secret
    /\ k.kind = j.kind

LEMMA RestIs ==
    ASSUME NEW j \in I!Jobs, Len(j.todo) > 0
    PROVE  \/ I!Rest(j) = I!Idle /\ Len(j.todo) = 1
           \/ /\ Len(j.todo) > 1
              /\ I!Rest(j) \in I!Jobs /\ SameBut(I!Rest(j), j)
              /\ I!Rest(j).ends = j.ends /\ I!Rest(j).stale = j.stale
              /\ Len(I!Rest(j).todo) = Len(j.todo) - 1
              /\ \A i \in 1 .. Len(j.todo) - 1 : I!Rest(j).todo[i] = j.todo[i + 1]
  <1>1. CASE Len(j.todo) = 1 BY <1>1 DEF I!Rest
  <1>2. CASE Len(j.todo) # 1
    <2>1. j.todo \in Seq(Plan) /\ Len(j.todo) \in Nat /\ Len(j.todo) > 1
      <3>1. j.todo \in Seq(Plan) BY JobFields
      <3>2. Len(j.todo) \in Nat BY <3>1
      <3>3. \A n \in Nat : n > 0 /\ n # 1 => n > 1 OBVIOUS
      <3>4. Len(j.todo) > 1 BY <1>2, <3>2, <3>3, Zenon
      <3> QED BY <3>1, <3>2, <3>4
    <2>2. I!Rest(j) = [j EXCEPT !.todo = Tail(j.todo)] BY <1>2 DEF I!Rest
    <2>3. /\ Tail(j.todo) \in Seq(Plan) /\ Len(Tail(j.todo)) = Len(j.todo) - 1
          /\ \A i \in 1 .. Len(j.todo) - 1 : Tail(j.todo)[i] = j.todo[i + 1]
      BY <2>1
    <2>4. I!Rest(j) \in I!Jobs /\ I!Rest(j).todo = Tail(j.todo) /\ SameBut(I!Rest(j), j)
          /\ I!Rest(j).ends = j.ends /\ I!Rest(j).stale = j.stale
      BY <2>2, <2>3 DEF I!Jobs, Plan, SameBut
    <2> QED BY <2>1, <2>3, <2>4
  <1> QED BY <1>1, <1>2

LEMMA IdleDoesNothing == ASSUME NEW j \in I!Jobs, Len(j.todo) > 0 PROVE j # I!Idle
  BY DEF I!Idle

\* What is ahead of the rest was ahead, and a step that comes once is past.
LEMMA RestAhead ==
    ASSUME NEW j \in I!Jobs, Planned(j), I!Rest(j) # I!Idle, NEW S
    PROVE  /\ I!Rest(j) \in I!Jobs /\ Planned(I!Rest(j))
           /\ I!Ahead(I!Rest(j), S) => I!Ahead(j, S)
           /\ I!Ahead(j, S) => Head(j.todo) \in S \/ I!Ahead(I!Rest(j), S)
           /\ Head(j.todo) \in {"account", "sessions"} => ~I!Ahead(I!Rest(j), {Head(j.todo)})
           /\ ~I!Ahead(I!Rest(j), {"read", "consume"})
           /\ Head(j.todo) # "session" => ~I!Ahead(I!Rest(j), {"rehash"})
  <1>1. /\ Len(j.todo) > 1 /\ Len(j.todo) \in Nat
        /\ I!Rest(j) \in I!Jobs /\ I!Rest(j).link = j.link
        /\ Len(I!Rest(j).todo) = Len(j.todo) - 1
        /\ \A i \in 1 .. Len(j.todo) - 1 : I!Rest(j).todo[i] = j.todo[i + 1]
    BY RestIs, JobFields DEF Planned, SameBut
  <1>2. Head(j.todo) = j.todo[1] BY <1>1, JobFields
  <1>3. Planned(I!Rest(j))
    <2> DEFINE n == Len(j.todo) - 1
               t == I!Rest(j).todo
    <2>1. Len(t) = n /\ n \in Nat /\ n > 0 BY <1>1
    <2>2. ASSUME NEW i \in 1 .. n
          PROVE  /\ t[i] # "read" /\ t[i] # "consume"
                 /\ t[i] = "tell" => i = n
                 /\ t[i] = "credential" => i + 2 <= n /\ t[i + 1] = "password"
                 /\ t[i] = "sessions" => i < n
      <3>1. i + 1 \in 1 .. Len(j.todo) /\ i + 1 # 1 /\ t[i] = j.todo[i + 1] BY <1>1
      <3>2. i < n => t[i + 1] = j.todo[(i + 1) + 1]
        <4>1. i < n => i + 1 \in 1 .. Len(j.todo) - 1 BY <1>1
        <4> QED BY <1>1, <4>1, Zenon
      <3> HIDE DEF t
      <3> QED BY <1>1, <3>1, <3>2 DEF Planned
    <2>3. ASSUME NEW i \in 1 .. n, NEW k \in 1 .. n, i # k
          PROVE  /\ t[i] \in {"account", "sessions"} => t[k] # t[i]
                 /\ t[i] = "account" /\ t[k] = "announce" => i < k
                 /\ t[i] = "rehash" => t[k] = "session"
                 /\ I!Rest(j).link # Nobody /\ t[i] \in {"account", "password"} =>
                      t[k] \notin {"account", "password"}
      <3>1. /\ i + 1 \in 1 .. Len(j.todo) /\ k + 1 \in 1 .. Len(j.todo) /\ i + 1 # k + 1
            /\ t[i] = j.todo[i + 1] /\ t[k] = j.todo[k + 1]
        BY <1>1, <2>3
      <3> HIDE DEF t
      <3> QED BY <1>1, <3>1 DEF Planned
    <2> QED BY <2>1, <2>2, <2>3 DEF Planned
  <1>4. I!Ahead(I!Rest(j), S) => I!Ahead(j, S) BY <1>1 DEF I!Ahead
  <1>5. I!Ahead(j, S) => Head(j.todo) \in S \/ I!Ahead(I!Rest(j), S)
    <2> SUFFICES ASSUME NEW i \in 1 .. Len(j.todo), j.todo[i] \in S, i # 1
                 PROVE  I!Ahead(I!Rest(j), S)
      BY <1>2 DEF I!Ahead
    <2>1. i - 1 \in 1 .. Len(I!Rest(j).todo) /\ I!Rest(j).todo[i - 1] = j.todo[i]
      BY <1>1
    <2> QED BY <2>1 DEF I!Ahead
  <1>6. Head(j.todo) \in {"account", "sessions"} => ~I!Ahead(I!Rest(j), {Head(j.todo)})
    BY <1>1, <1>2 DEF Planned, I!Ahead
  <1>7. ~I!Ahead(I!Rest(j), {"read", "consume"})
    BY <1>1 DEF Planned, I!Ahead
  <1>8. Head(j.todo) # "session" => ~I!Ahead(I!Rest(j), {"rehash"})
    <2> SUFFICES ASSUME NEW i \in 1 .. Len(I!Rest(j).todo), I!Rest(j).todo[i] = "rehash"
                 PROVE  Head(j.todo) = "session"
      BY DEF I!Ahead
    <2>1. i + 1 \in 1 .. Len(j.todo) /\ 1 \in 1 .. Len(j.todo) /\ i + 1 # 1
          /\ j.todo[i + 1] = "rehash"
      BY <1>1
    <2> QED BY <1>2, <2>1 DEF Planned
  <1> QED BY <1>1, <1>3, <1>4, <1>5, <1>6, <1>7, <1>8

-----------------------------------------------------------------------------
(* The inductive invariant.                                                *)

\* What a job says of the rows it was made from and is about to write.
Fit == {j \in I!Jobs :
    /\ Planned(j)
    /\ account[j.on] # I!Unregistered /\ j.row # I!Unregistered
    /\ I!Ahead(j, {"account"}) /\ "account" \notin j.stale => I!Live(j.on)
    /\ I!Ahead(j, {"rehash"}) /\ "password" \notin j.stale => j.secret \in {chosen[j.on], I!Revoked}
    /\ I!Ahead(j, {"announce"}) =>
          IF I!Ahead(j, {"account"}) THEN j.row.status = "archived"
          ELSE account[j.on].status = "archived"
    /\ j.link # Nobody =>
          /\ link[j.link] # I!Unmade
          /\ ~I!Ahead(j, {"read", "consume"}) => j.link \in spent
    /\ Spender(j) => uses[j.link] = 0
    /\ Telling(j) => \A s \in j.ends : s \in ended /\ reported[s] = 0}

JobsFit == doing \in [Requests -> {I!Idle} \cup Fit]
JobsApart == \A q, r \in Requests :
    q # r /\ doing[q] # I!Idle /\ doing[r] # I!Idle => Compatible(doing[q], doing[r])

RowTypes ==
    /\ account \in [Persons -> I!Rows]
    /\ secret \in [Persons -> Passwords \cup {I!Revoked}]
    /\ link \in [Letters -> {I!Unmade} \cup [on : Persons, kind : I!Kinds, to : Addresses]]
    /\ spent \subseteq {l \in Letters : link[l] # I!Unmade}
    /\ expired \subseteq {l \in Letters : link[l] # I!Unmade}
    /\ mailed \subseteq {l \in Letters : link[l] # I!Unmade}
    /\ holder \in [Visits -> Persons \cup {Nobody}]
    /\ ended \subseteq {s \in Visits : holder[s] # Nobody}
    /\ reported \in [Visits -> Nat]
    /\ announced \subseteq {a \in Persons : account[a].status = "archived"}
    /\ uses \in [Letters -> Nat]
    /\ chosen \in [Persons -> Passwords \cup {I!Revoked}]

\* Nothing is of an account before it is registered.
Founded == \A a \in Persons : account[a] = I!Unregistered =>
    /\ secret[a] = I!Revoked
    /\ \A l \in Letters : link[l].on # a
    /\ \A s \in Visits : holder[s] # a

\* What was saved for a link was saved after it was consumed.
UsedIsSpent == \A l \in Letters : uses[l] <= 1 /\ (l \notin spent => uses[l] = 0)

RowsHold == RowTypes /\ Founded /\ I!StoredIsChosen /\ UsedIsSpent /\ I!EndsAreToldOnce
LinksInv == RowsHold /\ JobsFit /\ JobsApart

-----------------------------------------------------------------------------
(* How jobs follow the rows.                                               *)

\* Rows are never unmade: accounts are kept, and closed ones closed.
Grows ==
    /\ \A a \in Persons : /\ account[a] # I!Unregistered => account'[a] # I!Unregistered
                          /\ account[a].status = "archived" => account'[a].status = "archived"
    /\ \A l \in Letters : link[l] # I!Unmade => link'[l] # I!Unmade
    /\ spent \subseteq spent' /\ ended \subseteq ended'

\* j is to be k after the step.
FollowsALink(k, j) ==
    /\ Planned(k) /\ SameBut(k, j)
    /\ \A S \in SUBSET Plan : I!Ahead(k, S) => I!Ahead(j, S)
    /\ I!Ahead(k, {"account"}) /\ "account" \notin k.stale =>
          "account" \notin j.stale /\ account'[j.on] = account[j.on]
    /\ I!Ahead(k, {"rehash"}) /\ "password" \notin k.stale =>
          "password" \notin j.stale /\ chosen'[j.on] = chosen[j.on]
    /\ I!Ahead(k, {"announce"}) /\ ~I!Ahead(k, {"account"}) /\ I!Ahead(j, {"account"}) =>
          account'[j.on].status = "archived"
    /\ j.link # Nobody /\ ~I!Ahead(k, {"read", "consume"}) /\ I!Ahead(j, {"read", "consume"}) =>
          j.link \in spent'
    /\ Spender(k) => uses'[j.link] = 0
    /\ Telling(k) => \A s \in k.ends : s \in ended' /\ reported'[s] = 0

LEMMA FollowsFit ==
    ASSUME NEW j \in Fit, NEW k \in I!Jobs, Grows, FollowsALink(k, j)
    PROVE  k \in Fit'
  <1>1. j \in I!Jobs /\ Planned(j) /\ account[j.on] # I!Unregistered /\ j.row # I!Unregistered
    BY DEF Fit
  <1>2. j.on \in Persons /\ j.link \in Letters \cup {Nobody} BY <1>1, JobFields
  <1>3. k.on = j.on /\ k.row = j.row /\ k.link = j.link /\ k.secret = j.secret
    BY DEF FollowsALink, SameBut
  <1>4. /\ I!Ahead(k, {"account"}) => I!Ahead(j, {"account"})
        /\ I!Ahead(k, {"rehash"}) => I!Ahead(j, {"rehash"})
        /\ I!Ahead(k, {"announce"}) => I!Ahead(j, {"announce"})
    <2>1. {"account"} \in SUBSET Plan /\ {"rehash"} \in SUBSET Plan /\ {"announce"} \in SUBSET Plan
      BY DEF Plan
    <2> QED BY <2>1 DEF FollowsALink
  <1>5. Planned(k) /\ account'[k.on] # I!Unregistered /\ k.row # I!Unregistered
    BY <1>1, <1>2, <1>3 DEF FollowsALink, Grows
  <1>6. ASSUME I!Ahead(k, {"account"}), "account" \notin k.stale
        PROVE  account'[k.on].status \in {"pending", "active"}
    <2>1. "account" \notin j.stale /\ account'[j.on] = account[j.on]
      BY <1>6 DEF FollowsALink
    <2>2. I!Live(j.on) BY <1>4, <1>6, <2>1 DEF Fit
    <2> QED BY <1>3, <2>1, <2>2 DEF I!Live, I!AccountByID
  <1>7. ASSUME I!Ahead(k, {"rehash"}), "password" \notin k.stale
        PROVE  k.secret \in {chosen'[k.on], I!Revoked}
    <2>1. "password" \notin j.stale /\ chosen'[j.on] = chosen[j.on]
      BY <1>7 DEF FollowsALink
    <2>2. j.secret \in {chosen[j.on], I!Revoked} BY <1>4, <1>7, <2>1 DEF Fit
    <2> QED BY <1>3, <2>1, <2>2
  <1>8. ASSUME I!Ahead(k, {"announce"})
        PROVE  IF I!Ahead(k, {"account"}) THEN k.row.status = "archived"
               ELSE account'[k.on].status = "archived"
    <2>1. IF I!Ahead(j, {"account"}) THEN j.row.status = "archived"
          ELSE account[j.on].status = "archived"
      BY <1>4, <1>8 DEF Fit
    <2>2. CASE I!Ahead(k, {"account"}) BY <1>3, <1>4, <2>1, <2>2
    <2>3. CASE ~I!Ahead(k, {"account"})
      <3>1. CASE I!Ahead(j, {"account"}) BY <1>3, <1>8, <2>3, <3>1 DEF FollowsALink
      <3>2. CASE ~I!Ahead(j, {"account"}) BY <1>2, <1>3, <2>1, <2>3, <3>2 DEF Grows
      <3> QED BY <3>1, <3>2
    <2> QED BY <2>2, <2>3
  <1>9. ASSUME k.link # Nobody
        PROVE  /\ link'[k.link] # I!Unmade
               /\ ~I!Ahead(k, {"read", "consume"}) => k.link \in spent'
    <2>1. /\ j.link # Nobody /\ link[j.link] # I!Unmade
          /\ ~I!Ahead(j, {"read", "consume"}) => j.link \in spent
      BY <1>3, <1>9 DEF Fit
    <2>2. link'[j.link] # I!Unmade /\ spent \subseteq spent' BY <1>2, <2>1 DEF Grows
    <2>3. ~I!Ahead(k, {"read", "consume"}) /\ I!Ahead(j, {"read", "consume"}) => j.link \in spent'
      BY <2>1 DEF FollowsALink
    <2> QED BY <1>3, <2>1, <2>2, <2>3
  <1>10. (Spender(k) => uses'[k.link] = 0)
         /\ (Telling(k) => \A s \in k.ends : s \in ended' /\ reported'[s] = 0)
    BY <1>3 DEF FollowsALink
  <1> QED BY <1>5, <1>6, <1>7, <1>8, <1>9, <1>10 DEF Fit, I!Live, I!AccountByID

\* A job that stands still, when nothing it rests on is written.
Quiet(j) ==
    /\ I!Ahead(j, {"account"}) /\ "account" \notin j.stale => account'[j.on] = account[j.on]
    /\ I!Ahead(j, {"rehash"}) /\ "password" \notin j.stale => chosen'[j.on] = chosen[j.on]
    /\ Spender(j) => uses'[j.link] = uses[j.link]
    /\ Telling(j) => \A s \in j.ends : reported'[s] = reported[s]

LEMMA QuietFits ==
    ASSUME NEW j \in Fit, Grows, Quiet(j) PROVE j \in Fit'
  <1>1. Planned(j) /\ j \in I!Jobs /\ SameBut(j, j) BY DEF Fit, SameBut
  <1>2. Spender(j) => uses'[j.link] = 0 BY DEF Fit, Quiet
  <1>3. Telling(j) => \A s \in j.ends : s \in ended' /\ reported'[s] = 0
    BY DEF Fit, Quiet, Grows
  <1>4. FollowsALink(j, j) BY <1>1, <1>2, <1>3 DEF FollowsALink, Quiet
  <1> QED BY <1>1, <1>4, FollowsFit

\* A copy that falls behind need not be quiet about the row it is a copy of.
LEMMA StaleFits ==
    ASSUME NEW j \in Fit, Grows, NEW what \in {"account", "password"},
           NEW k, k = [j EXCEPT !.stale = @ \cup {what}], Quiet(k)
    PROVE  k \in Fit' /\ k.todo = j.todo /\ k.link = j.link /\ k.ends = j.ends
  <1>1. j \in I!Jobs BY DEF Fit
  <1>2. /\ k \in I!Jobs /\ k.todo = j.todo /\ k.link = j.link /\ k.ends = j.ends
        /\ SameBut(k, j) /\ k.stale = j.stale \cup {what}
    BY <1>1 DEF I!Jobs, SameBut
  <1>3. \A S : I!Ahead(k, S) <=> I!Ahead(j, S) BY <1>2 DEF I!Ahead
  <1>4. Planned(k) BY <1>2 DEF Fit, Planned
  <1>5. /\ Spender(k) => uses'[j.link] = 0
        /\ Telling(k) => \A s \in k.ends : s \in ended' /\ reported'[s] = 0
    <2>1. (Spender(k) <=> Spender(j)) /\ (Telling(k) <=> Telling(j))
      BY <1>2, <1>3 DEF Spender, Telling
    <2> QED BY <1>2, <2>1 DEF Fit, Quiet, Grows
  <1>6. k.on = j.on BY <1>2 DEF SameBut
  <1>7. FollowsALink(k, j) BY <1>2, <1>3, <1>4, <1>5, <1>6 DEF FollowsALink, Quiet
  <1> QED BY <1>1, <1>2, <1>7, FollowsFit

\* A job goes on to its next step.
LEMMA RestFits ==
    ASSUME NEW j \in Fit, I!Rest(j) # I!Idle, Grows,
           Head(j.todo) = "account" =>
              (I!Ahead(j, {"announce"}) => account'[j.on].status = "archived"),
           Head(j.todo) # "account" => account'[j.on] = account[j.on],
           Head(j.todo) = "session" => chosen'[j.on] = chosen[j.on],
           Head(j.todo) = "consume" => j.link \in spent',
           Spender(I!Rest(j)) => uses'[j.link] = 0,
           Telling(I!Rest(j)) => \A s \in j.ends : s \in ended' /\ reported'[s] = 0
    PROVE  I!Rest(j) \in Fit'
  <1> DEFINE k == I!Rest(j)
  <1>1. j \in I!Jobs /\ Planned(j) /\ Len(j.todo) > 0 BY DEF Fit, Planned
  <1>2. /\ k \in I!Jobs /\ SameBut(k, j) /\ k.ends = j.ends /\ k.stale = j.stale
    BY <1>1, RestIs
  <1>3. /\ Planned(k)
        /\ \A S : I!Ahead(k, S) => I!Ahead(j, S)
        /\ \A S : I!Ahead(j, S) => Head(j.todo) \in S \/ I!Ahead(k, S)
        /\ Head(j.todo) \in {"account", "sessions"} => ~I!Ahead(k, {Head(j.todo)})
        /\ ~I!Ahead(k, {"read", "consume"})
        /\ Head(j.todo) # "session" => ~I!Ahead(k, {"rehash"})
    BY <1>1, RestAhead
  <1> HIDE DEF k
  <1>4. I!Ahead(k, {"account"}) => account'[j.on] = account[j.on]
    BY <1>3
  <1>5. I!Ahead(k, {"announce"}) /\ ~I!Ahead(k, {"account"}) /\ I!Ahead(j, {"account"}) =>
           account'[j.on].status = "archived"
    BY <1>3
  <1>6. j.link # Nobody /\ I!Ahead(j, {"read", "consume"}) => j.link \in spent'
    <2> SUFFICES ASSUME j.link # Nobody, Head(j.todo) \in {"read", "consume"}
                 PROVE  j.link \in spent'
      BY <1>3
    <2>1. CASE Head(j.todo) = "read"
      <3>1. Len(j.todo) = 1
        <4>1. j.todo[1] = "read" /\ 1 \in 1 .. Len(j.todo)
          BY <1>1, <2>1, JobFields
        <4> QED BY <1>1, <4>1 DEF Planned
      <3> QED BY <3>1 DEF I!Rest
    <2> QED BY <2>1
  <1>7. FollowsALink(k, j)
    BY <1>2, <1>3, <1>4, <1>5, <1>6 DEF FollowsALink, k
  <1> QED BY <1>1, <1>2, <1>7, FollowsFit DEF k

-----------------------------------------------------------------------------
(* How the jobs together follow.                                           *)

LEMMA Narrower ==
    ASSUME NEW j, NEW k, NEW m, Compatible(j, m),
           Spender(k) => Spender(j) /\ k.link = j.link,
           Telling(k) => Telling(j) /\ k.ends \subseteq j.ends
    PROVE  Compatible(k, m)
  BY DEF Compatible

LEMMA CompatibleBothWays == ASSUME NEW j, NEW k, Compatible(j, k) PROVE Compatible(k, j)
  BY DEF Compatible

\* One job moves, and the others stand still.
LEMMA OneMoves ==
    ASSUME LinksInv, Grows, NEW q \in Requests, NEW k, doing' = [doing EXCEPT ![q] = k],
           \A r \in Requests \ {q} : doing[r] # I!Idle => Quiet(doing[r]),
           k # I!Idle => /\ k \in Fit'
                         /\ \A r \in Requests \ {q} : doing[r] # I!Idle => Compatible(k, doing[r])
    PROVE  JobsFit' /\ JobsApart'
  <1>1. \A r \in Requests : doing'[r] = IF r = q THEN k ELSE doing[r]
    BY DEF LinksInv, JobsFit
  <1>2. ASSUME NEW r \in Requests PROVE doing'[r] \in {I!Idle} \cup Fit'
    <2>1. doing[r] = I!Idle \/ doing[r] \in Fit BY DEF LinksInv, JobsFit
    <2> QED BY <1>1, <2>1, QuietFits
  <1>3. JobsFit' BY <1>2 DEF LinksInv, JobsFit
  <1>4. ASSUME NEW r \in Requests, NEW u \in Requests, r # u, doing'[r] # I!Idle, doing'[u] # I!Idle
        PROVE  Compatible(doing'[r], doing'[u])
    <2>1. CASE r # q /\ u # q BY <1>1, <1>4, <2>1 DEF LinksInv, JobsApart
    <2>2. CASE r = q BY <1>1, <1>4, <2>2
    <2>3. CASE u = q BY <1>1, <1>4, <2>3, CompatibleBothWays
    <2> QED BY <2>1, <2>2, <2>3
  <1>5. JobsApart' BY <1>4 DEF JobsApart
  <1> QED BY <1>3, <1>5

\* A step that neither consumes a link nor ends sessions leaves no more to do.
LEMMA RestNarrow ==
    ASSUME NEW j \in I!Jobs, Planned(j), I!Rest(j) # I!Idle,
           Head(j.todo) \notin {"consume", "sessions"}
    PROVE  /\ I!Rest(j).link = j.link /\ I!Rest(j).ends = j.ends
           /\ Spender(I!Rest(j)) => Spender(j)
           /\ Telling(I!Rest(j)) => Telling(j)
  <1> DEFINE k == I!Rest(j)
  <1>1. Len(j.todo) > 0 BY DEF Planned
  <1>2. k.link = j.link /\ k.ends = j.ends
    BY <1>1, RestIs DEF SameBut
  <1>3. /\ I!Ahead(k, {"tell"}) => I!Ahead(j, {"tell"})
        /\ I!Ahead(j, {"sessions"}) => I!Ahead(k, {"sessions"})
        /\ I!Ahead(k, {"account", "password"}) => I!Ahead(j, {"account", "password"})
        /\ I!Ahead(j, {"read", "consume"}) => Head(j.todo) = "read" \/ I!Ahead(k, {"read", "consume"})
    BY RestAhead
  <1>4. Head(j.todo) # "read"
    <2>1. Len(j.todo) # 1 BY DEF I!Rest
    <2>2. j.todo[1] = Head(j.todo) /\ 1 \in 1 .. Len(j.todo) BY <1>1, JobFields
    <2> QED BY <2>1, <2>2 DEF Planned
  <1> HIDE DEF k
  <1>5. Spender(k) => Spender(j) BY <1>2, <1>3, <1>4 DEF Spender
  <1>6. Telling(k) => Telling(j) BY <1>3 DEF Telling
  <1> QED BY <1>2, <1>5, <1>6 DEF k

\* One job stops or goes on, while the others stand still.
LEMMA OneDoingGoesOn ==
    ASSUME LinksInv, Grows, NEW q \in Requests, doing[q] # I!Idle, NEW k,
           k = I!Idle \/ k = I!Rest(doing[q]), doing' = [doing EXCEPT ![q] = k],
           \A r \in Requests \ {q} : doing[r] # I!Idle => Quiet(doing[r]),
           Head(doing[q].todo) \notin {"consume", "sessions"},
           k # I!Idle => k \in Fit'
    PROVE  JobsFit' /\ JobsApart'
  <1>1. doing[q] \in I!Jobs /\ Planned(doing[q]) BY DEF LinksInv, JobsFit, Fit
  <1>2. ASSUME k # I!Idle, NEW r \in Requests \ {q}, doing[r] # I!Idle
        PROVE  Compatible(k, doing[r])
    <2>1. Compatible(doing[q], doing[r]) BY <1>2 DEF LinksInv, JobsApart
    <2>2. k = I!Rest(doing[q]) BY <1>2
    <2>3. /\ Spender(k) => Spender(doing[q]) /\ k.link = doing[q].link
          /\ Telling(k) => Telling(doing[q]) /\ k.ends \subseteq doing[q].ends
      BY <1>1, <1>2, <2>2, RestNarrow
    <2> QED BY <2>1, <2>3, Narrower
  <1> QED BY <1>2, OneMoves

\* Nothing but jobs.
LEMMA StillRows ==
    ASSUME UNCHANGED <<I!rows, uses, chosen>>
    PROVE  /\ Grows /\ (RowsHold => RowsHold') /\ Fit' = Fit
           /\ \A j : Quiet(j)
  <1>1. Grows BY DEF Grows, I!rows
  <1>2. RowsHold => RowsHold'
    BY DEF RowsHold, RowTypes, Founded, I!StoredIsChosen, UsedIsSpent, I!EndsAreToldOnce, I!rows
  <1>3. Fit' = Fit BY DEF Fit, I!Live, I!AccountByID, I!rows
  <1>4. \A j : Quiet(j) BY DEF Quiet, I!rows
  <1> QED BY <1>1, <1>2, <1>3, <1>4

\* A request begins, or has read again, and has nothing on its hands yet.
New(j) == j \in Fit /\ ~Spender(j) /\ ~Telling(j)

LEMMA NewJob ==
    ASSUME LinksInv, NEW q \in Requests, NEW k, k = I!Idle \/ New(k),
           doing' = [doing EXCEPT ![q] = k], UNCHANGED <<I!rows, uses, chosen>>
    PROVE  LinksInv'
  <1>1. \A m : New(k) => Compatible(k, m) BY DEF New, Compatible
  <1>2. JobsFit' /\ JobsApart'
    BY <1>1, StillRows, OneMoves DEF New
  <1> QED BY <1>2, StillRows DEF LinksInv

-----------------------------------------------------------------------------
(* The plans of the requests.                                              *)

Closing == <<"account", "credential", "password", "links", "sessions", "announce", "tell">>

\* Each plan is well made, and begins with nothing on its hands.
LEMMA ShortPlans ==
    ASSUME NEW j, j.todo \in {<<"links", "mint">>, <<"session">>, <<"sessions", "tell">>,
                              <<"read">>, <<"consume">>},
           j.todo \in {<<"read">>, <<"consume">>} => j.link # Nobody
    PROVE  /\ Planned(j) /\ ~Spender(j) /\ ~Telling(j)
           /\ ~I!Ahead(j, {"account"}) /\ ~I!Ahead(j, {"rehash"}) /\ ~I!Ahead(j, {"announce"})
           /\ j.todo \in {<<"read">>, <<"consume">>} => I!Ahead(j, {"read", "consume"})
  <1>1. CASE j.todo = <<"links", "mint">> BY <1>1 DEF Planned, Spender, Telling, I!Ahead
  <1>2. CASE j.todo = <<"session">> BY <1>2 DEF Planned, Spender, Telling, I!Ahead
  <1>3. CASE j.todo = <<"sessions", "tell">> BY <1>3 DEF Planned, Spender, Telling, I!Ahead
  <1>4. CASE j.todo = <<"read">> BY <1>4 DEF Planned, Spender, Telling, I!Ahead
  <1>5. CASE j.todo = <<"consume">> BY <1>5 DEF Planned, Spender, Telling, I!Ahead
  <1> QED BY <1>1, <1>2, <1>3, <1>4, <1>5

LEMMA PasswordPlan ==
    ASSUME NEW j, j.todo = <<"password", "links", "sessions", "tell">>, j.link = Nobody
    PROVE  /\ Planned(j) /\ ~Spender(j) /\ ~Telling(j)
           /\ ~I!Ahead(j, {"account"}) /\ ~I!Ahead(j, {"rehash"}) /\ ~I!Ahead(j, {"announce"})
  BY DEF Planned, Spender, Telling, I!Ahead

LEMMA ResetPlan ==
    ASSUME NEW j, j.todo = <<"consume", "password", "sessions", "tell">>, j.link # Nobody
    PROVE  /\ Planned(j) /\ ~Spender(j) /\ ~Telling(j)
           /\ ~I!Ahead(j, {"account"}) /\ ~I!Ahead(j, {"rehash"}) /\ ~I!Ahead(j, {"announce"})
           /\ I!Ahead(j, {"read", "consume"})
  BY DEF Planned, Spender, Telling, I!Ahead

LEMMA AccountPlan ==
    ASSUME NEW j, \/ j.todo = <<"account">> /\ j.link = Nobody
                  \/ j.todo = <<"consume", "account">> /\ j.link # Nobody
    PROVE  /\ Planned(j) /\ ~Spender(j) /\ ~Telling(j)
           /\ ~I!Ahead(j, {"rehash"}) /\ ~I!Ahead(j, {"announce"})
           /\ j.todo = <<"consume", "account">> => I!Ahead(j, {"read", "consume"})
  <1>1. CASE j.todo = <<"account">> /\ j.link = Nobody BY <1>1 DEF Planned, Spender, Telling, I!Ahead
  <1>2. CASE j.todo = <<"consume", "account">> /\ j.link # Nobody BY <1>2 DEF Planned, Spender, Telling, I!Ahead
  <1> QED BY <1>1, <1>2

LEMMA RehashPlan ==
    ASSUME NEW j, j.todo = <<"rehash", "session">>
    PROVE  /\ Planned(j) /\ ~Spender(j) /\ ~Telling(j)
           /\ ~I!Ahead(j, {"account"}) /\ ~I!Ahead(j, {"announce"})
  BY DEF Planned, Spender, Telling, I!Ahead

LEMMA ClosingPlan ==
    ASSUME NEW j, j.todo = Closing, j.link = Nobody
    PROVE  /\ Planned(j) /\ ~Spender(j) /\ ~Telling(j)
           /\ I!Ahead(j, {"account"}) /\ ~I!Ahead(j, {"rehash"})
  <1>1. Planned(j) BY DEF Planned, Closing
  <1>2. ~Spender(j) BY DEF Spender
  <1>3. ~Telling(j) /\ I!Ahead(j, {"account"}) /\ ~I!Ahead(j, {"rehash"})
    BY DEF Telling, I!Ahead, Closing
  <1> QED BY <1>1, <1>2, <1>3

\* A job of one of those plans fits the rows it was made from.
LEMMA NewFits ==
    ASSUME NEW j \in I!Jobs, account[j.on] # I!Unregistered, j.row # I!Unregistered,
           j.link # Nobody => link[j.link] # I!Unmade,
           \/ j.todo \in {<<"links", "mint">>, <<"session">>, <<"sessions", "tell">>} /\ j.link = Nobody
           \/ j.todo \in {<<"read">>, <<"consume">>} /\ j.link # Nobody
           \/ j.todo = <<"password", "links", "sessions", "tell">> /\ j.link = Nobody
           \/ j.todo = <<"consume", "password", "sessions", "tell">> /\ j.link # Nobody
           \/ j.todo = <<"account">> /\ j.link = Nobody /\ I!Live(j.on)
           \/ j.todo = <<"consume", "account">> /\ j.link # Nobody /\ I!Live(j.on)
           \/ j.todo = <<"rehash", "session">> /\ j.link = Nobody /\ j.secret \in {chosen[j.on], I!Revoked}
           \/ j.todo = Closing /\ j.link = Nobody /\ I!Live(j.on) /\ j.row.status = "archived"
    PROVE  New(j)
  <1>1. /\ Planned(j) /\ ~Spender(j) /\ ~Telling(j)
        /\ I!Ahead(j, {"account"}) => I!Live(j.on)
        /\ I!Ahead(j, {"rehash"}) => j.secret \in {chosen[j.on], I!Revoked}
        /\ I!Ahead(j, {"announce"}) => I!Ahead(j, {"account"}) /\ j.row.status = "archived"
        /\ j.link # Nobody => I!Ahead(j, {"read", "consume"})
    <2>1. CASE j.todo \in {<<"links", "mint">>, <<"session">>, <<"sessions", "tell">>} /\ j.link = Nobody
      BY <2>1, ShortPlans
    <2>2. CASE j.todo \in {<<"read">>, <<"consume">>} /\ j.link # Nobody BY <2>2, ShortPlans
    <2>3. CASE j.todo = <<"password", "links", "sessions", "tell">> /\ j.link = Nobody
      BY <2>3, PasswordPlan
    <2>4. CASE j.todo = <<"consume", "password", "sessions", "tell">> /\ j.link # Nobody
      BY <2>4, ResetPlan
    <2>5. CASE j.todo = <<"account">> /\ j.link = Nobody /\ I!Live(j.on) BY <2>5, AccountPlan
    <2>6. CASE j.todo = <<"consume", "account">> /\ j.link # Nobody /\ I!Live(j.on)
      BY <2>6, AccountPlan
    <2>7. CASE j.todo = <<"rehash", "session">> /\ j.link = Nobody
               /\ j.secret \in {chosen[j.on], I!Revoked}
      BY <2>7, RehashPlan
    <2>8. CASE j.todo = Closing /\ j.link = Nobody /\ I!Live(j.on) /\ j.row.status = "archived"
      BY <2>8, ClosingPlan
    <2> QED BY <2>1, <2>2, <2>3, <2>4, <2>5, <2>6, <2>7, <2>8
  <1> QED BY <1>1 DEF New, Fit

-----------------------------------------------------------------------------
(* The requests begin.                                                     *)

LEMMA RowKinds ==
    ASSUME NEW r \in I!Rows, r # I!Unregistered
    PROVE  /\ r \in [status : {"pending", "active", "archived"}, email : Addresses]
           /\ I!Archive(r) \in I!Rows /\ I!Archive(r) # I!Unregistered /\ I!Archive(r).status = "archived"
           /\ I!Activate(r) \in I!Rows /\ I!Activate(r) # I!Unregistered
           /\ \A e \in Addresses : /\ [r EXCEPT !.email = e] \in I!Rows
                                   /\ [r EXCEPT !.email = e] # I!Unregistered
                                   /\ I!ChangeEmail(r, e) \in I!Rows
                                   /\ I!ChangeEmail(r, e) # I!Unregistered
  <1>1. r \in [status : {"pending", "active", "archived"}, email : Addresses] BY DEF I!Rows
  <1>2. \A x \in [status : {"pending", "active", "archived"}, email : Addresses] :
           x \in I!Rows /\ x # I!Unregistered
    BY DEF I!Rows, I!Unregistered
  <1>3. /\ I!Archive(r) \in [status : {"pending", "active", "archived"}, email : Addresses]
        /\ I!Archive(r).status = "archived"
    BY <1>1 DEF I!Archive
  <1>4. I!Activate(r) \in [status : {"pending", "active", "archived"}, email : Addresses]
    BY <1>1 DEF I!Activate
  <1>5. \A e \in Addresses :
           [r EXCEPT !.email = e] \in [status : {"pending", "active", "archived"}, email : Addresses]
    BY <1>1
  <1>6. \A e \in Addresses :
           I!ChangeEmail(r, e) \in [status : {"pending", "active", "archived"}, email : Addresses]
    BY <1>4 DEF I!ChangeEmail
  <1> QED BY <1>1, <1>2, <1>3, <1>4, <1>5, <1>6

\* Whoever holds a password, a link or a session is registered.
LEMMA KnownAccounts ==
    ASSUME NobodyIsNone, LinksInv, NEW a \in Persons
    PROVE  /\ account[a] \in I!Rows
           /\ I!Live(a) => account[a] # I!Unregistered
           /\ account[a].status = "archived" => account[a] # I!Unregistered
           /\ \A s : I!Holds(a, s) => account[a] # I!Unregistered
           /\ \A l \in Letters : link[l].on = a => account[a] # I!Unregistered
           /\ \A s \in Visits : holder[s] = a => account[a] # I!Unregistered
  <1>1. account[a] \in I!Rows BY DEF LinksInv, RowsHold, RowTypes
  <1>2. I!Live(a) \/ account[a].status = "archived" => account[a] # I!Unregistered
    BY DEF I!Live, I!AccountByID, I!Unregistered
  <1>3. account[a] = I!Unregistered =>
           /\ secret[a] = I!Revoked
           /\ \A l \in Letters : link[l].on # a
           /\ \A s \in Visits : holder[s] # a
    BY DEF LinksInv, RowsHold, Founded
  <1>4. \A s : I!Holds(a, s) => secret[a] # I!Revoked
    BY DEF I!Holds, I!LivePasswordForAccount
  <1> QED BY <1>1, <1>2, <1>3, <1>4

LEMMA Plans ==
    /\ <<"links", "mint">> \in Seq(Plan) /\ <<"session">> \in Seq(Plan)
    /\ <<"sessions", "tell">> \in Seq(Plan) /\ <<"read">> \in Seq(Plan)
    /\ <<"consume">> \in Seq(Plan) /\ <<"consume", "account">> \in Seq(Plan)
    /\ <<"password", "links", "sessions", "tell">> \in Seq(Plan)
    /\ <<"consume", "password", "sessions", "tell">> \in Seq(Plan)
    /\ <<"account">> \in Seq(Plan) /\ <<"rehash", "session">> \in Seq(Plan)
    /\ Closing \in Seq(Plan)
  BY DEF Plan, Closing

LEMMA BeginningKept ==
    ASSUME LinksInv, NEW q \in Requests, NEW j, New(j), I!Start(q, j) PROVE LinksInv'
  BY NewJob DEF I!Start

\* A job in which the links, the password or the session of the account are to
\* be written, or the account under the version that was read.
LEMMA MintKept ==
    ASSUME NobodyIsNone, LinksInv, NEW q \in Requests, NEW a \in Persons,
           I!AskVerification(q, a) \/ I!AskReset(q, a), account[a] # I!Unregistered
    PROVE  LinksInv'
  <1> DEFINE b == I!Begin(q, a, <<"links", "mint">>)
  <1>1. /\ b \in I!Jobs /\ b.todo = <<"links", "mint">> /\ b.on = a /\ b.link = Nobody
        /\ b.row = account[a]
    <2>1. account[a] \in I!Rows /\ <<"links", "mint">> \in Seq(Plan) BY KnownAccounts, Plans
    <2> QED BY <2>1 DEF I!Begin, I!Jobs, Plan, I!Kinds, I!RevokeSessionsForAccount
  <1>2. PICK kind \in I!Kinds : I!Start(q, [b EXCEPT !.kind = kind])
    BY DEF I!AskVerification, I!AskReset, I!Kinds
  <1> DEFINE k == [b EXCEPT !.kind = kind]
  <1> HIDE DEF b
  <1>3. /\ k \in I!Jobs /\ k.todo = <<"links", "mint">> /\ k.on = a /\ k.link = Nobody
        /\ k.row = account[a]
    BY <1>1 DEF I!Jobs
  <1> HIDE DEF k
  <1>4. New(k) BY <1>3, NewFits
  <1> QED BY <1>2, <1>4, BeginningKept DEF k

LEMMA EmailKept ==
    ASSUME NobodyIsNone, LinksInv, NEW q \in Requests, NEW a \in Persons, NEW s,
           NEW email \in Addresses, I!AskEmail(q, a, s, email)
    PROVE  LinksInv'
  <1> DEFINE b == I!Begin(q, a, <<"links", "mint">>)
             r == [account[a] EXCEPT !.email = email]
             k == [b EXCEPT !.row = r]
  <1>0. account[a] \in I!Rows /\ account[a] # I!Unregistered
    BY KnownAccounts DEF I!AskEmail
  <1>1. /\ b \in I!Jobs /\ b.todo = <<"links", "mint">> /\ b.on = a /\ b.link = Nobody
        /\ b.row = account[a]
    <2>1. <<"links", "mint">> \in Seq(Plan) BY Plans
    <2> QED BY <1>0, <2>1 DEF I!Begin, I!Jobs, Plan, I!Kinds, I!RevokeSessionsForAccount
  <1>2. I!Start(q, [b EXCEPT !.row = [b.row EXCEPT !.email = email]])
    BY Zenon DEF I!AskEmail
  <1>3. I!Start(q, k) BY <1>1, <1>2
  <1>4. r \in I!Rows /\ r # I!Unregistered BY <1>0, RowKinds
  <1> HIDE DEF b, r
  <1>5. /\ k \in I!Jobs /\ k.todo = <<"links", "mint">> /\ k.on = a /\ k.link = Nobody
        /\ k.row = r
    BY <1>1, <1>4 DEF I!Jobs
  <1> HIDE DEF k
  <1>6. New(k) BY <1>0, <1>4, <1>5, NewFits
  <1> QED BY <1>3, <1>6, BeginningKept

LEMMA FollowKept ==
    ASSUME NobodyIsNone, LinksInv, NEW q \in Requests, NEW l \in Letters,
           NEW s \in Passwords \cup {I!Revoked}, I!Follow(q, l, s)
    PROVE  LinksInv'
  <1> DEFINE a == link[l].on
             b == I!Begin(q, a, <<"read">>)
             k == [b EXCEPT !.link = l, !.kind = link[l].kind, !.secret = s]
  <1>1. link[l] # I!Unmade
    BY DEF I!Follow, I!Works, LinksInv, RowsHold, RowTypes
  <1>2. a \in Persons /\ link[l].kind \in I!Kinds BY <1>1 DEF LinksInv, RowsHold, RowTypes
  <1>3. account[a] \in I!Rows /\ account[a] # I!Unregistered BY <1>2, KnownAccounts
  <1>4. /\ b \in I!Jobs /\ b.todo = <<"read">> /\ b.on = a /\ b.link = Nobody
        /\ b.row = account[a]
    <2>1. <<"read">> \in Seq(Plan) BY Plans
    <2> HIDE DEF a
    <2> QED BY <1>2, <1>3, <2>1 DEF I!Begin, I!Jobs, Plan, I!Kinds, I!RevokeSessionsForAccount
  <1>5. I!Start(q, k) BY DEF I!Follow
  <1> HIDE DEF b, a
  <1>6. /\ k \in I!Jobs /\ k.todo = <<"read">> /\ k.on = a /\ k.link = l /\ k.row = account[a]
    BY <1>2, <1>4 DEF I!Jobs
  <1> HIDE DEF k
  <1>7. l # Nobody BY DEF NobodyIsNone
  <1>8. New(k) BY <1>1, <1>3, <1>6, <1>7, NewFits
  <1> QED BY <1>5, <1>8, BeginningKept

LEMMA PasswordKept ==
    ASSUME NobodyIsNone, LinksInv, NEW q \in Requests, NEW a \in Persons, NEW own,
           NEW old, NEW new \in Passwords, I!ChangePassword(q, a, own, old, new)
    PROVE  LinksInv'
  <1> DEFINE p == <<"password", "links", "sessions", "tell">>
             b == I!Begin(q, a, p)
             k == [b EXCEPT !.secret = new, !.ends = I!RevokeSessionsExcept(own)]
  <1>1. account[a] \in I!Rows /\ account[a] # I!Unregistered BY KnownAccounts DEF I!ChangePassword
  <1>2. /\ b \in I!Jobs /\ b.todo = p /\ b.on = a /\ b.link = Nobody /\ b.row = account[a]
    <2>1. p \in Seq(Plan) BY Plans
    <2> QED BY <1>1, <2>1 DEF I!Begin, I!Jobs, Plan, I!Kinds, I!RevokeSessionsForAccount
  <1>3. I!Start(q, k) BY DEF I!ChangePassword
  <1> HIDE DEF b, p
  <1>4. /\ k \in I!Jobs /\ k.todo = p /\ k.on = a /\ k.link = Nobody /\ k.row = account[a]
    BY <1>2 DEF I!Jobs, I!RevokeSessionsExcept
  <1> HIDE DEF k
  <1>5. New(k) BY <1>1, <1>4, NewFits DEF p
  <1> QED BY <1>3, <1>5, BeginningKept

LEMMA RenameKept ==
    ASSUME NobodyIsNone, LinksInv, NEW q \in Requests, NEW a \in Persons, I!Rename(q, a)
    PROVE  LinksInv'
  <1> DEFINE k == I!Begin(q, a, <<"account">>)
  <1>1. account[a] \in I!Rows /\ account[a] # I!Unregistered /\ I!Live(a)
    BY KnownAccounts DEF I!Rename
  <1>2. /\ k \in I!Jobs /\ k.todo = <<"account">> /\ k.on = a /\ k.link = Nobody
        /\ k.row = account[a]
    <2>1. <<"account">> \in Seq(Plan) BY Plans
    <2> QED BY <1>1, <2>1 DEF I!Begin, I!Jobs, Plan, I!Kinds, I!RevokeSessionsForAccount
  <1>3. I!Start(q, k) BY DEF I!Rename
  <1> HIDE DEF k
  <1>4. New(k) BY <1>1, <1>2, NewFits
  <1> QED BY <1>3, <1>4, BeginningKept

LEMMA SignInKept ==
    ASSUME NobodyIsNone, LinksInv, NEW q \in Requests, NEW a \in Persons, NEW s \in Passwords,
           NEW needsRehash \in BOOLEAN, I!SignIn(q, a, s, needsRehash)
    PROVE  LinksInv'
  <1>1. account[a] \in I!Rows /\ account[a] # I!Unregistered BY KnownAccounts DEF I!SignIn
  <1>2. s \in {chosen[a], I!Revoked}
    BY DEF I!SignIn, I!Holds, I!LivePasswordForAccount, LinksInv, RowsHold, I!StoredIsChosen
  <1>3. CASE needsRehash
    <2> DEFINE b == I!Begin(q, a, <<"rehash", "session">>)
               k == [b EXCEPT !.secret = s]
    <2>1. I!Start(q, k) BY <1>3 DEF I!SignIn
    <2>2. /\ b \in I!Jobs /\ b.todo = <<"rehash", "session">> /\ b.on = a /\ b.link = Nobody
          /\ b.row = account[a]
      <3>1. <<"rehash", "session">> \in Seq(Plan) BY Plans
      <3> QED BY <1>1, <3>1 DEF I!Begin, I!Jobs, Plan, I!Kinds, I!RevokeSessionsForAccount
    <2> HIDE DEF b
    <2>3. /\ k \in I!Jobs /\ k.todo = <<"rehash", "session">> /\ k.on = a /\ k.link = Nobody
          /\ k.row = account[a] /\ k.secret = s
      BY <2>2 DEF I!Jobs
    <2> HIDE DEF k
    <2>4. New(k) BY <1>1, <1>2, <2>3, NewFits
    <2> QED BY <2>1, <2>4, BeginningKept
  <1>4. CASE ~needsRehash
    <2> DEFINE b == I!Begin(q, a, <<"session">>)
               k == [b EXCEPT !.secret = I!Revoked]
    <2>1. I!Start(q, k) BY <1>4 DEF I!SignIn
    <2>2. /\ b \in I!Jobs /\ b.todo = <<"session">> /\ b.on = a /\ b.link = Nobody
          /\ b.row = account[a]
      <3>1. <<"session">> \in Seq(Plan) BY Plans
      <3> QED BY <1>1, <3>1 DEF I!Begin, I!Jobs, Plan, I!Kinds, I!RevokeSessionsForAccount
    <2> HIDE DEF b
    <2>3. /\ k \in I!Jobs /\ k.todo = <<"session">> /\ k.on = a /\ k.link = Nobody
          /\ k.row = account[a]
      BY <2>2 DEF I!Jobs
    <2> HIDE DEF k
    <2>4. New(k) BY <1>1, <2>3, NewFits
    <2> QED BY <2>1, <2>4, BeginningKept
  <1> QED BY <1>3, <1>4

LEMMA EndSessionKept ==
    ASSUME NobodyIsNone, LinksInv, NEW q \in Requests, NEW a \in Persons, NEW s \in Visits,
           account[a] # I!Unregistered, I!EndSessionByID(q, a, s)
    PROVE  LinksInv'
  <1> DEFINE b == I!Begin(q, a, <<"sessions", "tell">>)
             k == [b EXCEPT !.ends = {s}]
  <1>1. account[a] \in I!Rows BY KnownAccounts
  <1>2. /\ b \in I!Jobs /\ b.todo = <<"sessions", "tell">> /\ b.on = a /\ b.link = Nobody
        /\ b.row = account[a]
    <2>1. <<"sessions", "tell">> \in Seq(Plan) BY Plans
    <2> QED BY <1>1, <2>1 DEF I!Begin, I!Jobs, Plan, I!Kinds, I!RevokeSessionsForAccount
  <1>3. I!Start(q, k) BY DEF I!EndSessionByID, I!RevokeSession
  <1> HIDE DEF b
  <1>4. /\ k \in I!Jobs /\ k.todo = <<"sessions", "tell">> /\ k.on = a /\ k.link = Nobody
        /\ k.row = account[a]
    BY <1>2 DEF I!Jobs
  <1> HIDE DEF k
  <1>5. New(k) BY <1>1, <1>4, NewFits
  <1> QED BY <1>3, <1>5, BeginningKept

LEMMA CloseKept ==
    ASSUME NobodyIsNone, LinksInv, NEW q \in Requests, NEW a \in Persons, NEW s, I!Close(q, a, s)
    PROVE  LinksInv'
  <1> DEFINE b == I!Begin(q, a, Closing)
             r == I!Archive(account[a])
             k == [b EXCEPT !.row = r]
  <1>1. account[a] \in I!Rows /\ account[a] # I!Unregistered /\ I!Live(a)
    BY KnownAccounts DEF I!Close
  <1>2. /\ b \in I!Jobs /\ b.todo = Closing /\ b.on = a /\ b.link = Nobody /\ b.row = account[a]
    <2>1. Closing \in Seq(Plan) BY Plans
    <2> QED BY <1>1, <2>1 DEF I!Begin, I!Jobs, Plan, I!Kinds, I!RevokeSessionsForAccount
  <1>3. I!Start(q, [b EXCEPT !.row = I!Archive(b.row)]) BY DEF I!Close, Closing
  <1>4. I!Start(q, k) BY <1>2, <1>3
  <1>5. r \in I!Rows /\ r # I!Unregistered /\ r.status = "archived" BY <1>1, RowKinds
  <1> HIDE DEF b, r
  <1>6. k \in I!Jobs /\ k.todo = Closing /\ k.on = a /\ k.link = Nobody /\ k.row = r
    BY <1>2, <1>5 DEF I!Jobs
  <1> HIDE DEF k
  <1>7. New(k) BY <1>1, <1>5, <1>6, NewFits
  <1> QED BY <1>4, <1>7, BeginningKept

LEMMA AskingKept ==
    ASSUME NobodyIsNone, LinksInv, NEW q \in Requests, I!Ask(q) PROVE LinksInv'
  <1>1. ASSUME NEW a \in Persons,
               I!RequestVerification(q, a) \/ I!IssueVerification(q, a) \/ I!AskReset(q, a)
        PROVE  LinksInv'
    <2>1. I!AskVerification(q, a) \/ I!AskReset(q, a)
      BY <1>1 DEF I!RequestVerification, I!IssueVerification
    <2>2. account[a] # I!Unregistered
      BY <1>1, KnownAccounts
      DEF I!RequestVerification, I!IssueVerification, I!AskReset, I!Unregistered
    <2> QED BY <2>1, <2>2, MintKept
  <1>2. CASE I!signIn(q) BY <1>2, SignInKept DEF I!signIn
  <1>3. CASE I!signOut(q)
    <2>1. PICK s \in Visits : holder[s] # Nobody /\ I!EndSessionByID(q, holder[s], s)
      BY <1>3 DEF I!signOut, I!SignOut, I!SessionByHash
    <2>2. holder[s] \in Persons BY <2>1 DEF LinksInv, RowsHold, RowTypes
    <2>3. account[holder[s]] # I!Unregistered BY <2>2, KnownAccounts
    <2> QED BY <2>1, <2>2, <2>3, EndSessionKept
  <1>4. CASE I!confirmVerification(q) \/ I!confirmEmail(q) \/ I!confirmReset(q)
    BY <1>4, FollowKept DEF I!confirmVerification, I!confirmEmail, I!confirmReset
  <1>5. ASSUME NEW own \in Visits, NEW a \in Persons,
               \/ I!rename(q, own, a) \/ I!changePassword(q, own, a) \/ I!changeEmail(q, own, a)
               \/ I!endSession(q, own, a) \/ I!closeAccount(q, own, a)
        PROVE  LinksInv'
    <2>1. CASE I!rename(q, own, a) BY <2>1, RenameKept DEF I!rename
    <2>2. CASE I!changePassword(q, own, a) BY <2>2, PasswordKept DEF I!changePassword
    <2>3. CASE I!changeEmail(q, own, a) BY <2>3, EmailKept DEF I!changeEmail
    <2>4. CASE I!endSession(q, own, a)
      <3>1. PICK s \in Visits : I!EndSessionByID(q, a, s)
        BY <2>4 DEF I!endSession, I!Mine, I!LiveSessionsFor
      <3>2. account[a] # I!Unregistered BY <2>4, KnownAccounts DEF I!endSession, I!Authenticate
      <3> QED BY <3>1, <3>2, EndSessionKept
    <2>5. CASE I!closeAccount(q, own, a) BY <2>5, CloseKept DEF I!closeAccount
    <2> QED BY <1>5, <2>1, <2>2, <2>3, <2>4, <2>5
  <1> QED BY <1>1, <1>2, <1>3, <1>4, <1>5 DEF I!Ask, I!requestVerification, I!requestReset

-----------------------------------------------------------------------------
(* The row of the link has been read; the account is read again.           *)

\* A job that is to be read again is of a link that was made.
LEMMA ReadingJob ==
    ASSUME LinksInv, NobodyIsNone, NEW q \in Requests, NEW kind, I!Reads(q, kind)
    PROVE  /\ doing[q] \in Fit /\ doing[q] \in I!Jobs /\ doing[q].on \in Persons
           /\ doing[q].link \in Letters /\ doing[q].link # Nobody /\ link[doing[q].link] # I!Unmade
           /\ link[doing[q].link].to \in Addresses
           /\ account[doing[q].on] \in I!Rows /\ account[doing[q].on] # I!Unregistered
  <1> DEFINE j == doing[q]
  <1>1. j \in Fit /\ Head(j.todo) = "read" BY DEF I!Reads, LinksInv, JobsFit
  <1>2. j \in I!Jobs /\ Planned(j) /\ account[j.on] # I!Unregistered BY <1>1 DEF Fit
  <1>3. j.todo[1] = "read" /\ 1 \in 1 .. Len(j.todo)
    BY <1>1, <1>2, JobFields DEF Planned
  <1>4. j.link # Nobody BY <1>2, <1>3 DEF Planned
  <1>5. j.on \in Persons /\ j.link \in Letters BY <1>2, <1>4, JobFields
  <1>6. link[j.link] # I!Unmade BY <1>1, <1>4 DEF Fit
  <1>7. link[j.link].to \in Addresses BY <1>5, <1>6 DEF LinksInv, RowsHold, RowTypes
  <1>8. account[j.on] \in I!Rows BY <1>5 DEF LinksInv, RowsHold, RowTypes
  <1> QED BY <1>1, <1>2, <1>4, <1>5, <1>6, <1>7, <1>8

LEMMA VerifyKept ==
    ASSUME NobodyIsNone, LinksInv, NEW q \in Requests, I!Verify(q) PROVE LinksInv'
  <1> DEFINE j == doing[q]
             a == j.on
             r == I!Activate(account[a])
  <1>1. /\ j \in I!Jobs /\ a \in Persons /\ j.link \in Letters /\ j.link # Nobody
        /\ link[j.link] # I!Unmade /\ account[a] \in I!Rows /\ account[a] # I!Unregistered
    BY ReadingJob DEF I!Verify
  <1>2. PICK T \in {<<"consume">>, <<"consume", "account">>} :
           I!Proceed(q, I!Live(a), [I!Again(q, T) EXCEPT !.row = I!Activate(@)])
    BY DEF I!Verify
  <1> DEFINE b == I!Again(q, T)
             k == [b EXCEPT !.row = r]
  <1>3. T \in Seq(Plan) BY Plans
  <1>4. /\ b \in I!Jobs /\ b.todo = T /\ b.on = a /\ b.link = j.link /\ b.row = account[a]
    BY <1>1, <1>3 DEF I!Again, I!Jobs, Plan
  <1>5. I!Proceed(q, I!Live(a), [b EXCEPT !.row = I!Activate(b.row)])
    BY <1>2
  <1>6. I!Proceed(q, I!Live(a), k) BY <1>4, <1>5
  <1>7. r \in I!Rows /\ r # I!Unregistered BY <1>1, RowKinds
  <1> HIDE DEF b, r
  <1>8. k \in I!Jobs /\ k.todo = T /\ k.on = a /\ k.link = j.link /\ k.row = r
    BY <1>4, <1>7 DEF I!Jobs
  <1> HIDE DEF k
  <1>9. I!Live(a) => New(k) BY <1>1, <1>7, <1>8, NewFits
  <1> QED BY <1>6, <1>9, NewJob DEF I!Proceed

LEMMA ConfirmEmailKept ==
    ASSUME NobodyIsNone, LinksInv, NEW q \in Requests, I!ConfirmEmail(q) PROVE LinksInv'
  <1> DEFINE j == doing[q]
             a == j.on
             to == link[j.link].to
             r == I!ChangeEmail(account[a], to)
             T == <<"consume", "account">>
             b == I!Again(q, T)
             u == IF account[a].email = to THEN {"account"} ELSE {}
             k == [b EXCEPT !.row = r, !.stale = u]
  <1>1. /\ j \in I!Jobs /\ a \in Persons /\ j.link \in Letters /\ j.link # Nobody
        /\ link[j.link] # I!Unmade /\ account[a] \in I!Rows /\ account[a] # I!Unregistered
        /\ to \in Addresses
    BY ReadingJob DEF I!ConfirmEmail
  <1>2. T \in Seq(Plan) BY Plans
  <1>3. /\ b \in I!Jobs /\ b.todo = T /\ b.on = a /\ b.link = j.link /\ b.row = account[a]
    BY <1>1, <1>2 DEF I!Again, I!Jobs, Plan
  <1>4. I!Proceed(q, I!Live(a), [b EXCEPT !.row = I!ChangeEmail(b.row, to), !.stale = u])
    BY DEF I!ConfirmEmail
  <1>5. I!Proceed(q, I!Live(a), k) BY <1>3, <1>4
  <1>6. r \in I!Rows /\ r # I!Unregistered BY <1>1, RowKinds
  <1>7. u \in SUBSET {"account", "password"} OBVIOUS
  <1> HIDE DEF b, r, u, T
  <1>8. k \in I!Jobs /\ k.todo = T /\ k.on = a /\ k.link = j.link /\ k.row = r
    BY <1>3, <1>6, <1>7 DEF I!Jobs
  <1> HIDE DEF k
  <1>9. I!Live(a) => New(k) BY <1>1, <1>6, <1>8, NewFits DEF T
  <1> QED BY <1>5, <1>9, NewJob DEF I!Proceed

LEMMA CompleteResetKept ==
    ASSUME NobodyIsNone, LinksInv, NEW q \in Requests, I!CompleteReset(q) PROVE LinksInv'
  <1> DEFINE j == doing[q]
             a == j.on
             T == <<"consume", "password", "sessions", "tell">>
             k == I!Again(q, T)
  <1>1. /\ j \in I!Jobs /\ a \in Persons /\ j.link \in Letters /\ j.link # Nobody
        /\ link[j.link] # I!Unmade /\ account[a] \in I!Rows /\ account[a] # I!Unregistered
    BY ReadingJob DEF I!CompleteReset
  <1>2. T \in Seq(Plan) BY Plans
  <1>3. /\ k \in I!Jobs /\ k.todo = T /\ k.on = a /\ k.link = j.link /\ k.row = account[a]
    BY <1>1, <1>2 DEF I!Again, I!Jobs, Plan
  <1>4. PICK allowed \in BOOLEAN : I!Proceed(q, allowed, k) BY DEF I!CompleteReset
  <1> HIDE DEF k, T
  <1>5. New(k) BY <1>1, <1>3, NewFits DEF T
  <1> QED BY <1>4, <1>5, NewJob DEF I!Proceed

-----------------------------------------------------------------------------
(* The writes.                                                             *)

\* A job that is about to make a step fits, and the step is the first it has.
LEMMA AtIs ==
    ASSUME LinksInv, NEW q \in Requests, NEW step, I!At(q, step)
    PROVE  /\ doing[q] # I!Idle /\ doing[q] \in Fit /\ doing[q] \in I!Jobs /\ Planned(doing[q])
           /\ Len(doing[q].todo) > 0 /\ 1 \in 1 .. Len(doing[q].todo)
           /\ Head(doing[q].todo) = step /\ doing[q].todo[1] = step
           /\ \A S : step \in S => I!Ahead(doing[q], S)
           /\ doing[q].on \in Persons /\ account[doing[q].on] # I!Unregistered
           /\ doing[q].row \in I!Rows /\ doing[q].row # I!Unregistered
  <1> DEFINE j == doing[q]
  <1>1. j # I!Idle /\ Head(j.todo) = step BY DEF I!At
  <1>2. j \in Fit BY <1>1 DEF LinksInv, JobsFit
  <1>3. /\ j \in I!Jobs /\ Planned(j) /\ account[j.on] # I!Unregistered /\ j.row # I!Unregistered
    BY <1>2 DEF Fit
  <1>4. j.on \in Persons /\ j.row \in I!Rows /\ j.todo \in Seq(Plan) BY <1>3, JobFields
  <1>5. Len(j.todo) > 0 BY <1>3 DEF Planned
  <1>6. 1 \in 1 .. Len(j.todo) /\ j.todo[1] = step
    <2>1. Len(j.todo) \in Nat BY <1>4
    <2> QED BY <1>1, <1>4, <1>5, <2>1
  <1>7. \A S : step \in S => I!Ahead(j, S) BY <1>6 DEF I!Ahead
  <1> QED BY <1>1, <1>2, <1>3, <1>4, <1>5, <1>6, <1>7

LEMMA StopKept ==
    ASSUME LinksInv, NEW q \in Requests, I!Stop(q), UNCHANGED <<I!rows, uses, chosen>>
    PROVE  LinksInv'
  BY NewJob DEF I!Stop

\* A step that writes none of what the other jobs rest on.
LEMMA PlainStep ==
    ASSUME LinksInv, NEW q \in Requests, NEW step, I!At(q, step), I!GoOn(q),
           step \notin {"read", "consume", "sessions", "account"},
           UNCHANGED <<account, uses, chosen, reported>>, Grows
    PROVE  JobsFit' /\ JobsApart'
  <1> DEFINE j == doing[q]
             k == I!Rest(j)
  <1>1. /\ j # I!Idle /\ j \in Fit /\ j \in I!Jobs /\ Planned(j) /\ Head(j.todo) = step
    BY AtIs
  <1>2. \A r \in Requests : doing[r] # I!Idle => Quiet(doing[r]) BY DEF Quiet
  <1>3. k # I!Idle => k \in Fit'
    <2> SUFFICES ASSUME k # I!Idle PROVE k \in Fit'
      OBVIOUS
    <2>1. Spender(k) => uses'[j.link] = 0
      BY <1>1, RestNarrow DEF Fit
    <2>2. Telling(k) => \A s \in j.ends : s \in ended' /\ reported'[s] = 0
      BY <1>1, RestNarrow DEF Fit, Grows
    <2> QED BY <1>1, <2>1, <2>2, RestFits
  <1>4. doing' = [doing EXCEPT ![q] = k] BY DEF I!GoOn
  <1> QED BY <1>1, <1>2, <1>3, <1>4, OneDoingGoesOn

LEMMA SweepLinksKept ==
    ASSUME NobodyIsNone, LinksInv, NEW q \in Requests, I!SweepLinks(q) PROVE LinksInv'
  <1>1. doing[q].on \in Persons BY AtIs DEF I!SweepLinks
  <1>2. /\ spent' = spent \cup {l \in Letters : link[l].on = doing[q].on /\ link[l].kind = doing[q].kind}
        /\ UNCHANGED <<account, secret, link, expired, mailed, holder, ended, reported, announced,
                       uses, chosen>>
    BY DEF I!SweepLinks, I!ConsumeLiveTokens
  <1>3. \A l \in Letters : link[l].on = doing[q].on => link[l] # I!Unmade
    BY <1>1 DEF I!Unmade, NobodyIsNone
  <1>4. Grows BY <1>2 DEF Grows
  <1>5. RowsHold'
    BY <1>2, <1>3 DEF LinksInv, RowsHold, RowTypes, Founded, I!StoredIsChosen, UsedIsSpent,
                      I!EndsAreToldOnce
  <1> QED BY <1>2, <1>4, <1>5, PlainStep DEF I!SweepLinks, LinksInv

LEMMA MintStepKept ==
    ASSUME NobodyIsNone, LinksInv, NEW q \in Requests, NEW l \in Letters, I!Mint(q, l) PROVE LinksInv'
  <1> DEFINE j == doing[q]
             r == [on |-> j.on, kind |-> j.kind, to |-> j.row.email]
  <1>1. /\ j \in I!Jobs /\ j.on \in Persons /\ account[j.on] # I!Unregistered
        /\ j.row \in I!Rows /\ j.row # I!Unregistered
    BY AtIs DEF I!Mint
  <1>2. /\ link' = [link EXCEPT ![l] = r] /\ link[l] = I!Unmade
        /\ mailed' \in {mailed, mailed \cup {l}}
        /\ UNCHANGED <<account, secret, spent, expired, holder, ended, reported, announced,
                       uses, chosen>>
    BY DEF I!Mint, I!InsertToken
  <1>3. r \in [on : Persons, kind : I!Kinds, to : Addresses] /\ r.on = j.on
    BY <1>1, JobFields, RowKinds
  <1>4. r # I!Unmade BY <1>1, <1>3 DEF I!Unmade, NobodyIsNone
  <1> HIDE DEF r
  <1>5. RowTypes' BY <1>2, <1>3, <1>4 DEF LinksInv, RowsHold, RowTypes
  <1>6. Founded' BY <1>1, <1>2, <1>3 DEF LinksInv, RowsHold, RowTypes, Founded
  <1>7. I!StoredIsChosen' /\ UsedIsSpent' /\ I!EndsAreToldOnce'
    BY <1>2 DEF LinksInv, RowsHold, I!StoredIsChosen, UsedIsSpent, I!EndsAreToldOnce
  <1>8. Grows BY <1>2, <1>4 DEF Grows, LinksInv, RowsHold, RowTypes
  <1>9. JobsFit' /\ JobsApart' BY <1>2, <1>8, PlainStep DEF I!Mint
  <1> QED BY <1>5, <1>6, <1>7, <1>9 DEF LinksInv, RowsHold

LEMMA CreateSessionKept ==
    ASSUME NobodyIsNone, LinksInv, NEW q \in Requests, NEW s \in Visits, I!CreateSession(q, s)
    PROVE  LinksInv'
  <1> DEFINE a == doing[q].on
  <1>1. a \in Persons /\ account[a] # I!Unregistered BY AtIs DEF I!CreateSession
  <1>2. /\ holder[s] = Nobody /\ holder' = [holder EXCEPT ![s] = a]
        /\ UNCHANGED <<account, secret, link, spent, expired, mailed, ended, reported, announced,
                       uses, chosen>>
    BY DEF I!CreateSession, I!InsertSession
  <1>3. a # Nobody BY <1>1 DEF NobodyIsNone
  <1>4. RowTypes' BY <1>1, <1>2, <1>3 DEF LinksInv, RowsHold, RowTypes
  <1>5. Founded' BY <1>1, <1>2 DEF LinksInv, RowsHold, RowTypes, Founded
  <1>6. I!StoredIsChosen' /\ UsedIsSpent' /\ I!EndsAreToldOnce'
    BY <1>2 DEF LinksInv, RowsHold, I!StoredIsChosen, UsedIsSpent, I!EndsAreToldOnce
  <1>7. Grows BY <1>2 DEF Grows
  <1>8. JobsFit' /\ JobsApart' BY <1>2, <1>7, PlainStep DEF I!CreateSession
  <1> QED BY <1>4, <1>5, <1>6, <1>8 DEF LinksInv, RowsHold

LEMMA AnnounceKept ==
    ASSUME NobodyIsNone, LinksInv, NEW q \in Requests, I!Announce(q) PROVE LinksInv'
  <1> DEFINE j == doing[q]
  <1>1. /\ j \in Fit /\ j \in I!Jobs /\ Planned(j) /\ j.on \in Persons
        /\ j.todo[1] = "announce" /\ 1 \in 1 .. Len(j.todo) /\ I!Ahead(j, {"announce"})
    BY AtIs DEF I!Announce
  <1>2. ~I!Ahead(j, {"account"})
    <2> SUFFICES ASSUME NEW i \in 1 .. Len(j.todo), j.todo[i] = "account" PROVE FALSE
      BY DEF I!Ahead
    <2>1. i # 1 /\ ~(i < 1) BY <1>1
    <2> QED BY <1>1, <2>1 DEF Planned
  <1>3. account[j.on].status = "archived" BY <1>1, <1>2 DEF Fit
  <1>4. /\ announced' = announced \cup {j.on}
        /\ UNCHANGED <<account, secret, link, spent, expired, mailed, holder, ended, reported,
                       uses, chosen>>
    BY DEF I!Announce
  <1>5. RowsHold'
    BY <1>1, <1>3, <1>4 DEF LinksInv, RowsHold, RowTypes, Founded, I!StoredIsChosen, UsedIsSpent,
                            I!EndsAreToldOnce
  <1>6. Grows BY <1>4 DEF Grows
  <1>7. JobsFit' /\ JobsApart' BY <1>4, <1>6, PlainStep DEF I!Announce
  <1> QED BY <1>5, <1>7 DEF LinksInv

LEMMA DiesKept == ASSUME LinksInv, NEW q \in Requests, I!Dies(q) PROVE LinksInv'
  BY StopKept DEF I!Dies

\* One step on, of a job that has neither a link to consume nor sessions to end.
LEMMA RestOn ==
    ASSUME NEW j \in Fit, I!Rest(j) # I!Idle, UNCHANGED <<I!rows, uses, chosen>>,
           Head(j.todo) \notin {"read", "consume", "sessions", "account"}
    PROVE  I!Rest(j) \in Fit
  <1> DEFINE k == I!Rest(j)
  <1>1. j \in I!Jobs /\ Planned(j) BY DEF Fit
  <1>2. Spender(k) => uses'[j.link] = 0
    BY <1>1, RestNarrow DEF Fit
  <1>3. Telling(k) => \A s \in j.ends : s \in ended' /\ reported'[s] = 0
    BY <1>1, RestNarrow DEF Fit, I!rows
  <1>4. Grows /\ account'[j.on] = account[j.on] /\ chosen'[j.on] = chosen[j.on]
    BY StillRows DEF I!rows
  <1>5. I!Rest(j) \in Fit' BY <1>1, <1>2, <1>3, <1>4, RestFits
  <1> QED BY <1>5, StillRows

LEMMA ReadCredentialKept ==
    ASSUME LinksInv, NEW q \in Requests, I!ReadCredential(q) PROVE LinksInv'
  <1> DEFINE j == doing[q]
             k1 == I!Rest(j)
             k2 == I!Rest(k1)
             k3 == [k1 EXCEPT !.stale = k1.stale \ {"password"}]
  <1>1. /\ j # I!Idle /\ j \in Fit /\ j \in I!Jobs /\ Planned(j) /\ j.todo[1] = "credential"
        /\ 1 \in 1 .. Len(j.todo) /\ Head(j.todo) = "credential" /\ Len(j.todo) > 0
    BY AtIs DEF I!ReadCredential
  <1>2. 1 + 2 <= Len(j.todo) /\ j.todo[1 + 1] = "password" BY <1>1 DEF Planned
  <1>3. Len(j.todo) \in Nat BY <1>1, JobFields
  <1>4. Len(j.todo) # 1 BY <1>2, <1>3
  <1>5. /\ k1 \in I!Jobs /\ SameBut(k1, j) /\ k1.ends = j.ends /\ k1.stale = j.stale
        /\ Len(k1.todo) = Len(j.todo) - 1
        /\ \A i \in 1 .. Len(j.todo) - 1 : k1.todo[i] = j.todo[i + 1]
    BY <1>1, <1>4, RestIs
  <1>6. k1 # I!Idle /\ Len(k1.todo) > 1 /\ k1.todo[1] = "password"
    <2>1. Len(k1.todo) > 1 /\ k1.todo[1] = "password" BY <1>2, <1>3, <1>5
    <2>2. k1 # I!Idle BY <1>5, <2>1, IdleDoesNothing
    <2> QED BY <2>1, <2>2
  <1>7. Head(k1.todo) = "password" BY <1>5, <1>6, JobFields
  <1>8. UNCHANGED <<I!rows, uses, chosen>>
        /\ (doing' = [doing EXCEPT ![q] = k2] \/ doing' = [doing EXCEPT ![q] = k3])
    <2>1. doing' = [doing EXCEPT ![q] = IF I!CredentialsForAccount(j.on) = {} THEN k2 ELSE k3]
      BY DEF I!ReadCredential
    <2> HIDE DEF k2, k3
    <2>2. CASE I!CredentialsForAccount(j.on) = {} BY <2>1, <2>2 DEF I!ReadCredential
    <2>3. CASE I!CredentialsForAccount(j.on) # {} BY <2>1, <2>3 DEF I!ReadCredential
    <2> QED BY <2>2, <2>3
  <1>9. k1 \in Fit BY <1>1, <1>6, <1>8, RestOn
  <1>10. Planned(k1) BY <1>9 DEF Fit
  <1>11. /\ k1.link = j.link /\ k1.ends = j.ends
         /\ Spender(k1) => Spender(j)
         /\ Telling(k1) => Telling(j)
    BY <1>1, <1>6, RestNarrow
  <1>12. /\ k2 # I!Idle => k2 \in Fit
         /\ k2 # I!Idle => /\ k2.link = j.link /\ k2.ends = j.ends
                           /\ Spender(k2) => Spender(j)
                           /\ Telling(k2) => Telling(j)
    <2>1. k2 # I!Idle => k2 \in Fit BY <1>7, <1>8, <1>9, RestOn
    <2>2. k2 # I!Idle => /\ k2.link = k1.link /\ k2.ends = k1.ends
                         /\ Spender(k2) => Spender(k1)
                         /\ Telling(k2) => Telling(k1)
      <3> HIDE DEF k1
      <3> QED BY <1>5, <1>7, <1>10, RestNarrow
    <2> QED BY <1>11, <2>1, <2>2
  <1>13. ~I!Ahead(k1, {"rehash"}) BY <1>1, <1>6, RestAhead
  <1> HIDE DEF k2
  <1>14. /\ k3 \in I!Jobs /\ k3.todo = k1.todo /\ SameBut(k3, k1) /\ k3.ends = k1.ends
         /\ k3.stale = j.stale \ {"password"} /\ k3.link = k1.link
    <2>1. j.stale \in SUBSET {"account", "password"} BY <1>1, JobFields
    <2> HIDE DEF k1
    <2> QED BY <1>5, <2>1 DEF I!Jobs, SameBut
  <1> HIDE DEF k1, k3
  <1>15. \A S : I!Ahead(k3, S) <=> I!Ahead(k1, S) BY <1>14 DEF I!Ahead
  <1>16. (Spender(k3) <=> Spender(k1)) /\ (Telling(k3) <=> Telling(k1))
    BY <1>14, <1>15 DEF Spender, Telling
  <1>17. Grows BY <1>8, StillRows
  <1>18. k3 \in Fit
    <2>1. Planned(k3) BY <1>10, <1>14 DEF Planned
    <2>2. /\ I!Ahead(k3, {"account"}) /\ "account" \notin k3.stale =>
                "account" \notin k1.stale /\ account'[k1.on] = account[k1.on]
          /\ Spender(k3) => uses'[k1.link] = 0
          /\ Telling(k3) => \A s \in k3.ends : s \in ended' /\ reported'[s] = 0
      BY <1>5, <1>8, <1>9, <1>14, <1>16 DEF Fit, I!rows
    <2>3. FollowsALink(k3, k1) BY <1>13, <1>14, <1>15, <2>1, <2>2 DEF FollowsALink
    <2>4. k3 \in Fit' BY <1>9, <1>14, <1>17, <2>3, FollowsFit
    <2> QED BY <1>8, <2>4, StillRows
  <1>19. PICK k \in {k2, k3} : doing' = [doing EXCEPT ![q] = k] BY <1>8
  <1>20. k # I!Idle => /\ k \in Fit /\ k.link = j.link /\ k.ends = j.ends
                       /\ Spender(k) => Spender(j)
                       /\ Telling(k) => Telling(j)
    BY <1>11, <1>12, <1>14, <1>16, <1>18, <1>19
  <1>21. \A r \in Requests \ {q} : doing[r] # I!Idle /\ k # I!Idle => Compatible(k, doing[r])
    <2> SUFFICES ASSUME NEW r \in Requests \ {q}, doing[r] # I!Idle, k # I!Idle
                 PROVE  Compatible(k, doing[r])
      OBVIOUS
    <2>1. Compatible(j, doing[r]) BY <1>1 DEF LinksInv, JobsApart
    <2> QED BY <1>20, <2>1, Narrower
  <1>22. /\ Fit' = Fit /\ \A r : Quiet(r)
    BY <1>8, StillRows
  <1>23. JobsFit' /\ JobsApart'
    <2>1. k # I!Idle => k \in Fit' BY <1>20, <1>22
    <2> HIDE DEF j
    <2> QED BY <1>17, <1>19, <1>21, <1>22, <2>1, OneMoves
  <1> QED BY <1>8, <1>23, StillRows DEF LinksInv

\* The link had not been consumed, so that nobody else spends it.
LEMMA ConsumeLinkKept ==
    ASSUME NobodyIsNone, LinksInv, NEW q \in Requests, I!ConsumeLink(q) PROVE LinksInv'
  <1> DEFINE j == doing[q]
             k == I!Rest(j)
             l == j.link
  <1>1. /\ j # I!Idle /\ j \in Fit /\ j \in I!Jobs /\ Planned(j) /\ Head(j.todo) = "consume"
        /\ j.todo[1] = "consume" /\ 1 \in 1 .. Len(j.todo) /\ Len(j.todo) > 0
    BY AtIs DEF I!ConsumeLink
  <1>2. CASE l \in spent
    <2>1. I!Stop(q) /\ UNCHANGED <<I!rows, uses, chosen>> BY <1>2 DEF I!ConsumeLink, I!rows
    <2> QED BY <2>1, StopKept
  <1>3. CASE l \notin spent
    <2>1. l # Nobody BY <1>1 DEF Planned
    <2>2. l \in Letters /\ link[l] # I!Unmade BY <1>1, <2>1, JobFields DEF Fit
    <2>3. uses[l] = 0 BY <1>3, <2>2 DEF LinksInv, RowsHold, UsedIsSpent
    <2>4. /\ doing' = [doing EXCEPT ![q] = k] /\ spent' = spent \cup {l}
          /\ UNCHANGED <<account, secret, link, expired, mailed, holder, ended, reported, announced,
                         uses, chosen>>
      BY <1>3 DEF I!ConsumeLink, I!GoOn, I!ConsumeToken
    <2>5. Grows /\ \A r : Quiet(r) BY <2>4 DEF Grows, Quiet
    <2>6. RowsHold'
      BY <2>2, <2>4 DEF LinksInv, RowsHold, RowTypes, Founded, I!StoredIsChosen, UsedIsSpent,
                        I!EndsAreToldOnce
    <2> SUFFICES JobsFit' /\ JobsApart'
      BY <2>6 DEF LinksInv
    <2>7. k # I!Idle => /\ k.link = l /\ k.ends = j.ends
                        /\ Telling(k) => Telling(j)
      <3> SUFFICES ASSUME k # I!Idle PROVE k.link = l /\ k.ends = j.ends /\ (Telling(k) => Telling(j))
        OBVIOUS
      <3>1. k.link = l /\ k.ends = j.ends BY <1>1, RestIs DEF SameBut
      <3>2. /\ I!Ahead(k, {"tell"}) => I!Ahead(j, {"tell"})
            /\ I!Ahead(j, {"sessions"}) => I!Ahead(k, {"sessions"})
        BY <1>1, RestAhead
      <3> QED BY <3>1, <3>2 DEF Telling
    <2>8. k # I!Idle => k \in Fit'
      <3>1. k # I!Idle /\ Telling(k) => \A s \in j.ends : s \in ended' /\ reported'[s] = 0
        BY <1>1, <2>4, <2>7 DEF Fit
      <3> QED BY <1>1, <2>3, <2>4, <2>5, <3>1, RestFits
    <2>9. ASSUME NEW r \in Requests \ {q}, doing[r] # I!Idle, k # I!Idle
          PROVE  Compatible(k, doing[r])
      <3>1. Compatible(j, doing[r]) BY <1>1, <2>9 DEF LinksInv, JobsApart
      <3>2. doing[r] \in Fit BY <2>9 DEF LinksInv, JobsFit
      <3>3. Spender(doing[r]) => doing[r].link \in spent BY <3>2 DEF Fit, Spender
      <3>4. Spender(doing[r]) => doing[r].link # k.link BY <1>3, <2>7, <2>9, <3>3
      <3>5. Telling(k) /\ Telling(doing[r]) => k.ends \cap doing[r].ends = {}
        BY <2>7, <2>9, <3>1 DEF Compatible
      <3> QED BY <3>4, <3>5 DEF Compatible
    <2> HIDE DEF k
    <2> QED BY <2>4, <2>5, <2>8, <2>9, OneMoves
  <1> QED BY <1>2, <1>3

\* Sessions that are told are ended, and were not when the others were.
LEMMA EndSessionsKept ==
    ASSUME NobodyIsNone, LinksInv, NEW q \in Requests, I!EndSessions(q) PROVE LinksInv'
  <1> DEFINE j == doing[q]
             m == I!Rest(j)
             e == I!Ending(q)
             k == [m EXCEPT !.ends = e]
  <1>1. /\ j # I!Idle /\ j \in Fit /\ j \in I!Jobs /\ Planned(j) /\ Head(j.todo) = "sessions"
        /\ j.todo[1] = "sessions" /\ 1 \in 1 .. Len(j.todo) /\ Len(j.todo) > 0
        /\ j.on \in Persons
    BY AtIs DEF I!EndSessions
  <1>2. /\ ended' = ended \cup e /\ doing' = [doing EXCEPT ![q] = k]
        /\ UNCHANGED <<account, secret, link, spent, expired, mailed, holder, reported, announced,
                       uses, chosen>>
    BY DEF I!EndSessions
  <1>3. e \subseteq {s \in Visits : holder[s] = j.on} /\ e \cap ended = {}
    BY DEF I!Ending, I!LiveSessionsFor
  <1> HIDE DEF e
  <1>4. \A s \in e : holder[s] # Nobody /\ s \in ended' /\ reported'[s] = 0
    <2> SUFFICES ASSUME NEW s \in e PROVE holder[s] # Nobody /\ s \in ended' /\ reported'[s] = 0
      OBVIOUS
    <2>1. s \in Visits /\ holder[s] = j.on /\ s \notin ended BY <1>3
    <2>2. reported[s] \in Nat /\ reported[s] <= 1 /\ reported[s] # 1
      BY <2>1 DEF LinksInv, RowsHold, RowTypes, I!EndsAreToldOnce
    <2> QED BY <1>1, <1>2, <2>1, <2>2 DEF NobodyIsNone
  <1>5. Grows /\ \A r : Quiet(r) BY <1>2 DEF Grows, Quiet
  <1>6. RowsHold'
    BY <1>2, <1>3, <1>4 DEF LinksInv, RowsHold, RowTypes, Founded, I!StoredIsChosen, UsedIsSpent,
                            I!EndsAreToldOnce
  <1>7. m # I!Idle
    <2>1. Len(j.todo) \in Nat /\ 1 < Len(j.todo) BY <1>1, JobFields DEF Planned
    <2>2. m \in I!Jobs /\ Len(m.todo) = Len(j.todo) - 1
      <3>1. \A n \in Nat : 1 < n => n # 1 OBVIOUS
      <3>2. Len(j.todo) # 1 BY <2>1, <3>1, Zenon
      <3> QED BY <1>1, <3>2, RestIs
    <2>3. Len(m.todo) > 0 BY <2>1, <2>2
    <2> QED BY <2>2, <2>3, IdleDoesNothing
  <1>8. /\ m \in I!Jobs /\ SameBut(m, j) /\ m.stale = j.stale BY <1>1, <1>7, RestIs
  <1>9. /\ Planned(m)
        /\ \A S : I!Ahead(m, S) => I!Ahead(j, S)
        /\ \A S : I!Ahead(j, S) => "sessions" \in S \/ I!Ahead(m, S)
        /\ ~I!Ahead(m, {"read", "consume"}) /\ ~I!Ahead(m, {"rehash"})
    <2>1. Planned(m) /\ ~I!Ahead(m, {"read", "consume"}) /\ (Head(j.todo) # "session" => ~I!Ahead(m, {"rehash"}))
      BY <1>1, <1>7, RestAhead
    <2>2. /\ \A S : I!Ahead(m, S) => I!Ahead(j, S)
          /\ \A S : I!Ahead(j, S) => Head(j.todo) \in S \/ I!Ahead(m, S)
      BY <1>1, <1>7, RestAhead
    <2> HIDE DEF m
    <2> QED BY <1>1, <2>1, <2>2
  <1> HIDE DEF m
  <1>10. /\ k \in I!Jobs /\ SameBut(k, j) /\ k.stale = j.stale /\ k.todo = m.todo /\ k.ends = e
    <2>1. e \in SUBSET Visits BY <1>3
    <2> QED BY <1>8, <2>1 DEF I!Jobs, SameBut
  <1> HIDE DEF k
  <1>11. \A S : I!Ahead(k, S) <=> I!Ahead(m, S) BY <1>10 DEF I!Ahead
  <1>12. k.link = j.link /\ m.link = j.link BY <1>8, <1>10 DEF SameBut
  <1>13. Planned(k) BY <1>9, <1>10, <1>12 DEF Planned
  <1>14. ~I!Ahead(j, {"read", "consume"})
    <2>1. Head(j.todo) \notin {"read", "consume"} BY <1>1
    <2> QED BY <1>1, <1>9
  <1>15. Spender(k) => Spender(j) /\ k.link = j.link
    BY <1>9, <1>11, <1>12, <1>14 DEF Spender
  <1>16. k \in Fit'
    <2>1. Spender(k) => uses'[j.link] = 0 BY <1>1, <1>2, <1>15 DEF Fit
    <2>2. /\ I!Ahead(k, {"account"}) => I!Ahead(j, {"account"})
          /\ I!Ahead(j, {"account"}) => I!Ahead(k, {"account"})
      BY <1>9, <1>11
    <2>3. FollowsALink(k, j)
      BY <1>2, <1>4, <1>9, <1>10, <1>11, <1>13, <1>14, <2>1, <2>2 DEF FollowsALink
    <2> QED BY <1>1, <1>5, <1>10, <2>3, FollowsFit
  <1>17. ASSUME NEW r \in Requests \ {q}, doing[r] # I!Idle PROVE Compatible(k, doing[r])
    <2>1. Compatible(j, doing[r]) BY <1>1, <1>17 DEF LinksInv, JobsApart
    <2>2. doing[r] \in Fit BY <1>17 DEF LinksInv, JobsFit
    <2>3. Telling(doing[r]) => doing[r].ends \subseteq ended BY <2>2 DEF Fit
    <2>4. Telling(doing[r]) => k.ends \cap doing[r].ends = {} BY <1>3, <1>10, <2>3
    <2>5. Spender(k) /\ Spender(doing[r]) => k.link # doing[r].link
      BY <1>15, <2>1 DEF Compatible
    <2> QED BY <2>4, <2>5 DEF Compatible
  <1>18. JobsFit' /\ JobsApart' BY <1>2, <1>5, <1>16, <1>17, OneMoves
  <1> QED BY <1>6, <1>18 DEF LinksInv

LEMMA TellKept ==
    ASSUME NobodyIsNone, LinksInv, NEW q \in Requests, I!Tell(q) PROVE LinksInv'
  <1> DEFINE j == doing[q]
  <1>1. /\ j # I!Idle /\ j \in Fit /\ j \in I!Jobs /\ Planned(j) /\ Head(j.todo) = "tell"
        /\ j.todo[1] = "tell" /\ 1 \in 1 .. Len(j.todo)
        /\ j.ends \in SUBSET Visits
    BY AtIs, JobFields DEF I!Tell
  <1>2. UNCHANGED <<account, secret, link, spent, expired, mailed, holder, ended, announced,
                    uses, chosen>>
    BY DEF I!Tell
  <1>3. Grows BY <1>2 DEF Grows
  <1>4. CASE j.ends = {} /\ I!GoOn(q) /\ UNCHANGED reported
    <2>1. JobsFit' /\ JobsApart' BY <1>2, <1>3, <1>4, PlainStep DEF I!Tell
    <2>2. RowsHold'
      BY <1>2, <1>4 DEF LinksInv, RowsHold, RowTypes, Founded, I!StoredIsChosen, UsedIsSpent,
                        I!EndsAreToldOnce
    <2> QED BY <2>1, <2>2 DEF LinksInv
  <1>5. ASSUME NEW s \in j.ends, reported' = [reported EXCEPT ![s] = @ + 1],
               doing' = [doing EXCEPT ![q].ends = @ \ {s}]
        PROVE  LinksInv'
    <2> DEFINE k == [j EXCEPT !.ends = j.ends \ {s}]
    <2>1. doing' = [doing EXCEPT ![q] = k] BY <1>5
    <2>2. /\ k \in I!Jobs /\ k.todo = j.todo /\ SameBut(k, j) /\ k.stale = j.stale
          /\ k.ends = j.ends \ {s} /\ k.link = j.link
      BY <1>1 DEF I!Jobs, SameBut
    <2> HIDE DEF k
    <2>3. \A S : I!Ahead(k, S) <=> I!Ahead(j, S) BY <2>2 DEF I!Ahead
    <2>4. Telling(j)
      <3>1. 1 = Len(j.todo) BY <1>1 DEF Planned
      <3>2. I!Ahead(j, {"tell"}) /\ ~I!Ahead(j, {"sessions"}) BY <1>1, <3>1 DEF I!Ahead
      <3> QED BY <3>2 DEF Telling
    <2>5. \A u \in j.ends : u \in ended /\ reported[u] = 0 BY <1>1, <2>4 DEF Fit
    <2>6. reported \in [Visits -> Nat] BY DEF LinksInv, RowsHold, RowTypes
    <2>7. s \in Visits /\ reported'[s] = 1 /\ \A u \in Visits \ {s} : reported'[u] = reported[u]
      BY <1>1, <1>5, <2>5, <2>6
    <2>8. RowsHold'
      <3>1. reported' \in [Visits -> Nat]
        <4>1. s \in Visits /\ reported[s] + 1 \in Nat BY <2>6, <2>7
        <4> QED BY <1>5, <2>6, <4>1
      <3>2. I!EndsAreToldOnce'
        BY <1>2, <2>5, <2>7 DEF LinksInv, RowsHold, I!EndsAreToldOnce
      <3> QED BY <1>2, <3>1, <3>2 DEF LinksInv, RowsHold, RowTypes, Founded, I!StoredIsChosen, UsedIsSpent
    <2>9. ASSUME NEW r \in Requests \ {q}, doing[r] # I!Idle
          PROVE  Compatible(j, doing[r]) /\ Quiet(doing[r])
      <3>1. Compatible(j, doing[r]) BY <1>1, <2>9 DEF LinksInv, JobsApart
      <3>2. doing[r].ends \subseteq Visits BY <2>9, JobFields DEF LinksInv, JobsFit, Fit
      <3>3. Telling(doing[r]) => \A u \in doing[r].ends : reported'[u] = reported[u]
        BY <2>4, <2>7, <3>1, <3>2 DEF Compatible
      <3> QED BY <1>2, <3>1, <3>3 DEF Quiet
    <2>10. (Spender(k) <=> Spender(j)) /\ (Telling(k) <=> Telling(j))
      BY <2>2, <2>3 DEF Spender, Telling
    <2>11. k \in Fit'
      <3>1. Planned(k) BY <1>1, <2>2 DEF Planned
      <3>2. Spender(k) => uses'[j.link] = 0 BY <1>1, <1>2, <2>10 DEF Fit
      <3>3. \A u \in k.ends : u \in ended' /\ reported'[u] = 0
        BY <1>1, <1>2, <2>2, <2>5, <2>7
      <3>4. FollowsALink(k, j) BY <1>2, <2>2, <2>3, <3>1, <3>2, <3>3 DEF FollowsALink
      <3> QED BY <1>1, <1>3, <2>2, <3>4, FollowsFit
    <2>12. \A r \in Requests \ {q} : doing[r] # I!Idle => Compatible(k, doing[r])
      <3> SUFFICES ASSUME NEW r \in Requests \ {q}, doing[r] # I!Idle PROVE Compatible(k, doing[r])
        OBVIOUS
      <3>1. k.ends \subseteq j.ends BY <2>2
      <3> QED BY <2>2, <2>9, <2>10, <3>1, Narrower
    <2>13. \A r \in Requests \ {q} : doing[r] # I!Idle => Quiet(doing[r]) BY <2>9
    <2>14. JobsFit' /\ JobsApart'
      BY <1>3, <2>1, <2>11, <2>12, <2>13, OneMoves
    <2> QED BY <2>8, <2>14 DEF LinksInv
  <1>6. \/ j.ends = {} /\ I!GoOn(q) /\ UNCHANGED reported
        \/ \E s \in j.ends : /\ reported' = [reported EXCEPT ![s] = @ + 1]
                             /\ doing' = [doing EXCEPT ![q].ends = @ \ {s}]
    BY DEF I!Tell
  <1> QED BY <1>4, <1>5, <1>6

\* No job moves.
LEMMA NoneMoves ==
    ASSUME LinksInv, Grows, UNCHANGED doing, \A q \in Requests : doing[q] # I!Idle => Quiet(doing[q])
    PROVE  JobsFit' /\ JobsApart'
  <1>1. ASSUME NEW q \in Requests PROVE doing[q] \in {I!Idle} \cup Fit'
    BY QuietFits DEF LinksInv, JobsFit
  <1> QED BY <1>1 DEF LinksInv, JobsFit, JobsApart

LEMMA ExpireKept == ASSUME LinksInv, NEW l \in Letters, I!Expire(l) PROVE LinksInv'
  <1>1. /\ expired' = expired \cup {l} /\ link[l] # I!Unmade
        /\ UNCHANGED <<account, secret, link, spent, mailed, holder, ended, reported, announced,
                       doing, uses, chosen>>
    BY DEF I!Expire
  <1>2. RowsHold'
    BY <1>1 DEF LinksInv, RowsHold, RowTypes, Founded, I!StoredIsChosen, UsedIsSpent,
                I!EndsAreToldOnce
  <1>3. Grows /\ \A j : Quiet(j) BY <1>1 DEF Grows, Quiet
  <1> QED BY <1>1, <1>2, <1>3, NoneMoves DEF LinksInv

\* An account that is not registered has no requests of its own.
LEMMA RegisterKept ==
    ASSUME NobodyIsNone, LinksInv, I!register PROVE LinksInv'
  <1>1. PICK a \in Persons, email \in Addresses, s \in Passwords : I!Register(a, email, s)
    BY DEF I!register
  <1> DEFINE r == I!NewAccount(email)
  <1>2. r \in I!Rows /\ r # I!Unregistered /\ r.status = "pending"
    BY DEF I!NewAccount, I!Rows, I!Unregistered
  <1>3. /\ account[a] = I!Unregistered
        /\ account' = [account EXCEPT ![a] = r] /\ secret' = [secret EXCEPT ![a] = s]
        /\ chosen' = [chosen EXCEPT ![a] = s]
        /\ UNCHANGED <<link, spent, expired, mailed, holder, ended, reported, announced, doing, uses>>
    BY <1>1 DEF I!Register, I!InsertAccount, I!InsertCredential
  <1> HIDE DEF r
  <1>4. /\ account \in [Persons -> I!Rows] /\ secret \in [Persons -> Passwords \cup {I!Revoked}]
        /\ chosen \in [Persons -> Passwords \cup {I!Revoked}]
    BY DEF LinksInv, RowsHold, RowTypes
  <1>5. /\ account' \in [Persons -> I!Rows] /\ account'[a] = r
        /\ \A b \in Persons \ {a} : /\ account'[b] = account[b]
                                    /\ secret'[b] = secret[b] /\ chosen'[b] = chosen[b]
        /\ secret'[a] = s /\ chosen'[a] = s
        /\ secret' \in [Persons -> Passwords \cup {I!Revoked}]
        /\ chosen' \in [Persons -> Passwords \cup {I!Revoked}]
    BY <1>2, <1>3, <1>4
  <1>6. announced' \subseteq {b \in Persons : account'[b].status = "archived"}
    <2>1. announced \subseteq {b \in Persons : account[b].status = "archived"}
      BY DEF LinksInv, RowsHold, RowTypes
    <2>2. a \notin announced BY <1>3, <2>1 DEF I!Unregistered
    <2> QED BY <1>3, <1>5, <2>1, <2>2
  <1>7. RowTypes' BY <1>3, <1>5, <1>6 DEF LinksInv, RowsHold, RowTypes
  <1>8. Founded' BY <1>2, <1>3, <1>5 DEF LinksInv, RowsHold, Founded
  <1>9. I!StoredIsChosen' /\ UsedIsSpent' /\ I!EndsAreToldOnce'
    BY <1>3, <1>5 DEF LinksInv, RowsHold, I!StoredIsChosen, UsedIsSpent, I!EndsAreToldOnce
  <1>10. Grows BY <1>2, <1>3, <1>5 DEF Grows, I!Unregistered
  <1>11. ASSUME NEW q \in Requests, doing[q] # I!Idle PROVE Quiet(doing[q])
    <2>1. doing[q] \in Fit BY <1>11 DEF LinksInv, JobsFit
    <2>2. doing[q].on \in Persons /\ doing[q].on # a BY <1>3, <2>1, JobFields DEF Fit
    <2> QED BY <1>3, <1>5, <2>2 DEF Quiet
  <1>12. JobsFit' /\ JobsApart' BY <1>3, <1>10, <1>11, NoneMoves
  <1> QED BY <1>7, <1>8, <1>9, <1>12 DEF LinksInv, RowsHold

\* One save for a link: what it is for is saved now, and nothing after.
LEMMA SpendsOnce ==
    ASSUME NEW j \in I!Jobs, Planned(j), Head(j.todo) \in {"account", "password"}
    PROVE  /\ j.link # Nobody => Spender(j)
           /\ I!Rest(j) # I!Idle => ~Spender(I!Rest(j))
  <1>1. Len(j.todo) > 0 /\ j.todo \in Seq(Plan) /\ Len(j.todo) \in Nat
    <2>1. j.todo \in Seq(Plan) BY JobFields
    <2> QED BY <2>1 DEF Planned
  <1>2. j.todo[1] = Head(j.todo) /\ 1 \in 1 .. Len(j.todo) BY <1>1
  <1>3. ~I!Ahead(j, {"read", "consume"})
    <2> SUFFICES ASSUME NEW i \in 1 .. Len(j.todo), j.todo[i] \in {"read", "consume"}
                 PROVE  FALSE
      BY DEF I!Ahead
    <2>1. i = 1 BY <1>1 DEF Planned
    <2> QED BY <1>2, <2>1
  <1>4. I!Ahead(j, {"account", "password"}) BY <1>2 DEF I!Ahead
  <1>5. ASSUME I!Rest(j) # I!Idle, Spender(I!Rest(j)) PROVE FALSE
    <2>1. /\ Len(j.todo) > 1 /\ I!Rest(j).link = j.link
          /\ Len(I!Rest(j).todo) = Len(j.todo) - 1
          /\ \A i \in 1 .. Len(j.todo) - 1 : I!Rest(j).todo[i] = j.todo[i + 1]
      BY <1>1, <1>5, RestIs DEF SameBut
    <2>2. PICK i \in 1 .. Len(I!Rest(j).todo) : I!Rest(j).todo[i] \in {"account", "password"}
      BY <1>5 DEF Spender, I!Ahead
    <2>3. /\ i + 1 \in 1 .. Len(j.todo) /\ i + 1 # 1
          /\ j.todo[i + 1] \in {"account", "password"}
      BY <1>1, <2>1, <2>2
    <2>4. j.link # Nobody BY <1>5, <2>1 DEF Spender
    <2> QED BY <1>2, <2>3, <2>4 DEF Planned
  <1> QED BY <1>3, <1>4, <1>5 DEF Spender

\* A job saves a row: it goes on, and the copies that others have fall behind.
LEMMA SavedKept ==
    ASSUME LinksInv, Grows, NEW q \in Requests, doing[q] # I!Idle, NEW what \in {"account", "password"},
           I!Saved(q, what), Head(doing[q].todo) \notin {"consume", "sessions"},
           I!Rest(doing[q]) # I!Idle => I!Rest(doing[q]) \in Fit',
           \A a \in Persons : a # doing[q].on \/ what = "password" => account'[a] = account[a],
           \A a \in Persons : a # doing[q].on \/ what = "account" => chosen'[a] = chosen[a],
           \A l \in Letters : uses'[l] # uses[l] => Spender(doing[q]) /\ l = doing[q].link,
           UNCHANGED reported
    PROVE  JobsFit' /\ JobsApart'
  <1> DEFINE j == doing[q]
             Behind(r) == doing[r].on = j.on /\ I!Ahead(doing[r], I!Saves(what))
             late(r) == [doing[r] EXCEPT !.stale = @ \cup {what}]
  <1>1. j \in Fit /\ j \in I!Jobs /\ Planned(j) BY DEF LinksInv, JobsFit, Fit
  <1>2. /\ doing' \in [Requests -> {doing'[r] : r \in Requests}]
        /\ doing'[q] = I!Rest(j)
        /\ \A r \in Requests \ {q} :
              doing'[r] = IF doing[r] # I!Idle /\ Behind(r) THEN late(r) ELSE doing[r]
    BY DEF I!Saved
  <1>3. ASSUME NEW r \in Requests \ {q}, doing[r] # I!Idle
        PROVE  /\ doing[r] \in Fit /\ doing[r] \in I!Jobs /\ doing[r].on \in Persons
               /\ doing[r].link \in Letters \cup {Nobody}
               /\ Compatible(j, doing[r])
               /\ Spender(doing[r]) => uses'[doing[r].link] = uses[doing[r].link]
    <2>1. doing[r] \in Fit /\ doing[r] \in I!Jobs BY <1>3 DEF LinksInv, JobsFit, Fit
    <2>2. doing[r].on \in Persons /\ doing[r].link \in Letters \cup {Nobody} BY <2>1, JobFields
    <2>3. Compatible(j, doing[r]) BY <1>3 DEF LinksInv, JobsApart
    <2>4. Spender(doing[r]) => uses'[doing[r].link] = uses[doing[r].link]
      BY <2>2, <2>3 DEF Compatible, Spender
    <2> QED BY <2>1, <2>2, <2>3, <2>4
  <1>4. ASSUME NEW r \in Requests \ {q}, doing[r] # I!Idle, ~Behind(r) PROVE Quiet(doing[r])
    <2>1. ~I!Ahead(doing[r], I!Saves(what)) \/ doing[r].on # j.on BY <1>4
    <2>2. I!Ahead(doing[r], {"account"}) => account'[doing[r].on] = account[doing[r].on]
      <3>1. CASE what = "password" BY <1>3, <1>4, <3>1
      <3>2. CASE what = "account"
        <4>1. I!Saves(what) = {"account"} BY <3>2 DEF I!Saves
        <4> QED BY <1>3, <1>4, <2>1, <4>1
      <3> QED BY <3>1, <3>2
    <2>3. I!Ahead(doing[r], {"rehash"}) => chosen'[doing[r].on] = chosen[doing[r].on]
      <3>1. CASE what = "account" BY <1>3, <1>4, <3>1
      <3>2. CASE what = "password"
        <4>1. I!Saves(what) = {"password", "rehash"} BY <3>2 DEF I!Saves
        <4>2. I!Ahead(doing[r], {"rehash"}) => I!Ahead(doing[r], I!Saves(what)) BY <4>1 DEF I!Ahead
        <4> QED BY <1>3, <1>4, <2>1, <4>2
      <3> QED BY <3>1, <3>2
    <2> QED BY <1>3, <1>4, <2>2, <2>3 DEF Quiet
  <1>5. ASSUME NEW r \in Requests \ {q}, doing[r] # I!Idle, Behind(r)
        PROVE  Quiet(late(r))
    <2> DEFINE k == late(r)
    <2>1. /\ k.todo = doing[r].todo /\ k.on = doing[r].on /\ k.link = doing[r].link
          /\ k.ends = doing[r].ends /\ k.stale = doing[r].stale \cup {what}
      BY <1>3, <1>5 DEF I!Jobs
    <2> HIDE DEF k
    <2>2. \A S : I!Ahead(k, S) <=> I!Ahead(doing[r], S) BY <2>1 DEF I!Ahead
    <2>3. "account" \notin k.stale => account'[k.on] = account[k.on]
      BY <1>3, <1>5, <2>1
    <2>4. "password" \notin k.stale => chosen'[k.on] = chosen[k.on]
      BY <1>3, <1>5, <2>1
    <2>5. Spender(k) <=> Spender(doing[r]) BY <2>1, <2>2 DEF Spender
    <2>6. Spender(k) => uses'[k.link] = uses[k.link] BY <1>3, <1>5, <2>1, <2>5
    <2>7. Quiet(k) BY <2>3, <2>4, <2>6 DEF Quiet
    <2> QED BY <2>7 DEF k
  <1>6. ASSUME NEW r \in Requests \ {q}
        PROVE  /\ doing'[r] = I!Idle <=> doing[r] = I!Idle
               /\ doing[r] # I!Idle => /\ doing'[r] \in Fit' /\ doing'[r].todo = doing[r].todo
                                       /\ doing'[r].link = doing[r].link /\ doing'[r].ends = doing[r].ends
    <2>1. CASE doing[r] = I!Idle BY <1>2, <1>6, <2>1
    <2>2. CASE doing[r] # I!Idle /\ ~Behind(r)
      <3>1. doing'[r] = doing[r] BY <1>2, <1>6, <2>2
      <3>2. doing[r] \in Fit /\ Quiet(doing[r]) BY <1>3, <1>4, <1>6, <2>2
      <3> QED BY <2>2, <3>1, <3>2, QuietFits
    <2>3. CASE doing[r] # I!Idle /\ Behind(r)
      <3> DEFINE k == late(r)
      <3>1. doing'[r] = k BY <1>2, <1>6, <2>3
      <3>2. doing[r] \in Fit /\ Quiet(k) BY <1>3, <1>5, <1>6, <2>3
      <3>3. k \in Fit' /\ k.todo = doing[r].todo /\ k.link = doing[r].link /\ k.ends = doing[r].ends
        BY <3>2, StaleFits
      <3>4. k # I!Idle
        <4>1. doing[r] \in I!Jobs /\ Len(doing[r].todo) > 0 BY <3>2 DEF Fit, Planned
        <4>2. k \in I!Jobs BY <4>1 DEF I!Jobs
        <4> HIDE DEF k
        <4> QED BY <3>3, <4>1, <4>2, IdleDoesNothing
      <3> HIDE DEF k
      <3> QED BY <2>3, <3>1, <3>3, <3>4
    <2> QED BY <2>1, <2>2, <2>3
  <1>7. JobsFit'
    <2>1. ASSUME NEW r \in Requests PROVE doing'[r] \in {I!Idle} \cup Fit'
      BY <1>2, <1>6
    <2> QED BY <1>2, <2>1 DEF JobsFit
  <1>8. ASSUME I!Rest(j) # I!Idle
        PROVE  /\ I!Rest(j).link = j.link /\ I!Rest(j).ends = j.ends
               /\ Spender(I!Rest(j)) => Spender(j)
               /\ Telling(I!Rest(j)) => Telling(j)
    BY <1>1, <1>8, RestNarrow
  <1>9. ASSUME NEW r \in Requests, doing'[r] # I!Idle
        PROVE  /\ doing[r] # I!Idle /\ doing'[r].link = doing[r].link /\ doing'[r].ends = doing[r].ends
               /\ Spender(doing'[r]) => Spender(doing[r])
               /\ Telling(doing'[r]) => Telling(doing[r])
    <2>1. CASE r = q BY <1>2, <1>8, <1>9, <2>1
    <2>2. CASE r # q
      <3>1. /\ doing[r] # I!Idle /\ doing'[r].todo = doing[r].todo
            /\ doing'[r].link = doing[r].link /\ doing'[r].ends = doing[r].ends
        BY <1>6, <1>9, <2>2
      <3> QED BY <3>1 DEF Spender, Telling, I!Ahead
    <2> QED BY <2>1, <2>2
  <1>10. JobsApart'
    <2> SUFFICES ASSUME NEW r \in Requests, NEW u \in Requests, r # u,
                        doing'[r] # I!Idle, doing'[u] # I!Idle
                 PROVE  Compatible(doing'[r], doing'[u])
      BY DEF JobsApart
    <2>1. Compatible(doing[r], doing[u]) BY <1>9 DEF LinksInv, JobsApart
    <2> QED BY <1>9, <2>1 DEF Compatible
  <1> QED BY <1>7, <1>10

LEMMA SaveAccountKept ==
    ASSUME NobodyIsNone, LinksInv, NEW q \in Requests, I!SaveAccount(q) PROVE LinksInv'
  <1> DEFINE j == doing[q]
             a == j.on
             k == I!Rest(j)
  <1>1. /\ j # I!Idle /\ j \in Fit /\ j \in I!Jobs /\ Planned(j) /\ Head(j.todo) = "account"
        /\ I!Ahead(j, {"account"}) /\ a \in Persons /\ account[a] # I!Unregistered
        /\ j.row \in I!Rows /\ j.row # I!Unregistered /\ j.link \in Letters \cup {Nobody}
    BY AtIs, JobFields DEF I!SaveAccount
  <1>2. UNCHANGED <<secret, link, spent, expired, mailed, holder, ended, reported, announced, chosen>>
    BY DEF I!SaveAccount
  <1>3. CASE I!Current(q, "account") /\ I!FitsIndex(a, j.row)
    <2>1. account' = [account EXCEPT ![a] = j.row] /\ I!Saved(q, "account") /\ I!Used(q)
      BY <1>3 DEF I!SaveAccount, I!UpdateAccount
    <2>2. account[a].status # "archived"
      BY <1>1, <1>3 DEF Fit, I!Current, I!Live, I!AccountByID
    <2>3. account \in [Persons -> I!Rows] /\ uses \in [Letters -> Nat]
      BY DEF LinksInv, RowsHold, RowTypes
    <2>4. /\ account' \in [Persons -> I!Rows] /\ account'[a] = j.row
          /\ \A b \in Persons \ {a} : account'[b] = account[b]
      BY <1>1, <2>1, <2>3
    <2>5. Grows BY <1>1, <1>2, <2>2, <2>4 DEF Grows
    <2>6. /\ j.link # Nobody => Spender(j)
          /\ k # I!Idle => ~Spender(k)
      BY <1>1, SpendsOnce
    <2>7. j.link # Nobody => j.link \in Letters /\ uses[j.link] = 0 /\ j.link \in spent
      BY <1>1, <2>6 DEF Fit, Spender
    <2>8. /\ uses' \in [Letters -> Nat]
          /\ j.link # Nobody => uses'[j.link] = 1
          /\ \A l \in Letters : l # j.link => uses'[l] = uses[l]
      BY <1>1, <2>1, <2>3, <2>7 DEF I!Used
    <2>9. RowsHold'
      <3>1. announced' \subseteq {b \in Persons : account'[b].status = "archived"}
        BY <1>2, <2>2, <2>4 DEF LinksInv, RowsHold, RowTypes
      <3>2. RowTypes' BY <1>2, <2>4, <2>8, <3>1 DEF LinksInv, RowsHold, RowTypes
      <3>3. Founded' BY <1>1, <1>2, <2>4 DEF LinksInv, RowsHold, Founded
      <3>4. UsedIsSpent'
        BY <1>2, <2>7, <2>8 DEF LinksInv, RowsHold, UsedIsSpent, NobodyIsNone
      <3> QED BY <1>2, <3>2, <3>3, <3>4 DEF LinksInv, RowsHold, I!StoredIsChosen, I!EndsAreToldOnce
    <2>10. k # I!Idle => k \in Fit'
      <3> SUFFICES ASSUME k # I!Idle PROVE k \in Fit'
        OBVIOUS
      <3>1. I!Ahead(j, {"announce"}) => account'[a].status = "archived"
        BY <1>1, <2>4 DEF Fit
      <3>2. Telling(k) => \A s \in j.ends : s \in ended' /\ reported'[s] = 0
        BY <1>1, <1>2, RestNarrow DEF Fit
      <3> QED BY <1>1, <2>5, <2>6, <3>1, <3>2, RestFits
    <2>11. \A l \in Letters : uses'[l] # uses[l] => Spender(j) /\ l = j.link
      BY <2>6, <2>8 DEF NobodyIsNone
    <2>12. JobsFit' /\ JobsApart'
      BY <1>1, <1>2, <2>1, <2>4, <2>5, <2>10, <2>11, SavedKept
    <2> QED BY <2>9, <2>12 DEF LinksInv
  <1>4. CASE ~(I!Current(q, "account") /\ I!FitsIndex(a, j.row))
    <2>1. I!Stop(q) /\ UNCHANGED <<I!rows, uses, chosen>>
      BY <1>2, <1>4 DEF I!SaveAccount, I!rows
    <2> QED BY <2>1, StopKept
  <1> QED BY <1>3, <1>4

LEMMA SavePasswordKept ==
    ASSUME NobodyIsNone, LinksInv, NEW q \in Requests, I!SavePassword(q) PROVE LinksInv'
  <1> DEFINE j == doing[q]
             a == j.on
             k == I!Rest(j)
  <1>1. /\ j # I!Idle /\ j \in Fit /\ j \in I!Jobs /\ Planned(j) /\ Head(j.todo) = "password"
        /\ a \in Persons /\ account[a] # I!Unregistered
        /\ j.secret \in Passwords \cup {I!Revoked} /\ j.link \in Letters \cup {Nobody}
    BY AtIs, JobFields DEF I!SavePassword
  <1>2. UNCHANGED <<account, link, spent, expired, mailed, holder, ended, reported, announced>>
    BY DEF I!SavePassword
  <1>3. CASE I!Current(q, "password")
    <2>1. /\ secret' = [secret EXCEPT ![a] = j.secret]
          /\ chosen' = IF j.secret = I!Revoked THEN chosen ELSE [chosen EXCEPT ![a] = j.secret]
          /\ I!Saved(q, "password") /\ I!Used(q)
      BY <1>3 DEF I!SavePassword, I!UpdateCredential
    <2>2. /\ secret \in [Persons -> Passwords \cup {I!Revoked}]
          /\ chosen \in [Persons -> Passwords \cup {I!Revoked}] /\ uses \in [Letters -> Nat]
      BY DEF LinksInv, RowsHold, RowTypes
    <2>3. /\ secret' \in [Persons -> Passwords \cup {I!Revoked}]
          /\ chosen' \in [Persons -> Passwords \cup {I!Revoked}]
          /\ secret'[a] \in {chosen'[a], I!Revoked}
          /\ \A b \in Persons \ {a} : secret'[b] = secret[b] /\ chosen'[b] = chosen[b]
      BY <1>1, <2>1, <2>2
    <2>4. Grows BY <1>2 DEF Grows
    <2>5. /\ j.link # Nobody => Spender(j)
          /\ k # I!Idle => ~Spender(k)
      BY <1>1, SpendsOnce
    <2>6. j.link # Nobody => j.link \in Letters /\ uses[j.link] = 0 /\ j.link \in spent
      BY <1>1, <2>5 DEF Fit, Spender
    <2>7. /\ uses' \in [Letters -> Nat]
          /\ j.link # Nobody => uses'[j.link] = 1
          /\ \A l \in Letters : l # j.link => uses'[l] = uses[l]
      BY <1>1, <2>1, <2>2, <2>6 DEF I!Used
    <2>8. RowsHold'
      <3>1. RowTypes' BY <1>2, <2>3, <2>7 DEF LinksInv, RowsHold, RowTypes
      <3>2. Founded' BY <1>1, <1>2, <2>3 DEF LinksInv, RowsHold, Founded
      <3>3. UsedIsSpent'
        BY <1>2, <2>6, <2>7 DEF LinksInv, RowsHold, UsedIsSpent, NobodyIsNone
      <3>4. I!StoredIsChosen' BY <2>3 DEF LinksInv, RowsHold, I!StoredIsChosen
      <3> QED BY <1>2, <3>1, <3>2, <3>3, <3>4 DEF LinksInv, RowsHold, I!EndsAreToldOnce
    <2>9. k # I!Idle => k \in Fit'
      <3> SUFFICES ASSUME k # I!Idle PROVE k \in Fit'
        OBVIOUS
      <3>1. Telling(k) => \A s \in j.ends : s \in ended' /\ reported'[s] = 0
        BY <1>1, <1>2, RestNarrow DEF Fit
      <3> QED BY <1>1, <1>2, <2>4, <2>5, <3>1, RestFits
    <2>10. \A l \in Letters : uses'[l] # uses[l] => Spender(j) /\ l = j.link
      BY <2>5, <2>7 DEF NobodyIsNone
    <2>11. JobsFit' /\ JobsApart'
      BY <1>1, <1>2, <2>1, <2>3, <2>4, <2>9, <2>10, SavedKept
    <2> QED BY <2>8, <2>11 DEF LinksInv
  <1>4. CASE ~I!Current(q, "password")
    <2>1. I!Stop(q) /\ UNCHANGED <<I!rows, uses, chosen>>
      BY <1>2, <1>4 DEF I!SavePassword, I!rows
    <2> QED BY <2>1, StopKept
  <1> QED BY <1>3, <1>4

\* The hash that is saved on the side is of the password in force.
LEMMA RehashKept ==
    ASSUME NobodyIsNone, LinksInv, NEW q \in Requests, I!Rehash(q) PROVE LinksInv'
  <1> DEFINE j == doing[q]
             a == j.on
             k == I!Rest(j)
  <1>1. /\ j # I!Idle /\ j \in Fit /\ j \in I!Jobs /\ Planned(j) /\ Head(j.todo) = "rehash"
        /\ a \in Persons /\ account[a] # I!Unregistered /\ I!Ahead(j, {"rehash"})
        /\ j.secret \in Passwords \cup {I!Revoked}
    BY AtIs, JobFields DEF I!Rehash
  <1>2. UNCHANGED <<account, link, spent, expired, mailed, holder, ended, reported, announced,
                    uses, chosen>>
    BY DEF I!Rehash
  <1>3. Grows BY <1>2 DEF Grows
  <1>4. CASE I!GoOn(q) /\ UNCHANGED secret
    <2>1. JobsFit' /\ JobsApart' BY <1>2, <1>3, <1>4, PlainStep DEF I!Rehash
    <2>2. RowsHold'
      BY <1>2, <1>4 DEF LinksInv, RowsHold, RowTypes, Founded, I!StoredIsChosen, UsedIsSpent,
                        I!EndsAreToldOnce
    <2> QED BY <2>1, <2>2 DEF LinksInv
  <1>5. CASE I!Current(q, "password") /\ I!UpdateCredential(a, j.secret) /\ I!Saved(q, "password")
    <2>1. j.secret \in {chosen[a], I!Revoked} BY <1>1, <1>5 DEF Fit, I!Current
    <2>2. secret \in [Persons -> Passwords \cup {I!Revoked}] BY DEF LinksInv, RowsHold, RowTypes
    <2>3. /\ secret' \in [Persons -> Passwords \cup {I!Revoked}] /\ secret'[a] = j.secret
          /\ \A b \in Persons \ {a} : secret'[b] = secret[b]
      BY <1>1, <1>5, <2>2 DEF I!UpdateCredential
    <2>4. RowsHold'
      <3>1. RowTypes' BY <1>2, <2>3 DEF LinksInv, RowsHold, RowTypes
      <3>2. Founded' BY <1>1, <1>2, <2>3 DEF LinksInv, RowsHold, Founded
      <3>3. I!StoredIsChosen' BY <1>2, <2>1, <2>3 DEF LinksInv, RowsHold, I!StoredIsChosen
      <3> QED BY <1>2, <3>1, <3>2, <3>3 DEF LinksInv, RowsHold, UsedIsSpent, I!EndsAreToldOnce
    <2>5. k # I!Idle => k \in Fit'
      <3> SUFFICES ASSUME k # I!Idle PROVE k \in Fit'
        OBVIOUS
      <3>1. /\ Spender(k) => uses'[j.link] = 0
            /\ Telling(k) => \A s \in j.ends : s \in ended' /\ reported'[s] = 0
        BY <1>1, <1>2, RestNarrow DEF Fit
      <3> QED BY <1>1, <1>2, <1>3, <3>1, RestFits
    <2>6. JobsFit' /\ JobsApart'
      BY <1>1, <1>2, <1>3, <1>5, <2>5, SavedKept
    <2> QED BY <2>4, <2>6 DEF LinksInv
  <1> QED BY <1>4, <1>5 DEF I!Rehash

-----------------------------------------------------------------------------
(* The theorems.                                                           *)

LEMMA Initially == ASSUME NobodyIsNone, I!Init PROVE LinksInv
  <1>1. RowTypes
    <2>1. I!Unregistered \in I!Rows BY DEF I!Rows
    <2> QED BY <2>1 DEF I!Init, RowTypes
  <1>2. Founded BY DEF I!Init, Founded, I!Unmade, NobodyIsNone
  <1>3. I!StoredIsChosen /\ UsedIsSpent /\ I!EndsAreToldOnce
    BY DEF I!Init, I!StoredIsChosen, UsedIsSpent, I!EndsAreToldOnce
  <1>4. JobsFit /\ JobsApart BY DEF I!Init, JobsFit, JobsApart
  <1> QED BY <1>1, <1>2, <1>3, <1>4 DEF LinksInv, RowsHold

LEMMA LinksInvKept == ASSUME NobodyIsNone, LinksInv, [I!Next]_(I!vars) PROVE LinksInv'
  <1>1. CASE UNCHANGED I!vars
    <2>1. UNCHANGED <<I!rows, uses, chosen>> /\ UNCHANGED doing BY <1>1 DEF I!vars
    <2>2. JobsFit' /\ JobsApart' BY <2>1, StillRows, NoneMoves
    <2> QED BY <2>1, <2>2, StillRows DEF LinksInv
  <1>2. CASE I!register BY <1>2, RegisterKept
  <1>3. ASSUME NEW q \in Requests, I!Step(q) PROVE LinksInv'
    <2>1. CASE I!Verify(q) BY <2>1, VerifyKept
    <2>2. CASE I!ConfirmEmail(q) BY <2>2, ConfirmEmailKept
    <2>3. CASE I!CompleteReset(q) BY <2>3, CompleteResetKept
    <2>4. CASE I!ConsumeLink(q) BY <2>4, ConsumeLinkKept
    <2>5. CASE I!SaveAccount(q) BY <2>5, SaveAccountKept
    <2>6. CASE I!ReadCredential(q) BY <2>6, ReadCredentialKept
    <2>7. CASE I!SavePassword(q) BY <2>7, SavePasswordKept
    <2>8. CASE I!Rehash(q) BY <2>8, RehashKept
    <2>9. CASE I!SweepLinks(q) BY <2>9, SweepLinksKept
    <2>10. CASE I!EndSessions(q) BY <2>10, EndSessionsKept
    <2>11. CASE I!Announce(q) BY <2>11, AnnounceKept
    <2>12. CASE I!Tell(q) BY <2>12, TellKept
    <2>13. CASE \E l \in Letters : I!Mint(q, l) BY <2>13, MintStepKept
    <2>14. CASE \E s \in Visits : I!CreateSession(q, s) BY <2>14, CreateSessionKept
    <2> QED BY <1>3, <2>1, <2>2, <2>3, <2>4, <2>5, <2>6, <2>7, <2>8, <2>9, <2>10, <2>11,
               <2>12, <2>13, <2>14 DEF I!Step
  <1>4. ASSUME NEW q \in Requests, I!Ask(q) \/ I!Dies(q) PROVE LinksInv'
    BY <1>4, AskingKept, DiesKept
  <1>5. ASSUME NEW l \in Letters, I!Expire(l) PROVE LinksInv' BY <1>5, ExpireKept
  <1> QED BY <1>1, <1>2, <1>3, <1>4, <1>5 DEF I!Next

LEMMA Always == ASSUME NobodyIsNone PROVE I!Spec => []LinksInv
  <1>1. I!Init => LinksInv BY Initially
  <1>2. LinksInv /\ [I!Next]_(I!vars) => LinksInv' BY LinksInvKept
  <1> QED BY <1>1, <1>2, PTL DEF I!Spec

\* The tables, and what a request has still to write, are of their types, whatever
\* statements of other requests come between its own.
THEOREM IdentityTypes == ASSUME NobodyIsNone PROVE I!Spec => []I!TypeOK
  <1>1. LinksInv => I!TypeOK
    <2> SUFFICES ASSUME LinksInv PROVE I!TypeOK
      OBVIOUS
    <2>1. \A q \in Requests : doing[q] = I!Idle \/ doing[q] \in I!Jobs BY DEF LinksInv, JobsFit, Fit
    <2> QED BY <2>1 DEF LinksInv, RowsHold, RowTypes, I!TypeOK
  <1> QED BY <1>1, Always, PTL

\* However many requests follow a link at once, and wherever they are cut short,
\* one of them saves what the link is for: the others read it as live and are
\* refused when they consume it.
THEOREM OneSavePerLink == ASSUME NobodyIsNone PROVE I!Spec => []I!LinkWorksOnce
  <1>1. LinksInv => I!LinkWorksOnce BY DEF LinksInv, RowsHold, UsedIsSpent, I!LinkWorksOnce
  <1> QED BY <1>1, Always, PTL

\* A password in force is one that its account last chose: a sign-in that saves a
\* new hash of the one it was shown does not undo a change made since it read.
THEOREM ChosenIsStored == ASSUME NobodyIsNone PROVE I!Spec => []I!StoredIsChosen
  <1>1. LinksInv => I!StoredIsChosen BY DEF LinksInv, RowsHold
  <1> QED BY <1>1, Always, PTL

\* The end of a session is reported once, and only of a session that was ended,
\* although a sign-out, a change of password and a closing may end the same ones.
THEOREM ToldOnce == ASSUME NobodyIsNone PROVE I!Spec => []I!EndsAreToldOnce
  <1>1. LinksInv => I!EndsAreToldOnce BY DEF LinksInv, RowsHold
  <1> QED BY <1>1, Always, PTL

\* Only a registration and a save write accounts.
LEMMA AccountWrites ==
    ASSUME [I!Next]_(I!vars)
    PROVE  UNCHANGED account \/ I!register \/ \E q \in Requests : I!SaveAccount(q)
  <1>1. ASSUME NEW q \in Requests, I!Ask(q) PROVE UNCHANGED account
    <2>1. PICK j : I!Start(q, j)
      BY <1>1 DEF I!Ask, I!requestVerification, I!requestReset, I!signIn, I!signOut, I!confirmVerification,
         I!confirmEmail, I!confirmReset, I!rename, I!changePassword, I!changeEmail, I!endSession,
         I!closeAccount, I!RequestVerification, I!IssueVerification, I!AskVerification, I!AskReset,
         I!SignIn, I!SignOut, I!EndSessionByID, I!Follow, I!Rename, I!ChangePassword, I!AskEmail, I!Close
    <2> QED BY <2>1 DEF I!Start, I!rows
  <1>2. ASSUME NEW q \in Requests, I!Step(q), ~I!SaveAccount(q) PROVE UNCHANGED account
    BY <1>2 DEF I!Step, I!Verify, I!ConfirmEmail, I!CompleteReset, I!Proceed, I!ConsumeLink, I!ReadCredential,
       I!SavePassword, I!Rehash, I!SweepLinks, I!EndSessions, I!Announce, I!Tell, I!Mint, I!CreateSession, I!rows
  <1>3. ASSUME NEW q \in Requests, I!Dies(q) PROVE UNCHANGED account BY <1>3 DEF I!Dies, I!rows
  <1>4. ASSUME NEW l \in Letters, I!Expire(l) PROVE UNCHANGED account BY <1>4 DEF I!Expire
  <1>5. CASE UNCHANGED I!vars BY <1>5 DEF I!vars, I!rows
  <1> QED BY <1>1, <1>2, <1>3, <1>4, <1>5 DEF I!Next

\* A closed account keeps its row: a request that read it open, and saves it after
\* it was closed, is refused by the version it read.
THEOREM ClosedStays == ASSUME NobodyIsNone PROVE I!Spec => I!ClosedForGood
  <1>1. ASSUME LinksInv, [I!Next]_(I!vars) PROVE I!StaysClosed
    <2> SUFFICES ASSUME NEW a \in Persons, account[a].status = "archived"
                 PROVE  account'[a] = account[a]
      BY DEF I!StaysClosed
    <2>1. CASE I!register
      <3>1. PICK b \in Persons : /\ account[b] = I!Unregistered
                                 /\ \E row : account' = [account EXCEPT ![b] = row]
        BY <2>1 DEF I!register, I!Register, I!InsertAccount
      <3>2. b # a BY <3>1 DEF I!Unregistered
      <3> QED BY <1>1, <3>1, <3>2 DEF LinksInv, RowsHold, RowTypes
    <2>2. ASSUME NEW q \in Requests, I!SaveAccount(q) PROVE account'[a] = account[a]
      <3>1. UNCHANGED account \/ /\ I!Current(q, "account")
                                 /\ account' = [account EXCEPT ![doing[q].on] = doing[q].row]
        BY <2>2 DEF I!SaveAccount, I!UpdateAccount
      <3>2. doing[q] \in Fit /\ I!Ahead(doing[q], {"account"}) BY <1>1, <2>2, AtIs DEF I!SaveAccount
      <3>3. I!Current(q, "account") => doing[q].on # a
        BY <3>2 DEF Fit, I!Current, I!Live, I!AccountByID
      <3> QED BY <1>1, <3>1, <3>3 DEF LinksInv, RowsHold, RowTypes
    <2> QED BY <1>1, <2>1, <2>2, AccountWrites
  <1>2. LinksInv /\ [I!Next]_(I!vars) => [I!StaysClosed]_(I!vars) BY <1>1
  <1>3. I!Spec => []LinksInv BY Always
  <1> QED BY <1>2, <1>3, PTL DEF I!Spec, I!ClosedForGood

-----------------------------------------------------------------------------
(* The two that MCAccounts follows.                                        *)

\* A behaviour of MCAccounts is one of Seats and one of Identity: while either is
\* followed, the other stands still.
LEMMA Follows == AccountsSpec => Spec /\ I!Spec
  <1>1. AccountsInit => Init /\ I!Init BY DEF AccountsInit
  <1>2. [AccountsNext]_all => [Next]_vars
    BY DEF AccountsNext, all
  <1>3. [AccountsNext]_all => [I!Next]_(I!vars)
    BY DEF AccountsNext, all, identity, I!vars, I!rows
  <1> QED BY <1>1, <1>2, <1>3, PTL DEF AccountsSpec, Spec, I!Spec

\* Whichever is followed, every variable keeps its type, a link lets one save
\* through and the end of a session is reported once.
THEOREM OnceEachAlways == ASSUME NobodyIsNone PROVE AccountsSpec => []OnceEach
  <1>1. I!TypeOK /\ I!LinkWorksOnce /\ I!EndsAreToldOnce /\ TypeOK => OnceEach
    BY DEF OnceEach
  <1> QED BY <1>1, IdentityTypes, OneSavePerLink, ToldOnce, Follows, TypeCorrect, PTL

\* Whichever is followed, the password in force is the last one somebody chose.
THEOREM StoredIsChosenAlways == ASSUME NobodyIsNone PROVE AccountsSpec => []StoredIsChosen
  <1>1. I!StoredIsChosen => StoredIsChosen BY DEF StoredIsChosen
  <1> QED BY <1>1, ChosenIsStored, Follows, PTL

\* Whichever is followed, neither a closed account nor a spent invitation comes
\* back.
THEOREM DoneIsDone == ASSUME NobodyIsNone PROVE AccountsSpec => DoneForGood
  <1>1. [AccountsNext]_all /\ [StaysDead]_vars /\ [I!StaysClosed]_(I!vars) =>
           [IF part = "identity" THEN I!StaysClosed ELSE StaysDead]_all
    <2> SUFFICES ASSUME AccountsNext, [StaysDead]_vars, [I!StaysClosed]_(I!vars)
                 PROVE  IF part = "identity" THEN I!StaysClosed ELSE StaysDead
      BY DEF AccountsNext, all
    <2>1. UNCHANGED I!vars => I!StaysClosed BY DEF I!vars, I!rows, I!StaysClosed
    <2>2. UNCHANGED vars => StaysDead BY DEF vars, StaysDead, Live
    <2> QED BY <2>1, <2>2
  <1>2. ASSUME NobodyIsNone PROVE I!Spec => [][I!StaysClosed]_(I!vars)
    BY ClosedStays DEF I!ClosedForGood
  <1>3. Spec => [][StaysDead]_vars BY NeverLive DEF NeverLiveAgain
  <1> QED BY <1>1, <1>2, <1>3, Follows, PTL DEF AccountsSpec, DoneForGood
=============================================================================
