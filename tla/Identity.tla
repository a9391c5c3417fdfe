------------------------------ MODULE Identity ------------------------------
(***************************************************************************)
(* Accounts, their password, the links mailed to them and their sessions.  *)
(* Only a registration is a transaction: every other request reads, and    *)
(* then makes its writes in statements of their own, in a fixed order that *)
(* a refused write or a death cuts short.                                  *)
(*                                                                         *)
(* What keeps requests apart is in the statements: an account and a        *)
(* password are saved under the version that was read (a copy is stale     *)
(* once anybody else has saved the row), a link is consumed only while it  *)
(* is not, and a session is ended only while it is not.  Api keys are      *)
(* never made by the program and are left out, as are session expiry and   *)
(* the events nobody reads.                                                *)
(***************************************************************************)
EXTENDS Naturals, Sequences

CONSTANTS
    Accounts, Emails, Secrets,
    Links, Sessions,               \* identifiers not used yet
    Requests,
    Nobody,
    MayDie                         \* whether a request may be cut short

Kinds == {"verification", "reset", "email"}
Unmade == [on |-> Nobody, kind |-> "verification", to |-> Nobody]
Revoked == Nobody

VARIABLES
    account,     \* account[a]: its status and address
    secret,      \* secret[a]: the live password, or Revoked
    link,        \* link[l]: whose, what for, and the address it went to
    spent, expired, mailed,        \* links
    holder,      \* holder[s]: whose session
    ended,       \* sessions that were revoked
    told,        \* told[s]: session.ended events
    announced,   \* accounts with an account.archived event
    job,         \* job[q]: the steps a request still has to make
    uses,        \* history: uses[l], the saves a link allowed
    chosen       \* history: chosen[a], the password last set by somebody

rows == <<account, secret, link, spent, expired, mailed, holder, ended, told, announced>>
vars == <<rows, job, uses, chosen>>

Unregistered == [status |-> "none", email |-> Nobody]
Rows == {Unregistered} \cup [status : {"pending", "active", "archived"}, email : Emails]
Idle == [todo |-> <<>>]
Jobs == [todo : Seq({"read", "consume", "account", "credential", "password", "rehash", "links",
                     "mint", "sessions", "session", "announce", "tell"}),
         on : Accounts, link : Links \cup {Nobody}, row : Rows,
         secret : Secrets \cup {Revoked}, kind : Kinds,
         ends : SUBSET Sessions, stale : SUBSET {"account", "password"}]

TypeOK ==
    /\ account \in [Accounts -> Rows]
    /\ secret \in [Accounts -> Secrets \cup {Revoked}]
    /\ link \in [Links -> {Unmade} \cup [on : Accounts, kind : Kinds, to : Emails]]
    /\ \A set \in {spent, expired, mailed} : set \subseteq {l \in Links : link[l] # Unmade}
    /\ holder \in [Sessions -> Accounts \cup {Nobody}]
    /\ ended \subseteq {s \in Sessions : holder[s] # Nobody}
    /\ told \in [Sessions -> Nat]
    /\ announced \subseteq {a \in Accounts : account[a].status = "archived"}
    /\ \A q \in Requests : job[q] = Idle \/ job[q] \in Jobs
    /\ uses \in [Links -> Nat]
    /\ chosen \in [Accounts -> Secrets \cup {Revoked}]

Init ==
    /\ account = [a \in Accounts |-> Unregistered]
    /\ secret = [a \in Accounts |-> Revoked]
    /\ link = [l \in Links |-> Unmade]
    /\ spent = {} /\ expired = {} /\ mailed = {}
    /\ holder = [s \in Sessions |-> Nobody]
    /\ ended = {} /\ told = [s \in Sessions |-> 0]
    /\ announced = {}
    /\ job = [q \in Requests |-> Idle]
    /\ uses = [l \in Links |-> 0]
    /\ chosen = [a \in Accounts |-> Revoked]

-----------------------------------------------------------------------------
(* Reads.                                                                  *)

AccountByID(a) == account[a]
Live(a) == AccountByID(a).status \in {"pending", "active"}       \* CanAuthenticate
AccountByEmail(email) == {b \in Accounts : Live(b) /\ account[b].email = email}
Taken(email, a) == AccountByEmail(email) \ {a} # {}

LivePasswordForAccount(a) == secret[a]
CredentialsForAccount(a) == {secret[a]} \ {Revoked}
Holds(a, s) == LivePasswordForAccount(a) = s /\ s # Revoked

TokenByHash(l) == link[l]
Works(l, kind) == l \in mailed \ (spent \cup expired) /\ TokenByHash(l).kind = kind

SessionByHash(s) == holder[s]
LiveSessionsFor(a) == {s \in Sessions : holder[s] = a} \ ended
\* Who asks: the session is live, and so, in the next statement, is the account.
Authenticate(s, a) == SessionByHash(s) = a /\ s \notin ended /\ Live(a)
Mine(a) == LiveSessionsFor(a)

-----------------------------------------------------------------------------
(* What a row becomes.                                                     *)

NewAccount(email) == [status |-> "pending", email |-> email]
Activate(row) == [row EXCEPT !.status = "active"]
Archive(row) == [row EXCEPT !.status = "archived"]
\* A confirmed address is a proved address.
ChangeEmail(row, to) == [Activate(row) EXCEPT !.email = to]

\* The sessions that a statement ends, of those that are live.
RevokeSession(s) == {s}
RevokeSessionsForAccount == Sessions
RevokeSessionsExcept(own) == Sessions \ {own}

\* A request has read what it needs and has its writes before it.
Begin(q, a, todo) ==
    [todo |-> todo, on |-> a, link |-> Nobody, row |-> account[a], secret |-> Revoked,
     kind |-> "email", ends |-> RevokeSessionsForAccount, stale |-> {}]

Start(q, j) ==
    /\ job[q] = Idle
    /\ job' = [job EXCEPT ![q] = j]
    /\ UNCHANGED <<rows, uses, chosen>>

Reads(q, kind) == job[q] # Idle /\ Head(job[q].todo) = "read" /\ job[q].kind = kind
Again(q, todo) == [job[q] EXCEPT !.todo = todo, !.row = account[job[q].on], !.stale = {}]

Proceed(q, allowed, j) ==
    /\ job' = [job EXCEPT ![q] = IF allowed THEN j ELSE Idle]
    /\ UNCHANGED <<rows, uses, chosen>>

InsertAccount(a, row) == account' = [account EXCEPT ![a] = row]
InsertCredential(a, s) ==
    secret' = [secret EXCEPT ![a] = s] /\ chosen' = [chosen EXCEPT ![a] = s]

Register(a, email, s) ==
    /\ account[a] = Unregistered
    /\ ~Taken(email, a)                              \* else ErrAccountExists
    /\ InsertAccount(a, NewAccount(email)) /\ InsertCredential(a, s)
    /\ UNCHANGED <<link, spent, expired, mailed, holder, ended, told, announced, job,
                   uses>>

AskVerification(q, a) ==
    Start(q, [Begin(q, a, <<"links", "mint">>) EXCEPT !.kind = "verification"])
\* Asked for by address.
RequestVerification(q, a) == account[a].status = "pending" /\ AskVerification(q, a)
\* Delivered again with account.created: by id, archived or not.
IssueVerification(q, a) == account[a].status \in {"pending", "archived"} /\ AskVerification(q, a)

AskReset(q, a) ==
    /\ Live(a)
    /\ Start(q, [Begin(q, a, <<"links", "mint">>) EXCEPT !.kind = "reset"])

AskEmail(q, a, s, email) ==
    /\ Holds(a, s)
    /\ AccountByID(a).email # email
    /\ Start(q, [Begin(q, a, <<"links", "mint">>) EXCEPT !.row.email = email])

\* The row of the link is read first, the account or the password it is for in
\* the next statement.
Follow(q, l, s) ==
    /\ Works(l, TokenByHash(l).kind)
    /\ Start(q, [Begin(q, link[l].on, <<"read">>)
                   EXCEPT !.link = l, !.kind = link[l].kind, !.secret = s])

\* Archived has no way back, and an active account keeps what it has.
Verify(q) ==
    /\ Reads(q, "verification")
    /\ LET a == job[q].on IN
       Proceed(q, Live(a),
               [Again(q, IF account[a].status = "active" THEN <<"consume">>
                         ELSE <<"consume", "account">>) EXCEPT !.row = Activate(@)])

\* Moved to the address it has already, the account is returned as it was and
\* its save finds no row one version behind.
ConfirmEmail(q) ==
    /\ Reads(q, "email")
    /\ LET a == job[q].on  to == link[job[q].link].to IN
       Proceed(q, Live(a),
               [Again(q, <<"consume", "account">>)
                  EXCEPT !.row = ChangeEmail(@, to),
                         !.stale = IF account[a].email = to THEN {"account"} ELSE {}])

CompleteReset(q) ==
    /\ Reads(q, "reset")
    /\ Proceed(q, LivePasswordForAccount(job[q].on) # Revoked,
               Again(q, <<"consume", "password", "sessions", "tell">>))

\* From one of the account's own sessions, which is kept.
ChangePassword(q, a, own, old, new) ==
    /\ Holds(a, old)
    /\ Start(q, [Begin(q, a, <<"password", "links", "sessions", "tell">>)
                   EXCEPT !.secret = new, !.ends = RevokeSessionsExcept(own)])

Rename(q, a) ==
    /\ Live(a)
    /\ Start(q, Begin(q, a, <<"account">>))

SignIn(q, a, s, needsRehash) ==
    /\ Holds(a, s) /\ Live(a)
    /\ Start(q, [Begin(q, a, IF needsRehash THEN <<"rehash", "session">> ELSE <<"session">>)
                   EXCEPT !.secret = IF needsRehash THEN s ELSE Revoked])

EndSessionByID(q, a, s) ==
    Start(q, [Begin(q, a, <<"sessions", "tell">>) EXCEPT !.ends = RevokeSession(s)])
\* With the token, whether it has been ended or not.
SignOut(q, s) == SessionByHash(s) # Nobody /\ EndSessionByID(q, SessionByHash(s), s)

Close(q, a, s) ==
    /\ Holds(a, s) /\ Live(a)
    /\ Start(q, [Begin(q, a, <<"account", "credential", "password", "links", "sessions",
                               "announce", "tell">>)
                   EXCEPT !.row = Archive(@)])

-----------------------------------------------------------------------------
(* The requests: nobody needs a session to sign in, to follow a link or to *)
(* ask for one; all the others are of the account whose session asks.      *)

register == \E a \in Accounts, email \in Emails, s \in Secrets : Register(a, email, s)
requestVerification(q) == \E a \in Accounts : RequestVerification(q, a)
requestReset(q) == \E a \in Accounts : AskReset(q, a)
confirmVerification(q) ==
    \E l \in Links : link[l].kind = "verification" /\ Follow(q, l, Revoked)
confirmEmail(q) == \E l \in Links : link[l].kind = "email" /\ Follow(q, l, Revoked)
confirmReset(q) == \E l \in Links, s \in Secrets : link[l].kind = "reset" /\ Follow(q, l, s)
signIn(q) ==
    \E a \in Accounts, s \in Secrets, needsRehash \in BOOLEAN : SignIn(q, a, s, needsRehash)
signOut(q) == \E s \in Sessions : SignOut(q, s)

rename(q, own, a) == Authenticate(own, a) /\ Rename(q, a)
changePassword(q, own, a) ==
    Authenticate(own, a) /\ \E old, new \in Secrets : ChangePassword(q, a, own, old, new)
changeEmail(q, own, a) ==
    Authenticate(own, a) /\ \E s \in Secrets, email \in Emails : AskEmail(q, a, s, email)
\* One of the caller's own, from the list they were shown.
endSession(q, own, a) == Authenticate(own, a) /\ \E s \in Mine(a) : EndSessionByID(q, a, s)
closeAccount(q, own, a) == Authenticate(own, a) /\ \E s \in Secrets : Close(q, a, s)

-----------------------------------------------------------------------------
(* Writes.                                                                 *)

At(q, step) == job[q] # Idle /\ Head(job[q].todo) = step
Rest(j) == IF Len(j.todo) = 1 THEN Idle ELSE [j EXCEPT !.todo = Tail(@)]
GoOn(q) == job' = [job EXCEPT ![q] = Rest(@)]
Stop(q) == job' = [job EXCEPT ![q] = Idle]
Ahead(j, steps) == \E i \in 1 .. Len(j.todo) : j.todo[i] \in steps

Saves(what) == IF what = "password" THEN {"password", "rehash"} ELSE {what}

\* q has saved a row: it goes on, and the copies of others are behind.
Saved(q, what) ==
    job' = [r \in Requests |->
              IF r = q THEN Rest(job[q])
              ELSE IF job[r] # Idle /\ job[r].on = job[q].on /\ Ahead(job[r], Saves(what))
                   THEN [job[r] EXCEPT !.stale = @ \cup {what}] ELSE job[r]]

Used(q) ==
    uses' = IF job[q].link = Nobody THEN uses ELSE [uses EXCEPT ![job[q].link] = @ + 1]

ConsumeToken(l) == spent' = spent \cup {l}
ConsumeLiveTokens(a, kind) ==
    spent' = spent \cup {l \in Links : link[l].on = a /\ link[l].kind = kind}
InsertToken(l, row) == link[l] = Unmade /\ link' = [link EXCEPT ![l] = row]

\* Mutant: any link that was read as live is consumed.
ConsumeReadLink(q) ==
    /\ At(q, "consume")
    /\ spent' = spent \cup {job[q].link}
    /\ GoOn(q)
    /\ UNCHANGED <<account, secret, link, expired, mailed, holder, ended, told, announced,
                   uses, chosen>>

ConsumeLink(q) ==
    /\ At(q, "consume")
    /\ IF job[q].link \in spent
       THEN Stop(q) /\ UNCHANGED spent                  \* ErrLinkRejected
       ELSE GoOn(q) /\ ConsumeToken(job[q].link)
    /\ UNCHANGED <<account, secret, link, expired, mailed, holder, ended, told, announced,
                   uses, chosen>>

\* Mutant: the UPDATE does not ask for the version.
CurrentAnyway(q, what) == TRUE

Current(q, what) == what \notin job[q].stale

\* The index is of the addresses of accounts that are not archived.
FitsIndex(a, row) == row.status = "archived" \/ ~Taken(row.email, a)
UpdateAccount(a, row) == account' = [account EXCEPT ![a] = row]
UpdateCredential(a, s) == secret' = [secret EXCEPT ![a] = s]

SaveAccount(q) ==
    /\ At(q, "account")
    /\ LET a == job[q].on  row == job[q].row IN
       IF Current(q, "account") /\ FitsIndex(a, row)
       THEN UpdateAccount(a, row) /\ Saved(q, "account") /\ Used(q)
       ELSE Stop(q) /\ UNCHANGED <<account, uses>>
    /\ UNCHANGED <<secret, link, spent, expired, mailed, holder, ended, told, announced,
                   chosen>>

\* A closing reads the credentials only now, and passes over a revoked one.
ReadCredential(q) ==
    /\ At(q, "credential")
    /\ LET j == job[q] IN
       job' = [job EXCEPT ![q] = IF CredentialsForAccount(j.on) = {} THEN Rest(Rest(j))
                                 ELSE [Rest(j) EXCEPT !.stale = @ \ {"password"}]]
    /\ UNCHANGED <<rows, uses, chosen>>

SavePassword(q) ==
    /\ At(q, "password")
    /\ LET a == job[q].on  s == job[q].secret IN
       IF Current(q, "password")
       THEN /\ UpdateCredential(a, s)
            /\ chosen' = IF s = Revoked THEN chosen ELSE [chosen EXCEPT ![a] = s]
            /\ Saved(q, "password") /\ Used(q)
       ELSE Stop(q) /\ UNCHANGED <<secret, chosen, uses>>          \* ErrStaleWrite
    /\ UNCHANGED <<account, link, spent, expired, mailed, holder, ended, told, announced>>

\* The password just presented under new parameters; failing fails nothing.
Rehash(q) ==
    /\ At(q, "rehash")
    /\ \/ /\ Current(q, "password")
          /\ UpdateCredential(job[q].on, job[q].secret)
          /\ Saved(q, "password")
       \/ GoOn(q) /\ UNCHANGED secret
    /\ UNCHANGED <<account, link, spent, expired, mailed, holder, ended, told, announced,
                   uses, chosen>>

SweepLinks(q) ==
    /\ At(q, "links")
    /\ ConsumeLiveTokens(job[q].on, job[q].kind)
    /\ GoOn(q)
    /\ UNCHANGED <<account, secret, link, expired, mailed, holder, ended, told, announced,
                   uses, chosen>>

\* The link is stored, and mailed last: the mail may fail.
Mint(q, l) ==
    /\ At(q, "mint")
    /\ InsertToken(l, [on |-> job[q].on, kind |-> job[q].kind, to |-> job[q].row.email])
    /\ mailed' \in {mailed, mailed \cup {l}}
    /\ GoOn(q)
    /\ UNCHANGED <<account, secret, spent, expired, holder, ended, told, announced,
                   uses, chosen>>

InsertSession(s, a) == holder[s] = Nobody /\ holder' = [holder EXCEPT ![s] = a]
CreateSession(q, s) ==
    /\ At(q, "session")
    /\ InsertSession(s, job[q].on)
    /\ GoOn(q)
    /\ UNCHANGED <<account, secret, link, spent, expired, mailed, ended, told, announced,
                   uses, chosen>>

\* The rows the UPDATE returns.
Ending(q) == job[q].ends \cap LiveSessionsFor(job[q].on)

EndSessions(q) ==
    /\ At(q, "sessions")
    /\ ended' = ended \cup Ending(q)
    /\ job' = [job EXCEPT ![q] = [Rest(@) EXCEPT !.ends = Ending(q)]]
    /\ UNCHANGED <<account, secret, link, spent, expired, mailed, holder, told, announced,
                   uses, chosen>>

Announce(q) ==
    /\ At(q, "announce")
    /\ announced' = announced \cup {job[q].on}
    /\ GoOn(q)
    /\ UNCHANGED <<account, secret, link, spent, expired, mailed, holder, ended, told,
                   uses, chosen>>

\* One event for each session that was ended.
Tell(q) ==
    /\ At(q, "tell")
    /\ \/ job[q].ends = {} /\ GoOn(q) /\ UNCHANGED told
       \/ \E s \in job[q].ends :
            /\ told' = [told EXCEPT ![s] = @ + 1]
            /\ job' = [job EXCEPT ![q].ends = @ \ {s}]
    /\ UNCHANGED <<account, secret, link, spent, expired, mailed, holder, ended, announced,
                   uses, chosen>>

Expire(l) ==
    /\ link[l] # Unmade /\ l \notin expired
    /\ expired' = expired \cup {l}
    /\ UNCHANGED <<account, secret, link, spent, mailed, holder, ended, told, announced,
                   job, uses, chosen>>

\* The process ends, the database refuses, the caller hangs up.
Dies(q) ==
    /\ job[q] # Idle
    /\ MayDie
    /\ Stop(q)
    /\ UNCHANGED <<rows, uses, chosen>>

Ask(q) ==
    \/ requestVerification(q) \/ requestReset(q) \/ signIn(q) \/ signOut(q)
    \/ confirmVerification(q) \/ confirmEmail(q) \/ confirmReset(q)
    \/ \E a \in Accounts : IssueVerification(q, a)
    \/ \E own \in Sessions, a \in Accounts :
          \/ rename(q, own, a) \/ changePassword(q, own, a) \/ changeEmail(q, own, a)
          \/ endSession(q, own, a) \/ closeAccount(q, own, a)

Step(q) ==
    \/ Verify(q) \/ ConfirmEmail(q) \/ CompleteReset(q)
    \/ ConsumeLink(q) \/ SaveAccount(q) \/ ReadCredential(q) \/ SavePassword(q) \/ Rehash(q)
    \/ SweepLinks(q) \/ EndSessions(q) \/ Announce(q) \/ Tell(q)
    \/ \E l \in Links : Mint(q, l)
    \/ \E s \in Sessions : CreateSession(q, s)

Next ==
    \/ register
    \/ \E q \in Requests : Ask(q) \/ Step(q) \/ Dies(q)
    \/ \E l \in Links : Expire(l)

Spec == Init /\ [][Next]_vars

-----------------------------------------------------------------------------
(* Properties.                                                             *)

\* However many times a link is followed at once, it lets one save through:
\* an account is activated or moved, or a password replaced, once for it.
LinkWorksOnce == \A l \in Links : uses[l] <= 1

\* The password in force is the one last set by a registration, a change or a
\* reset; the new hash a sign-in saves on the side never brings another back.
StoredIsChosen == \A a \in Accounts : secret[a] \in {chosen[a], Revoked}

\* A closed account stays closed, whatever was read before it was: a link
\* followed or a name changed at the same time does not bring it back.
StaysClosed == \A a \in Accounts : account[a].status = "archived" => account'[a] = account[a]
ClosedForGood == [][StaysClosed]_vars

\* No session is reported ended twice, or while it is not.
EndsAreToldOnce == \A s \in Sessions : told[s] <= 1 /\ (told[s] = 1 => s \in ended)
=============================================================================
