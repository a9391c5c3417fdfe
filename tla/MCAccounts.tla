----------------------------- MODULE MCAccounts -----------------------------
(***************************************************************************)
(* Who somebody is and where they may go: the links, passwords and         *)
(* sessions of one person with two addresses, and the invitations, seats   *)
(* and grants of two accounts.  The two live in schemas of their own, so a *)
(* behaviour follows one of them; the second is followed once for its      *)
(* invitations and once for its seats.  The same model values stand for    *)
(* the invitations and the addresses.                                      *)
(***************************************************************************)
EXTENDS Seats, TLC

CONSTANTS x1, x2, y1, y2, z1, z2, s1, s2, q1, q2

\* Of the identity: see Identity.
CONSTANTS Persons, Addresses, Passwords, Letters, Visits, Nobody

TwoAccounts == {x1, x2}
TwoInvitations == {y1, y2}
TwoPasswords == {z1, z2}
TwoVisits == {s1, s2}
TwoRequests == {q1, q2}
Symmetry == Permutations({x1, x2}) \cup Permutations({y1, y2}) \cup Permutations({z1, z2})
            \cup Permutations({s1, s2})
            \cup Permutations(TwoRequests)

VARIABLES part, account, secret, link, spent, expired, mailed, holder, ended, reported,
          announced, doing, uses, chosen

I == INSTANCE Identity WITH
       Accounts <- Persons, Emails <- Addresses, Secrets <- Passwords, Sessions <- Visits,
       Links <- Letters, MayDie <- TRUE,
       told <- reported, job <- doing

identity == <<account, secret, link, spent, expired, mailed, holder, ended, reported,
              announced, doing, uses, chosen>>
all == <<vars, identity, part>>

AccountsInit ==
    /\ part \in {"identity", "invitations", "seats"}
    /\ Init /\ I!Init
    /\ part = "identity" => \A a \in Accounts : seat[a] = "owner"
    /\ part = "seats" => \A a \in Accounts : seat[a] # "client"

\* Invitations, with nobody removed, re-ranked or re-granted meanwhile.
OfInvitations == \A q \in Requests :
    job'[q].step \in {"idle", "find", "withdraw", "create", "take", "revoke"}

\* Seats, with one invitation and the roles that come from nobody's box.
OfSeats ==
    /\ invite'[y2] = Unsent
    /\ \A q \in {r \in Requests : job'[r] # Idle} : job'[q].as # "client"

AccountsNext ==
    \/ part = "identity" /\ I!Next /\ UNCHANGED <<vars, part>>
    \/ part = "invitations" /\ Next /\ OfInvitations /\ UNCHANGED <<identity, part>>
    \/ part = "seats" /\ Next /\ OfSeats /\ UNCHANGED <<identity, part>>

AccountsSpec == AccountsInit /\ [][AccountsNext]_all

-----------------------------------------------------------------------------
\* A link lets one save through, however many follow it, and no session is
\* reported ended twice.  Their types are kept with them.
OnceEach ==
    /\ part = "identity" => I!TypeOK /\ I!LinkWorksOnce /\ I!EndsAreToldOnce
    /\ part # "identity" => TypeOK

\* The password in force is the last one somebody chose.
StoredIsChosen == part = "identity" => I!StoredIsChosen

\* A row that is done is never done again: an account that is closed, and an
\* invitation that was taken or withdrawn.
DoneForGood == [][IF part = "identity" THEN I!StaysClosed ELSE StaysDead]_all
=============================================================================
