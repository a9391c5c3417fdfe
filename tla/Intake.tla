------------------------------- MODULE Intake --------------------------------
(***************************************************************************)
(* Candidates for sources: proposed as a reference or with their bytes,    *)
(* and ruled on once.  A reviewer reads the candidate, builds the source,  *)
(* stores its bytes with no transaction open, and then inserts the source  *)
(* with its capture and marks the candidate in one transaction, which the  *)
(* mark undoes if another was faster.                                      *)
(***************************************************************************)
EXTENDS Naturals, FiniteSets

CONSTANTS Candidates, Imports, Reviews

VARIABLES
    candidate,   \* candidate[c]: its status, source, and whether it holds bytes
    ruling,      \* ruling[r]: where the review is and what it read
    sources,     \* the sources there are, by the review that made them
    stored       \* the reviews whose bytes were stored

vars == <<candidate, ruling, sources, stored>>

None == "none"
Absent == [status |-> None, source |-> None, content |-> FALSE]
Unasked == [step |-> "idle", of |-> None, decision |-> None]

TypeOK ==
    /\ \A c \in Candidates : candidate[c].status \in {None, "pending", "approved", "rejected"}
    /\ \A r \in Reviews : ruling[r].step \in {"idle", "storing", "marking", "done", "refused"}
    /\ sources \subseteq Reviews /\ stored \subseteq Reviews

Init ==
    /\ candidate = [c \in Candidates |-> Absent]
    /\ ruling = [r \in Reviews |-> Unasked]
    /\ sources = {} /\ stored = {}

NewIntakeCandidate == [status |-> "pending", source |-> None, content |-> FALSE]
NewImportIntakeCandidate == [NewIntakeCandidate EXCEPT !.content = TRUE]

CreateIntakeCandidate(c) ==
    c \notin Imports /\ candidate' = [candidate EXCEPT ![c] = NewIntakeCandidate]
CreateImportIntakeCandidate(c) ==
    c \in Imports /\ candidate' = [candidate EXCEPT ![c] = NewImportIntakeCandidate]
createSourceIntake(c) ==
    /\ candidate[c].status = None
    /\ CreateIntakeCandidate(c) \/ CreateImportIntakeCandidate(c)
    /\ UNCHANGED <<ruling, sources, stored>>

\* Review: of what was read, which was pending.
Review(c) == candidate[c].status = "pending"
AskReview(c, decision) ==
    [step |-> IF decision = "approved" /\ candidate[c].content THEN "storing" ELSE "marking",
     of |-> c, decision |-> decision]
reviewSourceIntake(r, c, decision) ==
    /\ ruling[r].step = "idle" /\ Review(c)
    /\ ruling' = [ruling EXCEPT ![r] = AskReview(c, decision)]
    /\ UNCHANGED <<candidate, sources, stored>>

\* The bytes of an import, which may fail to be stored.
captureBytes(r) ==
    /\ ruling[r].step = "storing"
    /\ \/ stored' = stored \cup {r} /\ ruling' = [ruling EXCEPT ![r].step = "marking"]
       \/ UNCHANGED stored /\ ruling' = [ruling EXCEPT ![r].step = "refused"]
    /\ UNCHANGED <<candidate, sources>>

\* Mutant: the mark does not ask whether another was faster.
MarkAgain(c) == candidate[c].status # None

MarkReviewed(c) == candidate[c].status = "pending"
Reviewed(r, approved) ==
    [status |-> ruling[r].decision, source |-> IF approved THEN r ELSE None, content |-> FALSE]
ReviewIntakeCandidate(r) ==
    LET c == ruling[r].of  approved == ruling[r].decision = "approved"
    IN /\ ruling[r].step = "marking" /\ MarkReviewed(c)
       /\ candidate' = [candidate EXCEPT ![c] = Reviewed(r, approved)]
       /\ sources' = IF approved THEN sources \cup {r} ELSE sources
       /\ ruling' = [ruling EXCEPT ![r].step = "done"]
       /\ UNCHANGED stored

\* The mark finds it reviewed, or anything else fails: nothing of it stays.
RollBack(r) ==
    /\ ruling[r].step = "marking"
    /\ ruling' = [ruling EXCEPT ![r].step = "refused"]
    /\ UNCHANGED <<candidate, sources, stored>>

Next ==
    \/ \E c \in Candidates : createSourceIntake(c)
    \/ \E r \in Reviews :
          \/ \E c \in Candidates, d \in {"approved", "rejected"} : reviewSourceIntake(r, c, d)
          \/ captureBytes(r) \/ ReviewIntakeCandidate(r) \/ RollBack(r)

Spec == Init /\ [][Next]_vars

-----------------------------------------------------------------------------
\* However many review a candidate at once, one source is made of it if it is
\* approved and none if it is not; a source of an import has its bytes, and
\* the candidate no longer holds them.
OneSourceEach ==
    /\ \A r \in sources : candidate[ruling[r].of].source = r
    /\ \A c \in Candidates :
          LET row == candidate[c]
          IN /\ row.status = "approved" <=> row.source \in sources
             /\ row.content <=> (row.status = "pending" /\ c \in Imports)
             /\ row.status = "approved" /\ c \in Imports => row.source \in stored
=============================================================================
