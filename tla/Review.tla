------------------------------- MODULE Review -------------------------------
(***************************************************************************)
(* The observations people record of what a source says, their comparison  *)
(* pair by pair, the links from an observation to the one it was taken     *)
(* from, the clusters that group them, the shares of single citations, and *)
(* what the board, the coverage and the link list make of all that.        *)
(*                                                                         *)
(* Every change is one transaction of one or two statements over the row   *)
(* it names, and is one action here.  Observations are numbered: numbers   *)
(* compare as the bytes of their identifiers do.  Rationales, titles, the  *)
(* passages quoted and pages of lists are left out.                        *)
(***************************************************************************)
EXTENDS Naturals, FiniteSets, Relation

CONSTANTS
    Observations,  \* a set of numbers
    SourceOf,      \* SourceOf[o]: the source o is an observation of
    Restricted,    \* the sources that are restricted
    Clusters, People,
    Seat,          \* Seat[p]: "write", "read" or "client"
    Cleared,       \* people who see restricted sources
    MaxLinks, MaxReads

VARIABLES
    recorded,      \* the observations there are
    relation,      \* the rows: pairs of observations with the kind given
    links,         \* the rows: <<downstream, upstream>>
    cluster,       \* cluster[c]: the observations grouped, or NoCluster
    share,         \* share[o]: of the citation o
    reading,       \* reading[p]: the citation p has opened by its share
    accesses,      \* how often an access of a citation was recorded
    shown          \* how often one was shown (history)

vars == <<recorded, relation, links, cluster, share, reading, accesses, shown>>
assessment == <<relation, links, cluster>>
sharing == <<share, reading, accesses, shown>>

Kinds == {"supports", "contradicts", "repeats", "unresolved"}
NoCluster == {}
Nothing == 0

TypeOK ==
    /\ recorded \subseteq Observations
    /\ \A r \in relation : /\ {r.left, r.right} \subseteq recorded
                           /\ r.left # r.right /\ r.kind \in Kinds
    /\ \A l \in links : {l[1], l[2]} \subseteq recorded /\ l[1] # l[2]
    /\ cluster \in [Clusters -> SUBSET recorded]
    /\ share \in [Observations -> {"none", "live", "revoked"}]
    /\ reading \in [People -> Observations \cup {Nothing}]
    /\ accesses \in 0 .. MaxReads /\ shown \in 0 .. MaxReads

Init ==
    /\ recorded = {} /\ relation = {} /\ links = {}
    /\ cluster = [c \in Clusters |-> NoCluster]
    /\ share = [o \in Observations |-> "none"]
    /\ reading = [p \in People |-> Nothing]
    /\ accesses = 0 /\ shown = 0

onWorkspace(p) == Seat[p] = "write"

-----------------------------------------------------------------------------
(* Observations and what is said of them.                                  *)

\* NewManual: of a passage of a retained capture; inserted once.
CreateManual(o) == o \notin recorded
Record(o) ==
    /\ CreateManual(o) /\ recorded' = recorded \cup {o}
    /\ UNCHANGED <<assessment, sharing>>

\* New: of two observations, in one order whatever order they were given in.
Ordered(a, b) == IF a < b THEN <<a, b>> ELSE <<b, a>>

\* On conflict the row is the new one's.
Upsert(pair, kind) ==
    relation' = {r \in relation : <<r.left, r.right>> # pair}
                   \cup {[left |-> pair[1], right |-> pair[2], kind |-> kind]}
SetRelation(a, b, kind) ==
    /\ a # b /\ {a, b} \subseteq recorded
    /\ Upsert(Ordered(a, b), kind)
    /\ UNCHANGED <<recorded, links, cluster, sharing>>
setEvidenceRelation(p, a, b, kind) == onWorkspace(p) /\ SetRelation(a, b, kind)

\* NewSourceLink: in the order given, and nothing is said of cycles.
NewSourceLink(d, u) == d # u
UpsertSourceLink(d, u) == links' = links \cup {<<d, u>>}
SetSourceLink(d, u) ==
    /\ NewSourceLink(d, u) /\ {d, u} \subseteq recorded
    /\ Cardinality(links) < MaxLinks
    /\ UpsertSourceLink(d, u)
    /\ UNCHANGED <<recorded, relation, cluster, sharing>>
setEvidenceSourceLink(p, d, u) == onWorkspace(p) /\ SetSourceLink(d, u)

\* validateClusterFields: of one observation at least.
ValidCluster(os) == os # {} /\ os \subseteq recorded
NewCluster(c, os) == cluster[c] = NoCluster /\ ValidCluster(os)
EditedCluster(c, os) == cluster[c] # NoCluster /\ ValidCluster(os)
CreateCluster(c, os) ==
    /\ NewCluster(c, os) /\ cluster' = [cluster EXCEPT ![c] = os]
    /\ UNCHANGED <<recorded, relation, links, sharing>>
UpdateCluster(c, os) ==
    /\ EditedCluster(c, os) /\ cluster' = [cluster EXCEPT ![c] = os]
    /\ UNCHANGED <<recorded, relation, links, sharing>>
createEvidenceCluster(p, c, os) == onWorkspace(p) /\ CreateCluster(c, os)
editEvidenceCluster(p, c, os) == onWorkspace(p) /\ UpdateCluster(c, os)

-----------------------------------------------------------------------------
(* The shares of a citation.                                               *)

CreateCitationShare(o) ==
    /\ o \in recorded /\ share[o] = "none"
    /\ share' = [share EXCEPT ![o] = "live"]
    /\ UNCHANGED <<recorded, assessment, reading, accesses, shown>>
createCitationShare(p, o) == onWorkspace(p) /\ CreateCitationShare(o)

RevokeCitationShare(o) ==
    /\ share[o] = "live"
    /\ share' = [share EXCEPT ![o] = "revoked"]
    /\ UNCHANGED <<recorded, assessment, reading, accesses, shown>>
revokeCitationShare(p, o) == onWorkspace(p) /\ RevokeCitationShare(o)

CitationShareByDigest(o) == share[o] = "live"
requireSourceRead(p, o) == SourceOf[o] \in Restricted => p \in Cleared

\* Anybody who may have deliverables.
readSharedCitation(p, o) ==
    /\ reading[p] = Nothing /\ accesses < MaxReads
    /\ CitationShareByDigest(o) /\ requireSourceRead(p, o)
    /\ reading' = [reading EXCEPT ![p] = o]
    /\ UNCHANGED <<recorded, assessment, share, accesses, shown>>

\* The access is recorded, and then the citation shown unless the process dies.
RecordCitationShareAccess(p) ==
    /\ reading[p] # Nothing /\ accesses < MaxReads
    /\ accesses' = accesses + 1
    /\ reading' = [reading EXCEPT ![p] = Nothing]
    /\ \E answered \in {0, 1} : shown' = shown + answered
    /\ UNCHANGED <<recorded, assessment, share>>

Next ==
    \/ \E o \in Observations : Record(o)
    \/ \E p \in People :
          \/ \E a, b \in Observations :
                \/ \E kind \in Kinds : setEvidenceRelation(p, a, b, kind)
                \/ setEvidenceSourceLink(p, a, b)
          \/ \E c \in Clusters, os \in SUBSET Observations :
                createEvidenceCluster(p, c, os) \/ editEvidenceCluster(p, c, os)
          \/ \E o \in Observations : \/ createCitationShare(p, o)
                                     \/ revokeCitationShare(p, o)
                                     \/ readSharedCitation(p, o)
          \/ RecordCitationShareAccess(p)

Spec == Init /\ [][Next]_vars

-----------------------------------------------------------------------------
(* What the lists make of it.                                              *)

\* The relations both of whose observations are in a set.
Within(os) == {r \in relation : {r.left, r.right} \subseteq os}
Of(rows, kind) == {r \in rows : r.kind = kind}

\* PageClusterCoverage: counted, and called by a name.
ClusterCoverage(c) ==
    LET os == cluster[c]
        n == Cardinality(os)
        rows == Within(os)
        possible == (n * (IF n > 0 THEN n - 1 ELSE 0)) \div 2
        reviewed == Cardinality(rows)
        sources == Cardinality({SourceOf[o] : o \in os})
    IN
    [possible |-> possible, reviewed |-> reviewed,
     unreviewed |-> IF possible > reviewed THEN possible - reviewed ELSE 0,
     touched |-> {r.left : r \in rows} \cup {r.right : r \in rows},
     status |->
        IF n = 0 THEN "no_evidence"
        ELSE IF Of(rows, "contradicts") # {} THEN "contradiction_found"
        ELSE IF Of(rows, "unresolved") # {} THEN "unresolved"
        ELSE IF n < 2 \/ sources < 2 \/ (Of(rows, "supports") = {} /\ Of(rows, "repeats") # {})
             THEN "needs_corroboration"
        ELSE IF reviewed < possible THEN "review_incomplete"
        ELSE "covered"]

\* Mutant: the walk goes from where a link leads to where it starts.
EdgesBack == links

\* PageSourceLinks: from an observation to those taken from it, and on.
Edges == {<<l[2], l[1]>> : l \in links}
Reach == {e \in recorded \X recorded : TransitiveClosure([x \in recorded \X recorded |-> x \in Edges], recorded)[e]}
CycleDetected(l) == <<l[1], l[2]>> \in Reach

-----------------------------------------------------------------------------
\* A cluster is called covered when every two of its observations have been
\* compared - whoever compared them, in whichever order and however often -
\* and the comparisons counted and not counted are all there are.
CoveredIsCompared == \A c \in Clusters :
    LET cov == ClusterCoverage(c)
        compared == {q \in cluster[c] \X cluster[c] :
                       \E r \in relation : {r.left, r.right} = {q[1], q[2]}} IN
    /\ cov.reviewed + cov.unreviewed = cov.possible
    /\ cov.status = "covered" =>
          \A a, b \in cluster[c] : a # b => <<a, b>> \in compared

\* A link is said to be in a cycle just when one can follow links from it
\* back to where it started.
CyclesAreTold == \A l \in links :
    CycleDetected(l) <=>
       \E n \in 2 .. Cardinality(recorded) :
          \E walk \in [0 .. n -> recorded] :
             /\ walk[0] = l[1] /\ walk[1] = l[2] /\ walk[n] = l[1]
             /\ \A i \in 0 .. n - 1 : <<walk[i], walk[i + 1]>> \in links

\* No citation is shown by its share without the access being on record.
ShownIsRecorded == shown <= accesses
=============================================================================
