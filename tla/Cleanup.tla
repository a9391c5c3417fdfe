------------------------------- MODULE Cleanup -------------------------------
(***************************************************************************)
(* The reviews of a cleanup, in one workspace: a person selects contents   *)
(* that nothing names any more and saves the selection, a sweep of that    *)
(* selection completes the review, and another person may discard it.  A   *)
(* save, a discard and a sweep each read the review and write it in a      *)
(* later transaction; a save writes whatever has become of it.  What the   *)
(* sweeps do to the bytes is Retention's; here an item is one step.        *)
(***************************************************************************)
EXTENDS Naturals, FiniteSets, Sequences

CONSTANTS
    Contents,
    Reviews,      \* identifiers not used yet
    People,       \* each saves or discards once
    Sweeps,
    Readers,      \* each reads one page of the status
    Limit         \* items of a page, and of the last outcomes it looks up

VARIABLES
    here, elsewhere,  \* contents something live names, in the workspace and out of it
    disk,
    review,           \* review[r]: the row and its items
    request,          \* request[p]: what a person has read
    sweep,            \* sweep[w]: its row, and what its process has before it
    items,            \* the recorded outcomes, in the order of recording
    page,             \* page[d]: what a reader of the status has so far
    rewritten         \* saves that wrote over a review they had not read as it was (history)

contents == <<here, elsewhere, disk>>
vars == <<contents, review, request, sweep, items, page, rewritten>>

Unmade == [status |-> "none", refs |-> {}, sweep |-> "none"]
Idle == [step |-> "idle"]
Done == [step |-> "done"]
Unswept == [status |-> "none", review |-> "none", step |-> "idle", refs |-> {}, left |-> {}]
States == {"protected", "eligible", "missing", "swept", "already_gone"}

TypeOK ==
    /\ here \in SUBSET Contents /\ elsewhere \in SUBSET Contents /\ disk \in SUBSET Contents
    /\ review \in [Reviews -> [status : {"none", "open", "completed", "discarded"},
                               refs : SUBSET Contents, sweep : Sweeps \cup {"none"}]]
    /\ \A w \in Sweeps :
          /\ sweep[w].status \in {"none", "running", "interrupted", "completed", "failed"}
          /\ sweep[w].refs \in SUBSET Contents /\ sweep[w].left \in SUBSET Contents
          /\ sweep[w].review \in Reviews \cup {"none"}
    /\ items \in Seq([sweep : Sweeps, ref : Contents, outcome : {"deleted", "already_gone"}])
    /\ rewritten \in SUBSET Reviews

Init ==
    /\ here = {} /\ elsewhere \in SUBSET Contents /\ disk = Contents
    /\ review = [r \in Reviews |-> Unmade]
    /\ request = [p \in People |-> Idle]
    /\ sweep = [w \in Sweeps |-> Unswept]
    /\ items = <<>> /\ page = [d \in Readers |-> Idle] /\ rewritten = {}

\* A capture, an extraction, an artifact or a revision names a content again;
\* its bytes are put before it is.
Cite(c) ==
    /\ c \notin here /\ here' = here \cup {c} /\ disk' = disk \cup {c}
    /\ UNCHANGED <<elsewhere, review, request, sweep, items, page, rewritten>>

-----------------------------------------------------------------------------
(* What may be removed.                                                    *)

\* The statement asks every family of references, of every workspace.
Inventory == Contents \ (here \cup elsewhere)
\* The directory says whether there is anything left.
inventoryCandidates == {c \in Inventory : c \in disk}

normalizeSelectedRefs(refs) == refs # {}
filterInventory(inventory, selected) == selected \subseteq inventory
sameRefs(refs, selected) == refs = selected

-----------------------------------------------------------------------------
(* Reviews.                                                                *)

Open == {r \in Reviews : review[r].status = "open"}
ReadReview(r) == review[r]
loadReviewItems(r) == review[r].refs

\* Some are selected, and all of them are in the inventory.
MaySave(selected) ==
    normalizeSelectedRefs(selected) /\ filterInventory(inventoryCandidates, selected)
MayDiscard(r) == ReadReview(r).status = "open"

Moves(p, next) ==
    /\ request' = [request EXCEPT ![p] = next]
    /\ UNCHANGED <<contents, sweep, items, page>>

\* The selection is looked for in the inventory, and then the open review is.
saveRetentionCleanupReview(p, selected) ==
    /\ request[p] = Idle /\ MaySave(selected)
    /\ Moves(p, [step |-> "eligible", refs |-> selected])
    /\ UNCHANGED <<review, rewritten>>

OpenReview(p) ==
    /\ request[p].step = "eligible"
    /\ Moves(p, [step |-> "saving", refs |-> request[p].refs, open |-> Open])
    /\ UNCHANGED <<review, rewritten>>

\* An open review, whatever it has been; one of the workspace is open.
Reopened(r, refs) == [review EXCEPT ![r] = [status |-> "open", refs |-> refs, sweep |-> "none"]]
OneOpen(rows) ==
    \A r, q \in Reviews : rows[r].status = "open" /\ rows[q].status = "open" => r = q

SaveReview(p, r) ==
    /\ request[p].step = "saving"
    /\ IF request[p].open = {} THEN review[r] = Unmade ELSE r \in request[p].open
    /\ OneOpen(Reopened(r, request[p].refs))
    /\ review' = Reopened(r, request[p].refs)
    /\ rewritten' = IF review[r].status \in {"completed", "discarded"}
                       \/ (review[r].status = "open" /\ \E w \in Sweeps :
                               sweep[w].review = r /\ sweep[w].step # "gone")
                    THEN rewritten \cup {r} ELSE rewritten
    /\ Moves(p, Done)

\* Mutant: the update does not ask that the review be open.
DiscardsAnyway(r) == TRUE
Discards(r) == review[r].status = "open"

discardRetentionCleanupReview(p, r) ==
    /\ request[p] = Idle /\ MayDiscard(r)
    /\ Moves(p, [step |-> "discarding", of |-> r])
    /\ UNCHANGED <<review, rewritten>>

DiscardReview(p) ==
    LET r == request[p].of
    IN /\ request[p].step = "discarding" /\ Discards(r)
       /\ review' = [review EXCEPT ![r].status = "discarded"]
       /\ Moves(p, Done) /\ UNCHANGED rewritten

\* No longer eligible, no longer open, or another is open meanwhile.
Refused(p) ==
    /\ request[p] \notin {Idle, Done} /\ Moves(p, Done)
    /\ UNCHANGED <<review, rewritten>>

-----------------------------------------------------------------------------
(* Sweeps.                                                                 *)

Sweeping == UNCHANGED <<here, elsewhere, request, page, rewritten>>

\* Of a review that is open with just that selection, or of no review.
sweepRetentionCleanup(w, selected, r) ==
    /\ sweep[w].step = "idle"
    /\ r # "none" => ReadReview(r).status = "open" /\ sameRefs(loadReviewItems(r), selected)
    /\ sweep' = [sweep EXCEPT ![w] =
          [Unswept EXCEPT !.review = r, !.step = "read", !.refs = selected]]
    /\ Sweeping /\ UNCHANGED <<disk, review, items>>

StartSweep(w) ==
    /\ sweep[w].step = "read"
    /\ sweep' = [v \in Sweeps |->
          IF v = w THEN [sweep[w] EXCEPT !.status = "running", !.step = "inventory"]
          ELSE IF sweep[v].status = "running" THEN [sweep[v] EXCEPT !.status = "interrupted"]
          ELSE sweep[v]]
    /\ Sweeping /\ UNCHANGED <<disk, review, items>>

\* Without a selection, all there is.
Sweep(w) ==
    /\ sweep[w].step = "inventory" /\ filterInventory(inventoryCandidates, sweep[w].refs)
    /\ LET chosen == IF sweep[w].refs = {} THEN inventoryCandidates ELSE sweep[w].refs
       IN  sweep' = [sweep EXCEPT ![w].step = "items", ![w].refs = chosen, ![w].left = chosen]
    /\ Sweeping /\ UNCHANGED <<disk, review, items>>

RecordSweepItem(w, c) ==
    /\ sweep[w].step = "items" /\ c \in sweep[w].left
    /\ disk' = disk \ {c}
    /\ items' = Append(items, [sweep |-> w, ref |-> c,
                               outcome |-> IF c \in disk THEN "deleted" ELSE "already_gone"])
    /\ sweep' = [sweep EXCEPT ![w].left = @ \ {c}]
    /\ Sweeping /\ UNCHANGED review

\* The row, also one that a later sweep interrupted, and the review if it is open.
FinishSweep(w) ==
    LET r == sweep[w].review
    IN /\ sweep[w].step = "items" /\ sweep[w].left = {}
       /\ sweep' = [sweep EXCEPT ![w].status = "completed", ![w].step = "gone"]
       /\ review' = IF r \in Open
                    THEN [review EXCEPT ![r].status = "completed", ![r].sweep = w] ELSE review
       /\ Sweeping /\ UNCHANGED <<disk, items>>

\* A statement fails or the bytes cannot be read; or the process ends.
FailSweep(w) ==
    /\ sweep[w].step \in {"read", "inventory", "items"}
    /\ \E status \in {sweep[w].status, IF sweep[w].status = "running" THEN "failed"
                                       ELSE sweep[w].status} :
          sweep' = [sweep EXCEPT ![w].status = status, ![w].step = "gone"]
    /\ Sweeping /\ UNCHANGED <<disk, review, items>>

-----------------------------------------------------------------------------
(* The page of the status: the references, then the last outcomes, and then *)
(* the bytes of each.                                                       *)

\* The references of the workspace: what lives elsewhere is not counted.
References == [c \in Contents |-> [live |-> c \in here]]

\* The newest outcome of each content, of those the newest.
Newest(n) == items[n].ref \notin {items[m].ref : m \in n + 1 .. Len(items)}
LastSweepItems ==
    {items[n] : n \in {k \in DOMAIN items :
        Newest(k) /\ Cardinality({m \in k .. Len(items) : Newest(m)}) <= Limit}}

\* Outcomes of c among those that were looked up.
referenceState(reference, last, there) ==
    IF reference.live THEN "protected"
    ELSE IF there THEN "eligible"
    ELSE IF \E i \in last : i.outcome = "deleted" THEN "swept"
    ELSE IF last # {} THEN "already_gone" ELSE "missing"

Reads(d, next) ==
    /\ page' = [page EXCEPT ![d] = next]
    /\ UNCHANGED <<contents, review, request, sweep, items, rewritten>>

listRetentionCleanupStatus(d) ==
    page[d] = Idle /\ Reads(d, [step |-> "references", references |-> References])
LookUp(d) ==
    /\ page[d].step = "references"
    /\ Reads(d, [step |-> "outcomes", references |-> page[d].references, last |-> LastSweepItems])
Status(d) ==
    /\ page[d].step = "outcomes"
    /\ Reads(d, [step |-> "done", told |->
          [c \in Contents |-> referenceState(page[d].references[c],
                                             {i \in page[d].last : i.ref = c}, c \in disk)]])

-----------------------------------------------------------------------------
Next ==
    \/ \E c \in Contents : Cite(c)
    \/ \E p \in People :
          \/ \E selected \in SUBSET Contents : saveRetentionCleanupReview(p, selected)
          \/ OpenReview(p) \/ DiscardReview(p) \/ Refused(p)
          \/ \E r \in Reviews : SaveReview(p, r) \/ discardRetentionCleanupReview(p, r)
    \/ \E w \in Sweeps :
          \/ \E selected \in SUBSET Contents, r \in Reviews \cup {"none"} :
                sweepRetentionCleanup(w, selected, r)
          \/ StartSweep(w) \/ Sweep(w) \/ FinishSweep(w) \/ FailSweep(w)
          \/ \E c \in Contents : RecordSweepItem(w, c)
    \/ \E d \in Readers : listRetentionCleanupStatus(d) \/ LookUp(d) \/ Status(d)

Spec == Init /\ [][Next]_vars

-----------------------------------------------------------------------------
\* A completed review names the sweep that completed it, a sweep of that very
\* review, and its items are what the sweep was of, each with its outcome,
\* unless somebody saved the review while it was being swept.
CompletedIsSwept ==
    \A r \in Reviews : review[r].status = "completed" =>
        LET w == review[r].sweep
        IN /\ sweep[w].review = r /\ sweep[w].status = "completed"
           /\ \A c \in sweep[w].refs : \E n \in DOMAIN items :
                  items[n].sweep = w /\ items[n].ref = c
           /\ r \in rewritten \/ review[r].refs = sweep[w].refs

\* What a person is told of a content is no more than was so: that it was
\* swept only when a sweep has removed it, and that it is gone only when one
\* has looked.
StatusIsTrue ==
    \A d \in Readers : page[d].step = "done" =>
        \A c \in Contents : LET of == {items[n].outcome : n \in {m \in DOMAIN items : items[m].ref = c}}
                            IN /\ page[d].told[c] = "swept" => "deleted" \in of
                               /\ page[d].told[c] = "already_gone" => "already_gone" \in of

\* The comment of Reference: what is told eligible, no live reference of any
\* workspace names.
EligibleAnywhere ==
    \A d \in Readers : page[d].step = "done" =>
        \A c \in elsewhere : page[d].told[c] # "eligible"

\* A review that is done stays as it is, but for a save that had read it open.
DoneStays ==
    \A r \in Reviews : review[r].status \in {"completed", "discarded"} =>
        review'[r] = review[r] \/ r \in rewritten'
ReviewsStay == [][DoneStays]_vars
=============================================================================
