----------------------------- MODULE Assistance -----------------------------
(***************************************************************************)
(* Bounded assistance: a request reads the evidence it selected, asks the  *)
(* policy of the workspace whether an external provider may have it, hands *)
(* it over, and keeps the answer - a synthesis, a comparison, suggested    *)
(* questions, a draft of the brief, a review of a connection - beside the  *)
(* run of the provider.  Passages extracted from a capture become          *)
(* proposals, which a researcher accepts or rejects.                       *)
(*                                                                         *)
(* Between the reading, the policy, the provider and the transaction that  *)
(* keeps the answer everything else may happen.  What an answer says is    *)
(* left out: what it cites, and what a passage quotes, are kept.  Lengths, *)
(* sizes, durations, names of methods and the events are left out too.     *)
(***************************************************************************)
EXTENDS Naturals, Sequences, FiniteSets

CONSTANTS
    Requests,      \* at a time, each somebody's
    Seat,          \* Seat[p]: "write", "read" or "admin", as the workspace has them
    Observations,
    Quotes,        \* passages somebody may quote
    InCapture,     \* those that are in the capture, word for word
    MaxResults, MaxAttempts, MaxOperations, MaxReviews, MaxEdits

VARIABLES
    external,      \* the server runs with the binary of an external provider
    allow,         \* the policy of the workspace
    retained,      \* the bytes of the capture are there
    restricted,    \* observations of a restricted source
    connection,    \* the observations an authored connection cites
    results,       \* kept, in the order they were
    runs,          \* of providers
    operations, proposals, reviews,
    attempts,      \* answers of providers, kept or not (history)
    edits,         \* of what the requests read (bound)
    job            \* job[p]: the request p is in

vars == <<external, allow, retained, restricted, connection, results, runs,
          operations, proposals, reviews, attempts, edits, job>>
read == <<external, allow, retained, restricted, connection, edits>>
passages == <<operations, proposals, reviews>>

Kinds == {"synthesis", "comparison", "question_suggestions", "brief_draft", "connection_review"}
Idle == [step |-> "idle"]

OperationStatuses == {"completed", "empty", "partial", "failed", "unsupported"}
ResultStatuses == {"completed", "empty", "failed", "unsupported", "timed_out"}

TypeOK ==
    /\ external \in BOOLEAN /\ allow \in BOOLEAN /\ retained \in BOOLEAN
    /\ restricted \subseteq Observations /\ connection \subseteq Observations
    /\ \A i \in DOMAIN results : results[i].kind \in Kinds /\ results[i].status \in ResultStatuses
    /\ \A i \in DOMAIN operations : operations[i].status \in OperationStatuses /\ operations[i].retry \in 0 .. i - 1
    /\ \A i \in DOMAIN proposals : proposals[i].state \in {"proposed", "accepted", "rejected"}
    /\ \A p \in Requests : job[p].step \in {"idle", "asked", "capture", "calling", "answered", "review"}

\* No policy row is there, which denies.
DefaultProviderPolicy == FALSE

Init ==
    /\ external \in BOOLEAN
    /\ allow = DefaultProviderPolicy
    /\ retained = TRUE /\ restricted = {} /\ connection = Observations
    /\ results = <<>> /\ runs = <<>>
    /\ operations = <<>> /\ proposals = <<>> /\ reviews = <<>>
    /\ attempts = 0 /\ edits = 0
    /\ job = [p \in Requests |-> Idle]

onWorkspace(p) == Seat[p] \in {"write", "admin"}

-----------------------------------------------------------------------------
(* What the providers answer.  A local one reads what it is given; an      *)
(* external process is a program of somebody else's.                       *)

Said(status, cites) == [status |-> status, cites |-> cites, drafts |-> <<>>]
Drafted(d) == [status |-> "completed", cites |-> {}, drafts |-> d]
Failures == {Said(s, {}) : s \in {"failed", "unsupported", "timed_out"}}

\* One finding for every pair without a saved decision, others for the words
\* of one of them only: what is compared is cited, or nothing is.
LocalCompare(given) == {Said("completed", given), Said("empty", {})}
LocalSynthesize(given) == {Said("completed", c) : c \in SUBSET given}
LocalSuggestQuestions(given) == {Said("completed", given)}
LocalDraftBrief(given) == {Said("completed", given)}
LocalReviewConnection(given) == {Said("completed", given)}
\* Sentences of the capture, unchanged.
LocalExtract == {Drafted(<<>>)} \cup {Drafted(<<[quote |-> q, valid |-> TRUE]>>) : q \in InCapture}

\* A synthesis that cites an observation it was not given is a failure here.
ProcessSynthesize(given) == Failures \cup {Said("completed", c) : c \in SUBSET given}
\* The others parse the answer as it stands, its status included.
ProcessAnswers == Failures \cup {Said("completed", c) : c \in SUBSET Observations} \cup {Said("empty", {}), Said("claimed", {})}
ProcessCompare(given) == ProcessAnswers
ProcessSuggestQuestions(given) == ProcessAnswers
ProcessDraftBrief(given) == ProcessAnswers
ProcessReviewConnection(given) == ProcessAnswers
\* Any passages; one of them may have no statement, or no quote.
ProcessExtract ==
    Failures \cup {Drafted(<<>>)} \cup {Drafted(<<[quote |-> q, valid |-> v]>>) : q \in Quotes, v \in BOOLEAN}

Answers(kind, given) ==
    CASE kind = "synthesis" -> IF external THEN ProcessSynthesize(given) ELSE LocalSynthesize(given)
      [] kind = "comparison" -> IF external THEN ProcessCompare(given) ELSE LocalCompare(given)
      [] kind = "question_suggestions" -> IF external THEN ProcessSuggestQuestions(given) ELSE LocalSuggestQuestions(given)
      [] kind = "brief_draft" -> IF external THEN ProcessDraftBrief(given) ELSE LocalDraftBrief(given)
      [] kind = "connection_review" -> IF external THEN ProcessReviewConnection(given) ELSE LocalReviewConnection(given)
      [] kind = "extraction" -> IF external THEN ProcessExtract ELSE LocalExtract

-----------------------------------------------------------------------------
(* What the domain takes of an answer: a status of its own words, and      *)
(* citations of the evidence that was selected.                            *)

NewSynthesisResult(a, given) == a.cites \subseteq given
UncheckedComparisonResult(a, given) == a.status # "claimed"
NewComparisonResult(a, given) == a.status # "claimed" /\ a.cites \subseteq given
NewConnectionReviewResult(a, given) == a.status # "claimed" /\ a.cites \subseteq given
NewQuestionSuggestionsResult(a, given) == a.status # "claimed" /\ a.cites \subseteq given
NewBriefDraftResult(a, given) ==
    a.status # "claimed" /\ a.cites \subseteq given /\ (a.status = "completed" => a.cites # {})

Valid(kind, a, given) ==
    \/ kind = "synthesis" /\ NewSynthesisResult(a, given)
    \/ kind = "comparison" /\ NewComparisonResult(a, given)
    \/ kind = "connection_review" /\ NewConnectionReviewResult(a, given)
    \/ kind = "question_suggestions" /\ NewQuestionSuggestionsResult(a, given)
    \/ kind = "brief_draft" /\ NewBriefDraftResult(a, given)

-----------------------------------------------------------------------------
(* A request for anything but passages.                                    *)

\* Requests under way (for the bounds).
InHand(kinds) == Cardinality({p \in Requests : job[p].step \notin {"idle", "review"} /\ job[p].kind \in kinds})

Begin(p, kind, given) ==
    /\ onWorkspace(p) /\ job[p] = Idle
    /\ given # {}
    /\ Len(results) + InHand(Kinds) < MaxResults /\ attempts < MaxAttempts
    /\ job' = [job EXCEPT ![p] = [step |-> "asked", kind |-> kind, given |-> given, retry |-> 0]]
    /\ UNCHANGED <<read, results, runs, passages, attempts>>

\* The handlers load the evidence, whatever its sensitivity, and then ask.
createEvidenceSynthesis(p, given) == Begin(p, "synthesis", given)
createEvidenceComparison(p, given) == Begin(p, "comparison", given)
createEvidenceQuestionSuggestions(p, given) == Begin(p, "question_suggestions", given)
createBriefDraft(p, given) == Begin(p, "brief_draft", given)
createResearchConnectionReview(p) == Begin(p, "connection_review", connection)

CreateProviderRun(kind, result, status) ==
    runs' = Append(runs, [kind |-> kind, result |-> result, status |-> status])

\* A review of the connection as it is by now.
PersistCurrent(p, status, cites) ==
    LET j == job[p] IN
    /\ results' = Append(results, [kind |-> j.kind, heard |-> j.given, cites |-> cites, status |-> status,
                                   given |-> IF j.kind = "connection_review" THEN connection ELSE j.given])
    /\ CreateProviderRun(j.kind, Len(results'), status)
    /\ job' = [job EXCEPT ![p] = Idle]

\* persist: the result and the run, in one transaction.
Persist(p, status, cites) ==
    LET j == job[p] IN
    /\ results' = Append(results, [kind |-> j.kind, given |-> j.given, heard |-> j.given,
                                   cites |-> cites, status |-> status])
    /\ CreateProviderRun(j.kind, Len(results'), status)
    /\ job' = [job EXCEPT ![p] = Idle]

\* Current: the policy counts for an external provider only.
Allowed == external => allow

ReadPolicy(p) ==
    /\ job[p].step = "asked" /\ job[p].kind \in Kinds
    /\ \/ /\ Allowed
          /\ job' = [job EXCEPT ![p].step = "calling"]
          /\ UNCHANGED <<results, runs>>
       \/ ~Allowed /\ Persist(p, "unsupported", {})
    /\ UNCHANGED <<read, passages, attempts>>

\* The provider answers what it was given.
Answer(p) ==
    /\ job[p].step = "calling"
    /\ \E a \in Answers(job[p].kind, job[p].given) :
          job' = [job EXCEPT ![p] = [answer |-> a, step |-> "answered", kind |-> job[p].kind,
                                     given |-> job[p].given, retry |-> job[p].retry]]
    /\ attempts' = attempts + 1
    /\ UNCHANGED <<read, results, runs, passages>>

\* A failure is kept as one; an answer the domain refuses is not kept at all.
Keep(p) ==
    LET j == job[p] IN
    /\ j.step = "answered" /\ j.kind \in Kinds
    /\ \/ Valid(j.kind, j.answer, j.given) /\ Persist(p, j.answer.status, j.answer.cites)
       \/ /\ ~Valid(j.kind, j.answer, j.given)
          /\ job' = [job EXCEPT ![p] = Idle]
          /\ UNCHANGED <<results, runs>>
    /\ UNCHANGED <<read, passages, attempts>>

-----------------------------------------------------------------------------
(* Passages.                                                               *)

Ask(p, retry) ==
    /\ onWorkspace(p) /\ job[p] = Idle
    /\ Len(operations) + InHand({"extraction"}) < MaxOperations /\ attempts < MaxAttempts
    /\ job' = [job EXCEPT ![p] = [step |-> "asked", kind |-> "extraction", given |-> {}, retry |-> retry]]
    /\ UNCHANGED <<read, results, runs, passages, attempts>>

generateAssistance(p) == Ask(p, 0)

\* Retry: of an operation that left something to be done.
Retry(p, o) ==
    /\ o \in DOMAIN operations
    /\ operations[o].status \in {"empty", "failed", "unsupported", "partial"}
    /\ Ask(p, o)

CreateOperation(p, status) ==
    /\ operations' = Append(operations, [status |-> status, retry |-> job[p].retry])
    /\ CreateProviderRun("extraction", Len(operations'), status)
    /\ job' = [job EXCEPT ![p] = Idle]

\* persistTerminal: an operation without a proposal.
PersistTerminal(p, status) == CreateOperation(p, status) /\ UNCHANGED <<proposals, reviews>>

\* generate, up to the provider.
ReadExtractionPolicy(p) ==
    /\ job[p].step = "asked" /\ job[p].kind = "extraction"
    /\ \/ /\ Allowed
          /\ job' = [job EXCEPT ![p].step = "capture"]
          /\ UNCHANGED <<runs, passages>>
       \/ ~Allowed /\ PersistTerminal(p, "unsupported")
    /\ UNCHANGED <<read, results, attempts>>

\* Retained: the capture, with its bytes, or an error that keeps nothing.
ReadCapture(p) ==
    /\ job[p].step = "capture"
    /\ job' = [job EXCEPT ![p] = IF retained THEN [@ EXCEPT !.step = "calling"] ELSE Idle]
    /\ UNCHANGED <<read, results, runs, passages, attempts>>

\* A capture that is not text, or has no text extracted, is refused, and that kept.
RefuseCapture(p) ==
    /\ job[p].step = "capture" /\ PersistTerminal(p, "unsupported")
    /\ UNCHANGED <<read, results, attempts>>

NewProposal(o, d) == [op |-> o, quote |-> d.quote, state |-> "proposed", says |-> d.quote]

OperationStatus(drafts) ==
    IF drafts = <<>> THEN "empty" ELSE IF \A i \in DOMAIN drafts : drafts[i].valid THEN "completed" ELSE "partial"

\* The drafts that are valid, in their order: nth is the place of the nth.
Usable(drafts) == {i \in DOMAIN drafts : drafts[i].valid}
nth(places, n) == CHOOSE i \in places : Cardinality({j \in places : j <= i}) = n
CreateProposals(drafts) ==
    LET places == Usable(drafts) IN
    proposals' = proposals \o [n \in 1 .. Cardinality(places) |->
                                 NewProposal(Len(operations) + 1, drafts[nth(places, n)])]

KeepOperation(p) ==
    LET a == job[p].answer IN
    /\ job[p].step = "answered" /\ job[p].kind = "extraction"
    /\ \/ a \in Failures /\ PersistTerminal(p, IF a.status = "unsupported" THEN "unsupported" ELSE "failed")
       \/ /\ a \notin Failures
          /\ CreateOperation(p, OperationStatus(a.drafts))
          /\ CreateProposals(a.drafts)
          /\ UNCHANGED reviews
    /\ UNCHANGED <<read, results, attempts>>

\* Review: the quote the reviewer gives, or the generated one, is in the
\* capture word for word.
ExactCitation(quote) == quote \in InCapture

Reviewed(proposal, decision, quote) ==
    IF decision = "reject" THEN [proposal EXCEPT !.state = "rejected"]
    ELSE [proposal EXCEPT !.state = "accepted", !.says = quote]

AskReview(p, i, decision, quote) ==
    /\ onWorkspace(p) /\ job[p] = Idle
    /\ i \in DOMAIN proposals /\ proposals[i].state = "proposed"
    /\ retained
    /\ decision = "accept" => ExactCitation(quote)
    /\ Len(reviews) + Cardinality({q \in Requests : job[q].step = "review"}) < MaxReviews
    /\ job' = [job EXCEPT ![p] = [step |-> "review", proposal |-> i, decision |-> decision,
                                  row |-> Reviewed(proposals[i], decision, quote)]]
    /\ UNCHANGED <<read, results, runs, passages, attempts>>

\* A decision that was taken stands.
SaveFirst(i, row) == proposals' = [proposals EXCEPT ![i] = IF @.state = "proposed" THEN row ELSE @]
\* Whatever the proposal is by now.
SaveProposal(i, row) == proposals' = [proposals EXCEPT ![i] = row]

CreateReview(i, decision) == reviews' = Append(reviews, [proposal |-> i, decision |-> decision])

\* The proposal and the review, in one transaction; the first of them locks
\* the row, so that reviews of one proposal are written one after another.
reviewAssistanceProposal(p) ==
    /\ job[p].step = "review"
    /\ SaveProposal(job[p].proposal, job[p].row)
    /\ CreateReview(job[p].proposal, job[p].decision)
    /\ job' = [job EXCEPT ![p] = Idle]
    /\ UNCHANGED <<read, results, runs, operations, attempts>>

-----------------------------------------------------------------------------
(* Meanwhile.                                                              *)

Edit == edits < MaxEdits /\ edits' = edits + 1

\* The policy, by an admin of the organisation.
updateAssistancePolicy(p, to) ==
    /\ Seat[p] = "admin" /\ allow # to
    /\ Edit /\ allow' = to
    /\ UNCHANGED <<external, retained, restricted, connection, results, runs, passages, attempts, job>>

\* The source of an observation is restricted, or no longer.
setSourcePrivacy(o) ==
    /\ Edit
    /\ restricted' = IF o \in restricted THEN restricted \ {o} ELSE restricted \cup {o}
    /\ UNCHANGED <<external, allow, retained, connection, results, runs, passages, attempts, job>>

\* The authored connection is edited; it keeps an observation.
editResearchConnection(to) ==
    /\ to # {} /\ to # connection
    /\ Edit /\ connection' = to
    /\ UNCHANGED <<external, allow, retained, restricted, results, runs, passages, attempts, job>>

purgeSource ==
    /\ retained
    /\ Edit /\ retained' = FALSE
    /\ UNCHANGED <<external, allow, restricted, connection, results, runs, passages, attempts, job>>

-----------------------------------------------------------------------------
(* Reading: what somebody without the restricted sources is shown.         *)

Clear(cited) == cited \cap restricted = {}
SynthesisByIDVisible(r) == Clear(r.given)
ComparisonByIDVisible(r) == Clear(r.given)
QuestionSuggestionsByIDVisible(r) == Clear(r.given) /\ Clear(r.cites)
BriefDraftByIDVisible(r) == Clear(r.given) /\ Clear(r.cites)
\* Judged by the connection, as it is.
readResearchConnectionReview(r) == Clear(connection)

Shown(r) ==
    \/ r.kind = "synthesis" /\ SynthesisByIDVisible(r)
    \/ r.kind = "comparison" /\ ComparisonByIDVisible(r)
    \/ r.kind = "question_suggestions" /\ QuestionSuggestionsByIDVisible(r)
    \/ r.kind = "brief_draft" /\ BriefDraftByIDVisible(r)
    \/ r.kind = "connection_review" /\ readResearchConnectionReview(r)

Requested(p) ==
    \/ \E g \in SUBSET Observations :
          \/ createEvidenceSynthesis(p, g) \/ createEvidenceComparison(p, g)
          \/ createEvidenceQuestionSuggestions(p, g) \/ createBriefDraft(p, g)
    \/ createResearchConnectionReview(p)
    \/ ReadPolicy(p) \/ Answer(p) \/ Keep(p)

Extracted(p) ==
    \/ generateAssistance(p) \/ \E o \in DOMAIN operations : Retry(p, o)
    \/ ReadExtractionPolicy(p) \/ ReadCapture(p) \/ RefuseCapture(p) \/ KeepOperation(p)
    \/ \E i \in DOMAIN proposals, d \in {"accept", "reject"}, q \in Quotes : AskReview(p, i, d, q)
    \/ reviewAssistanceProposal(p)

Next ==
    \/ \E p \in Requests : Requested(p) \/ Extracted(p) \/ \E to \in BOOLEAN : updateAssistancePolicy(p, to)
    \/ \E o \in Observations : setSourcePrivacy(o)
    \/ \E to \in SUBSET Observations : editResearchConnection(to)
    \/ purgeSource

Spec == Init /\ [][Next]_vars

-----------------------------------------------------------------------------
\* Visibility is judged on the evidence that was selected, citations come
\* from the provider: what is shown to somebody without the restricted
\* sources cites none of them, whatever the provider answered and whenever a
\* source was restricted.  Reviews of a connection are judged by the
\* connection, which may have been edited since.
ShownIsGrounded ==
    \A i \in DOMAIN results :
        Shown(results[i]) /\ results[i].kind # "connection_review" => Clear(results[i].cites)

\* Two researchers may decide one proposal: both reviews are kept, and the
\* proposal says what the last of them decided, with a passage of the capture
\* where it was accepted.
LastReviewIsTheState ==
    \A i \in DOMAIN proposals :
        LET its == {k \in DOMAIN reviews : reviews[k].proposal = i} IN
        /\ its = {} <=> proposals[i].state = "proposed"
        /\ \A k \in its : (\A m \in its : m <= k) =>
              (reviews[k].decision = "accept" <=> proposals[i].state = "accepted")
        /\ proposals[i].state = "accepted" => proposals[i].says \in InCapture

\* A result keeps the evidence the provider heard, and cites nothing else,
\* while the connection it reviews is edited.
HeardIsKept ==
    \A i \in DOMAIN results : results[i].given = results[i].heard /\ results[i].cites \subseteq results[i].heard
=============================================================================
