------------------------------- MODULE Alerts --------------------------------
(***************************************************************************)
(* The inbox of gaps: open questions and records whose evidence has not    *)
(* been compared.  A refresh works the gaps out of what its caller may     *)
(* see, with no transaction open, and then in one transaction retires the  *)
(* alerts of other gaps, upserts its own and publishes each of them, which *)
(* is mailed to the caller if that is what the caller has asked for.       *)
(*                                                                         *)
(* An alert is known by its key: what it is about and the status it has.   *)
(* The pages that the gaps are read in, titles and details are left out.   *)
(***************************************************************************)
EXTENDS Naturals, FiniteSets

CONSTANTS
    Questions, Records,
    Cites,        \* Cites[t]: the observations t cites
    Shown,        \* Shown[p]: the pairs of observations p may see compared
    People,
    MaxChanges,   \* what people do, refreshes left out
    MaxRefreshes

VARIABLES
    open,         \* the questions and records there are to work on
    relation,     \* relation[pair]: what a comparison of the pair has found
                  \* (that it repeats it counts as that it supports it)
    rows,         \* rows[k]: the alert of the key: "none", "active", "retired"
    refresh,      \* refresh[p]: where a refresh is, and the gaps it has found
    outgoing,     \* the events published and not yet consumed
    wants, mailed, seen,
    changes, refreshes,
    latest,       \* the gaps of the refresh that ended last (history)
    raced         \* two of them have overlapped (history)

vars == <<open, relation, rows, refresh, outgoing, wants, mailed, seen, changes, refreshes, latest, raced>>
evidence == <<open, relation>>
inbox == <<rows, refresh, refreshes, latest, raced>>
mail == <<wants, mailed, seen>>

Targets == Questions \cup Records
Pairs == UNION {Shown[p] : p \in People}
Gaps == {"no_evidence", "not_compared", "conflicted", "partially_compared",
         "needs_corroboration", "contradiction_found", "unresolved", "review_incomplete"}
Keys == Targets \X Gaps
Wants == {"none", "questions", "all"}
Idle == [step |-> "idle"]

TypeOK ==
    /\ open \subseteq Targets
    /\ relation \in [Pairs -> {"none", "supports", "contradicts", "unresolved"}]
    /\ rows \in [Keys -> {"none", "active", "retired"}]
    /\ outgoing \subseteq Keys \X People /\ mailed \subseteq Keys \X People
    /\ seen \subseteq Keys \X People
    /\ wants \in [People -> Wants]
    /\ latest \subseteq Keys

Init ==
    /\ open = Targets /\ relation = [pair \in Pairs |-> "none"]
    /\ rows = [k \in Keys |-> "none"]
    /\ refresh = [p \in People |-> Idle]
    /\ outgoing = {} /\ wants = [p \in People |-> "none"] /\ mailed = {} /\ seen = {}
    /\ changes = 0 /\ refreshes = 0 /\ latest = {} /\ raced = FALSE

Once == changes < MaxChanges /\ changes' = changes + 1

-----------------------------------------------------------------------------
(* The gaps, from the comparisons that the reader may see.                 *)

Found(p) == {pair \in Shown[p] : relation[pair] # "none"}
Touching(t, p) == {pair \in Found(p) : pair \cap Cites[t] # {}}
Some(t, p, kind) == \E pair \in Touching(t, p) : relation[pair] = kind
Compared(t, p) == UNION Touching(t, p) \cap Cites[t]

questionGapStatus(q, p) ==
    CASE Cites[q] = {} -> "no_evidence"
      [] Cites[q] # {} /\ Compared(q, p) = {} -> "not_compared"
      [] Compared(q, p) # {} /\ Some(q, p, "contradicts") -> "conflicted"
      [] Compared(q, p) # {} /\ ~Some(q, p, "contradicts")
         /\ (Compared(q, p) # Cites[q] \/ Some(q, p, "unresolved")) -> "partially_compared"
      [] OTHER -> "reviewed"

Possible(t) == (Cardinality(Cites[t]) * (Cardinality(Cites[t]) - 1)) \div 2
Internal(t, p) == Cardinality({pair \in Touching(t, p) : pair \subseteq Cites[t]})
Incomplete(t, p) == Internal(t, p) < Possible(t)

\* The first that applies, in the order of the code.
recordGapStatus(t, p) ==
    IF Cites[t] = {} THEN "no_evidence"
    ELSE IF Some(t, p, "contradicts") THEN "contradiction_found"
    ELSE IF Cardinality(Cites[t]) < 2 THEN "needs_corroboration"
    ELSE IF Some(t, p, "unresolved") THEN "unresolved"
    ELSE IF Incomplete(t, p) THEN "review_incomplete"
    ELSE "covered"

currentDerivedGapAlerts(p) ==
    Keys \cap ({<<q, questionGapStatus(q, p)>> : q \in Questions \cap open}
               \cup {<<t, recordGapStatus(t, p)>> : t \in Records \cap open})

-----------------------------------------------------------------------------
(* The refresh.                                                            *)

refreshSourceGapAlerts(p) ==
    /\ refresh[p] = Idle /\ refreshes < MaxRefreshes
    /\ refreshes' = refreshes + 1
    /\ refresh' = [refresh EXCEPT ![p] =
          [step |-> "found", gaps |-> currentDerivedGapAlerts(p), read |-> rows]]
    /\ UNCHANGED <<evidence, changes, rows, outgoing, mail, latest, raced>>

\* Every alert of a gap but those: of the rows that this statement sees.
DeactivateDerivedGapAlerts(gaps) == {k \in Keys \ gaps : rows[k] # "none"}
SyncBegins(p) ==
    /\ refresh[p].step = "found"
    /\ refresh' = [refresh EXCEPT ![p] =
          [step |-> "retired", gaps |-> refresh[p].gaps, read |-> refresh[p].read,
           retires |-> DeactivateDerivedGapAlerts(refresh[p].gaps)]]
    /\ UNCHANGED <<evidence, changes, rows, refreshes, outgoing, mail, latest, raced>>

CreateAlert(p, k) == k \in refresh[p].gaps
emitAlert(p) == outgoing' = outgoing \cup refresh[p].gaps \X {p}

\* Each upsert waits for the rows another refresh holds: the later commit
\* has the last word on a row.
syncDerivedGapAlerts(p) ==
    /\ refresh[p].step = "retired"
    /\ rows' = [k \in Keys |-> IF CreateAlert(p, k) THEN "active"
                               ELSE IF k \in refresh[p].retires THEN "retired"
                               ELSE rows[k]]
    /\ emitAlert(p)
    /\ latest' = refresh[p].gaps
    /\ raced' = (raced \/ rows # refresh[p].read)
    /\ refresh' = [refresh EXCEPT ![p] = Idle]
    /\ UNCHANGED <<evidence, changes, mail, refreshes>>

\* It fails, or two of them wait for each other and one is undone.
RollBack(p) ==
    /\ refresh[p] # Idle
    /\ refresh' = [refresh EXCEPT ![p] = Idle]
    /\ UNCHANGED <<evidence, changes, rows, refreshes, outgoing, mail, latest, raced>>

-----------------------------------------------------------------------------
(* Its readers: what they have seen, and what they are mailed.             *)

AlertPage == {k \in Keys : rows[k] = "active"}

\* Of any alert there is, retired ones as well.
MarkAlertSeen(p, k) == rows[k] # "none" /\ seen' = seen \cup {<<k, p>>}
markSourceAlertSeen(p, k) ==
    /\ <<k, p>> \notin seen /\ MarkAlertSeen(p, k)
    /\ Once /\ UNCHANGED <<evidence, inbox, outgoing, wants, mailed>>

SaveAlertDelivery(p, want) == wants' = [wants EXCEPT ![p] = want]
saveSourceAlertDelivery(p, want) ==
    /\ wants[p] # want /\ SaveAlertDelivery(p, want)
    /\ Once /\ UNCHANGED <<evidence, inbox, outgoing, mailed, seen>>

AlertDelivery(p) == wants[p]
Allows(p, k) ==
    AlertDelivery(p) = "all" \/ (AlertDelivery(p) = "questions" /\ k[1] \in Questions)

\* Delivered at least once, with the preference of that moment.
Deliver(k, p) ==
    /\ <<k, p>> \in outgoing
    /\ mailed' = IF Allows(p, k) THEN mailed \cup {<<k, p>>} ELSE mailed
    /\ \/ outgoing' = outgoing \ {<<k, p>>}
       \/ UNCHANGED outgoing
    /\ UNCHANGED <<evidence, changes, inbox, wants, seen>>

-----------------------------------------------------------------------------
(* What the gaps are of, as Review and the briefs' questions change it.    *)

Compare(pair, kind) ==
    /\ relation[pair] # kind
    /\ relation' = [relation EXCEPT ![pair] = kind] /\ UNCHANGED open
Settle(t) == open' = (IF t \in open THEN open \ {t} ELSE open \cup {t}) /\ UNCHANGED relation
Work ==
    /\ Once
    /\ \/ \E pair \in Pairs, kind \in {"supports", "contradicts", "unresolved"} : Compare(pair, kind)
       \/ \E t \in Targets : Settle(t)
    /\ UNCHANGED <<inbox, outgoing, mail>>

Next ==
    \/ Work
    \/ \E p \in People :
          \/ refreshSourceGapAlerts(p) \/ SyncBegins(p) \/ syncDerivedGapAlerts(p) \/ RollBack(p)
          \/ \E want \in Wants : saveSourceAlertDelivery(p, want)
          \/ \E k \in Keys : markSourceAlertSeen(p, k) \/ Deliver(k, p)

Spec == Init /\ [][Next]_vars

-----------------------------------------------------------------------------
\* The inbox is what the last refresh has found, one gap of each question and
\* record, unless two refreshes overlapped: then what both inserted stands.
InboxIsTheLastRefresh == raced \/ AlertPage = latest

\* A mail is of an alert there is: nothing is published of a refresh that is
\* undone.
MailIsOfAnAlert == \A e \in mailed \cup outgoing : rows[e[1]] # "none"

\* Who sees all comparisons and is told of no gap has every pair of a record
\* compared, and every observation of a question, and none contradicted.
NoGapIsCompared ==
    \A p \in {q \in People : Shown[q] = Pairs} :
        /\ \A t \in Records : recordGapStatus(t, p) = "covered" =>
              \A a, b \in Cites[t] : a # b => relation[{a, b}] = "supports"
        /\ \A q \in Questions : questionGapStatus(q, p) = "reviewed" =>
              \A a \in Cites[q] : \E pair \in Pairs : a \in pair /\ relation[pair] = "supports"
=============================================================================
