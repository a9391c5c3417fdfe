--------------------------- MODULE KnowingProofs ---------------------------
(***************************************************************************)
(* Proofs about the parts that MCKnowing follows.  A behaviour of it is    *)
(* one of one part while the others stand still, so what is proved of a    *)
(* part by its own steps holds there as well, for whatever MCKnowing is    *)
(* given for that part.                                                    *)
(***************************************************************************)
EXTENDS MCKnowing, FiniteSetTheorems, WellFoundedInduction, TLAPS

-----------------------------------------------------------------------------
(* The findings.                                                           *)
(*                                                                         *)
(* A row is what was seen of its problem, in whatever order that was       *)
(* recorded: a pass that was not recorded is not among what was seen, and  *)
(* a ruling writes none of the columns that tell of a sighting.            *)

FindingRows == [state : F!States, ruler : Rulers \cup {F!Nobody}, reason : BOOLEAN,
                claim : F!Claims, before : F!Claims \cup {F!Unclaimed},
                first : Passes, last : Passes, cites : Passes, sightings : Nat]
FindingRow(r) ==
    /\ r \in FindingRows
    /\ r.state = "open" <=> r.ruler = F!Nobody
    /\ r.state = "dismissed" => r.reason
    /\ r.first <= r.last

RulingOf(j) ==
    /\ j.on \in Problems /\ j.decides \in BOOLEAN
    /\ row[j.on] # F!None /\ FindingRow(j.row)

FindingTypes ==
    /\ known \subseteq Problems
    /\ row = [s \in Problems |-> row[s]]
    /\ \A s \in Problems : row[s] = F!None \/ FindingRow(row[s])
    /\ detail \in [Problems -> Passes \cup {0}]
    /\ scanned \subseteq Passes
    /\ skipped \subseteq scanned \X Problems
    /\ ruling = [p \in Rulers |-> ruling[p]]
    /\ \A p \in Rulers : ruling[p] = F!Idle \/ RulingOf(ruling[p])

\* What was seen of a problem, and a row that is true of it.
SeenOf(s) == {v \in scanned : s \in Matched[v] /\ <<v, s>> \notin skipped}
TellsOf(r, seen, newest) ==
    /\ r.sightings = Cardinality(seen)
    /\ \A v \in seen : r.first <= v /\ v <= r.cites
    /\ r.first \in seen /\ r.cites \in seen
    /\ r.last = r.cites /\ newest = r.cites
RowsTellOf(s) ==
    IF row[s] = F!None THEN SeenOf(s) = {} /\ detail[s] = 0
    ELSE TellsOf(row[s], SeenOf(s), detail[s])

FindingInv == FindingTypes /\ \A s \in Problems : RowsTellOf(s)

LEMMA FindingRowsEqual ==
    ASSUME NEW r \in FindingRows, NEW q \in FindingRows,
           r.state = q.state, r.ruler = q.ruler, r.reason = q.reason, r.claim = q.claim,
           r.before = q.before, r.first = q.first, r.last = q.last, r.cites = q.cites,
           r.sightings = q.sightings
    PROVE  r = q
  BY DEF FindingRows

\* What a sighting makes of the three columns of a ruling.
Reopens(r) == IF r.state # "resolved" THEN r
              ELSE [r EXCEPT !.state = "open", !.ruler = F!Nobody, !.reason = FALSE]

LEMMA ReopenedRow ==
    ASSUME NEW r \in FindingRows
    PROVE  /\ Reopens(r) \in FindingRows
           /\ Reopens(r).state = IF r.state = "resolved" THEN "open" ELSE r.state
           /\ Reopens(r).ruler = IF r.state = "resolved" THEN F!Nobody ELSE r.ruler
           /\ Reopens(r).reason = IF r.state = "resolved" THEN FALSE ELSE r.reason
           /\ Reopens(r).claim = r.claim /\ Reopens(r).before = r.before
           /\ Reopens(r).first = r.first /\ Reopens(r).last = r.last
           /\ Reopens(r).cites = r.cites /\ Reopens(r).sightings = r.sightings
  <1> DEFINE a == [r EXCEPT !.state = "open"]
             b == [a EXCEPT !.ruler = F!Nobody]
             c == [b EXCEPT !.reason = FALSE]
  <1>1. /\ a \in FindingRows /\ a.state = "open" /\ a.claim = r.claim /\ a.before = r.before
        /\ a.first = r.first /\ a.last = r.last /\ a.cites = r.cites /\ a.sightings = r.sightings
    BY DEF FindingRows, F!States
  <1> HIDE DEF a
  <1>2. /\ b \in FindingRows /\ b.state = a.state /\ b.claim = a.claim /\ b.before = a.before
        /\ b.first = a.first /\ b.last = a.last /\ b.cites = a.cites /\ b.sightings = a.sightings
        /\ b.ruler = F!Nobody
    BY <1>1 DEF FindingRows
  <1> HIDE DEF b
  <1>3. /\ c \in FindingRows /\ c.state = b.state /\ c.claim = b.claim /\ c.before = b.before
        /\ c.first = b.first /\ c.last = b.last /\ c.cites = b.cites /\ c.sightings = b.sightings
        /\ c.ruler = b.ruler /\ c.reason = FALSE
    BY <1>2 DEF FindingRows
  <1>4. Reopens(r) = IF r.state # "resolved" THEN r ELSE c BY DEF Reopens, a, b, c
  <1> HIDE DEF c
  <1> QED BY <1>1, <1>2, <1>3, <1>4

\* What both forms of the rule make of a row.
SeenAs(new, r, v) ==
    /\ new \in FindingRows
    /\ new.state = IF r.state = "resolved" THEN "open" ELSE r.state
    /\ new.ruler = IF r.state = "resolved" THEN F!Nobody ELSE r.ruler
    /\ new.reason = IF r.state = "resolved" THEN FALSE ELSE r.reason
    /\ new.claim = r.claim /\ new.before = r.before
    /\ new.sightings = r.sightings + 1
    /\ new.last = IF v > r.last THEN v ELSE r.last
    /\ new.cites = IF v > r.last THEN v ELSE r.cites
    /\ new.first = IF v < r.first THEN v ELSE r.first

\* The statement that counts a sighting.
LEMMA SeenRow ==
    ASSUME NEW r \in FindingRows, NEW v \in Passes
    PROVE  SeenAs(F!Seen(r, v), r, v)
  <1> DEFINE a == Reopens(r)
             b == [a EXCEPT !.sightings = @ + 1]
             c == [b EXCEPT !.cites = IF v > r.last THEN v ELSE @]
             d == [c EXCEPT !.last = IF v > @ THEN v ELSE @]
             e == [d EXCEPT !.first = IF v < @ THEN v ELSE @]
  <1>1. /\ a \in FindingRows /\ a.first = r.first /\ a.last = r.last /\ a.cites = r.cites
        /\ a.claim = r.claim /\ a.before = r.before /\ a.sightings = r.sightings
    BY ReopenedRow
  <1>2. F!Seen(r, v) = e BY DEF F!Seen, Reopens, a, b, c, d, e
  <1>3. /\ a.state = IF r.state = "resolved" THEN "open" ELSE r.state
        /\ a.ruler = IF r.state = "resolved" THEN F!Nobody ELSE r.ruler
        /\ a.reason = IF r.state = "resolved" THEN FALSE ELSE r.reason
    BY ReopenedRow
  <1> HIDE DEF a
  <1>4. /\ b \in FindingRows /\ b.state = a.state /\ b.ruler = a.ruler /\ b.reason = a.reason
        /\ b.claim = a.claim /\ b.before = a.before /\ b.sightings = r.sightings + 1
        /\ b.last = r.last /\ b.cites = r.cites /\ b.first = r.first
    BY <1>1 DEF FindingRows
  <1> HIDE DEF b
  <1>5. /\ c \in FindingRows /\ c.state = a.state /\ c.ruler = a.ruler /\ c.reason = a.reason
        /\ c.claim = a.claim /\ c.before = a.before /\ c.sightings = r.sightings + 1
        /\ c.last = r.last /\ c.first = r.first
        /\ c.cites = IF v > r.last THEN v ELSE r.cites
    BY <1>4 DEF FindingRows
  <1> HIDE DEF c
  <1>6. /\ d \in FindingRows /\ d.state = a.state /\ d.ruler = a.ruler /\ d.reason = a.reason
        /\ d.claim = a.claim /\ d.before = a.before /\ d.sightings = r.sightings + 1
        /\ d.last = (IF v > r.last THEN v ELSE r.last) /\ d.first = r.first /\ d.cites = c.cites
    BY <1>5 DEF FindingRows
  <1> HIDE DEF d
  <1>7. /\ e \in FindingRows /\ e.state = a.state /\ e.ruler = a.ruler /\ e.reason = a.reason
        /\ e.claim = a.claim /\ e.before = a.before /\ e.sightings = r.sightings + 1
        /\ e.last = d.last /\ e.cites = c.cites
        /\ e.first = IF v < r.first THEN v ELSE r.first
    BY <1>6 DEF FindingRows
  <1> HIDE DEF e
  <1> QED BY <1>1, <1>2, <1>3, <1>5, <1>6, <1>7 DEF SeenAs

\* The domain's function, which counts before it reopens.
LEMMA DomainSeenRow ==
    ASSUME NEW r \in FindingRows, NEW v \in Passes
    PROVE  SeenAs(F!DomainSeen(r, v), r, v)
  <1> DEFINE b == [r EXCEPT !.sightings = @ + 1]
             c == IF v > r.last THEN [b EXCEPT !.last = v] ELSE b
             d == IF v > r.last THEN [c EXCEPT !.cites = v] ELSE c
             e == IF v < r.first THEN [d EXCEPT !.first = v] ELSE d
  <1>1. /\ b \in FindingRows /\ b.state = r.state /\ b.ruler = r.ruler /\ b.reason = r.reason
        /\ b.claim = r.claim /\ b.before = r.before /\ b.sightings = r.sightings + 1
        /\ b.last = r.last /\ b.cites = r.cites /\ b.first = r.first
    BY DEF FindingRows
  <1>2. F!DomainSeen(r, v) = IF r.state = "resolved"
             THEN [e EXCEPT !.state = "open", !.ruler = F!Nobody, !.reason = FALSE] ELSE e
    <2>1. CASE v > r.last BY <2>1 DEF F!DomainSeen, b, c, d, e
    <2>2. CASE ~(v > r.last) BY <2>2 DEF F!DomainSeen, b, c, d, e
    <2> QED BY <2>1, <2>2
  <1> HIDE DEF b
  <1>3. /\ c \in FindingRows /\ c.state = r.state /\ c.ruler = r.ruler /\ c.reason = r.reason
        /\ c.claim = r.claim /\ c.before = r.before /\ c.sightings = r.sightings + 1
        /\ c.last = (IF v > r.last THEN v ELSE r.last) /\ c.cites = r.cites /\ c.first = r.first
    BY <1>1 DEF FindingRows
  <1> HIDE DEF c
  <1>4. /\ d \in FindingRows /\ d.state = r.state /\ d.ruler = r.ruler /\ d.reason = r.reason
        /\ d.claim = r.claim /\ d.before = r.before /\ d.sightings = r.sightings + 1
        /\ d.last = c.last /\ d.first = r.first
        /\ d.cites = IF v > r.last THEN v ELSE r.cites
    BY <1>3 DEF FindingRows
  <1> HIDE DEF d
  <1>5. /\ e \in FindingRows /\ e.state = r.state /\ e.ruler = r.ruler /\ e.reason = r.reason
        /\ e.claim = r.claim /\ e.before = r.before /\ e.sightings = r.sightings + 1
        /\ e.last = c.last /\ e.cites = d.cites
        /\ e.first = IF v < r.first THEN v ELSE r.first
    BY <1>4 DEF FindingRows
  <1> HIDE DEF e
  <1>6. F!DomainSeen(r, v) = Reopens(e) BY <1>2, <1>5 DEF Reopens
  <1>7. /\ Reopens(e) \in FindingRows
        /\ Reopens(e).state = IF r.state = "resolved" THEN "open" ELSE r.state
        /\ Reopens(e).ruler = IF r.state = "resolved" THEN F!Nobody ELSE r.ruler
        /\ Reopens(e).reason = IF r.state = "resolved" THEN FALSE ELSE r.reason
        /\ Reopens(e).claim = r.claim /\ Reopens(e).before = r.before
        /\ Reopens(e).first = e.first /\ Reopens(e).last = e.last
        /\ Reopens(e).cites = e.cites /\ Reopens(e).sightings = e.sightings
    BY <1>5, ReopenedRow
  <1> QED BY <1>3, <1>4, <1>5, <1>6, <1>7 DEF SeenAs

LEMMA UpsertIsTheDomains ==
    ASSUME NEW r \in FindingRows, NEW v \in Passes
    PROVE  F!Seen(r, v) = F!DomainSeen(r, v)
  <1>1. SeenAs(F!Seen(r, v), r, v) /\ SeenAs(F!DomainSeen(r, v), r, v)
    BY SeenRow, DomainSeenRow
  <1> DEFINE a == F!Seen(r, v)
             b == F!DomainSeen(r, v)
  <1> HIDE DEF a, b
  <1>2. a = b BY <1>1, FindingRowsEqual DEF SeenAs, a, b
  <1> QED BY <1>2 DEF a, b

LEMMA NewRow ==
    ASSUME NEW v \in Passes
    PROVE  /\ FindingRow(F!New(v)) /\ F!New(v).sightings = 1 /\ F!New(v).first = v
           /\ F!New(v).cites = v /\ F!New(v).last = v
  BY FindingsAssumption
     DEF F!New, FindingRow, FindingRows, F!States, F!Claims, F!Unclaimed, F!Nobody, F!Rule, F!Severities

\* What a person's request carries, and what it writes of it.
LEMMA RuledRow ==
    ASSUME NEW r, FindingRow(r), NEW p \in Rulers, NEW to \in F!States, NEW why \in BOOLEAN,
           F!MayRule(r, to, why)
    PROVE  FindingRow(F!Ruled(r, p, to, why))
  <1> DEFINE a == [r EXCEPT !.state = to]
             b == [a EXCEPT !.ruler = p]
             c == [b EXCEPT !.reason = why]
  <1>1. a \in FindingRows /\ a.state = to /\ a.first = r.first /\ a.last = r.last
    BY DEF FindingRow, FindingRows
  <1>2. F!Ruled(r, p, to, why) = c BY DEF F!Ruled, a, b, c
  <1> HIDE DEF a
  <1>3. b \in FindingRows /\ b.state = to /\ b.ruler = p /\ b.first = r.first /\ b.last = r.last
    BY <1>1 DEF FindingRows
  <1> HIDE DEF b
  <1>4. /\ c \in FindingRows /\ c.state = to /\ c.ruler = p /\ c.reason = why
        /\ c.first = r.first /\ c.last = r.last
    BY <1>3 DEF FindingRows
  <1> HIDE DEF c
  <1>5. to # "open" /\ p # F!Nobody /\ (to = "dismissed" => why)
    BY FindingsAssumption DEF F!MayRule, F!Nobody
  <1> QED BY <1>2, <1>4, <1>5 DEF FindingRow

LEMMA ReassessedRow ==
    ASSUME NEW r, FindingRow(r), NEW p \in Rulers, NEW to \in F!Severities
    PROVE  FindingRow(F!Reassessed(r, p, to))
  <1> DEFINE a == [r EXCEPT !.claim = [by |-> p, severity |-> to]]
             b == [a EXCEPT !.before = r.claim]
  <1>1. /\ a \in FindingRows /\ a.state = r.state /\ a.ruler = r.ruler /\ a.reason = r.reason
        /\ a.first = r.first /\ a.last = r.last
    BY DEF FindingRow, FindingRows, F!Claims
  <1>2. F!Reassessed(r, p, to) = b BY DEF F!Reassessed, a, b
  <1>3. r.claim \in F!Claims BY DEF FindingRow, FindingRows
  <1> HIDE DEF a
  <1>4. /\ b \in FindingRows /\ b.state = r.state /\ b.ruler = r.ruler /\ b.reason = r.reason
        /\ b.first = r.first /\ b.last = r.last
    BY <1>1, <1>3 DEF FindingRows
  <1> HIDE DEF b
  <1> QED BY <1>2, <1>4 DEF FindingRow

LEMMA SavedRow ==
    ASSUME NEW r, FindingRow(r), NEW new, FindingRow(new)
    PROVE  /\ FindingRow(F!Save(r, new))
           /\ F!Save(r, new).first = r.first /\ F!Save(r, new).last = r.last
           /\ F!Save(r, new).cites = r.cites /\ F!Save(r, new).sightings = r.sightings
  <1> DEFINE a == [r EXCEPT !.state = new.state]
             b == [a EXCEPT !.ruler = new.ruler]
             c == [b EXCEPT !.reason = new.reason]
             d == [c EXCEPT !.claim = new.claim]
             e == [d EXCEPT !.before = new.before]
             Sees(x) == /\ x \in FindingRows /\ x.first = r.first /\ x.last = r.last
                        /\ x.cites = r.cites /\ x.sightings = r.sightings
  <1>1. /\ new.state \in F!States /\ new.ruler \in Rulers \cup {F!Nobody} /\ new.reason \in BOOLEAN
        /\ new.claim \in F!Claims /\ new.before \in F!Claims \cup {F!Unclaimed}
    BY DEF FindingRow, FindingRows
  <1>2. Sees(a) /\ a.state = new.state BY <1>1 DEF FindingRow, FindingRows
  <1>3. F!Save(r, new) = e BY DEF F!Save, a, b, c, d, e
  <1> HIDE DEF a
  <1>4. Sees(b) /\ b.state = new.state /\ b.ruler = new.ruler BY <1>1, <1>2 DEF FindingRows
  <1> HIDE DEF b
  <1>5. Sees(c) /\ c.state = new.state /\ c.ruler = new.ruler /\ c.reason = new.reason
    BY <1>1, <1>4 DEF FindingRows
  <1> HIDE DEF c
  <1>6. Sees(d) /\ d.state = new.state /\ d.ruler = new.ruler /\ d.reason = new.reason
    BY <1>1, <1>5 DEF FindingRows
  <1> HIDE DEF d
  <1>7. Sees(e) /\ e.state = new.state /\ e.ruler = new.ruler /\ e.reason = new.reason
    BY <1>1, <1>6 DEF FindingRows
  <1> HIDE DEF e
  <1> QED BY <1>3, <1>7 DEF FindingRow

\* Rows are never removed, so what somebody has read of one can be written.
LEMMA RulingsLast ==
    ASSUME FindingTypes, UNCHANGED ruling, \A s \in Problems : row[s] # F!None => row'[s] # F!None
    PROVE  /\ ruling' = [p \in Rulers |-> ruling'[p]]
           /\ \A p \in Rulers : ruling'[p] = F!Idle \/ RulingOf(ruling[p])'
  BY DEF FindingTypes, RulingOf

LEMMA OneRuling ==
    ASSUME FindingInv, NEW p \in Rulers, NEW j, ruling' = [ruling EXCEPT ![p] = j],
           j = F!Idle \/ RulingOf(j), UNCHANGED <<known, row, detail, scanned, skipped>>
    PROVE  FindingInv'
  <1>1. \A q \in Rulers : ruling'[q] = IF q = p THEN j ELSE ruling[q]
    BY DEF FindingInv, FindingTypes
  <1>2. FindingTypes' BY <1>1 DEF FindingInv, FindingTypes, RulingOf
  <1>3. \A s \in Problems : RowsTellOf(s)' BY DEF FindingInv, RowsTellOf, SeenOf
  <1> QED BY <1>2, <1>3 DEF FindingInv

LEMMA RecordKeepsFindings ==
    ASSUME FindingInv, NEW v \in Passes, F!Record(v)
    PROVE  FindingInv'
  <1> USE DEF FindingInv
  <1>1. /\ v \notin scanned /\ scanned' = scanned \cup {v}
        /\ row' = [s \in Problems |-> IF s \in F!Found(v) THEN F!UpsertFinding(row[s], v) ELSE row[s]]
        /\ detail' = [s \in Problems |-> IF s \in F!Found(v) THEN F!UpsertDetail(s, v) ELSE detail[s]]
        /\ skipped' = skipped \cup {<<v, s>> : s \in Matched[v] \ known}
        /\ UNCHANGED <<known, ruling>>
    BY DEF F!Record, F!SaveDetails
  <1>2. Matched[v] \subseteq Problems /\ IsFiniteSet(Passes) /\ Passes \subseteq Nat \ {0}
    BY FindingsAssumption
  <1>3. ASSUME NEW s \in Problems
        PROVE  /\ row'[s] = F!None \/ FindingRow(row'[s])
               /\ row[s] # F!None => row'[s] # F!None
               /\ RowsTellOf(s)'
    <2>1. IsFiniteSet(SeenOf(s)) /\ v \notin SeenOf(s) /\ SeenOf(s) \subseteq Passes
      BY <1>1, <1>2, FS_Subset DEF SeenOf, FindingTypes
    <2>2. \A u : <<v, u>> \notin skipped BY <1>1 DEF FindingTypes
    <2>3. CASE s \notin F!Found(v)
      <3>1. row'[s] = row[s] /\ detail'[s] = detail[s] BY <1>1, <2>3
      <3>2. SeenOf(s)' = SeenOf(s)
        <4>1. s \in Matched[v] => <<v, s>> \in skipped' BY <1>1, <2>3 DEF F!Found
        <4>2. \A w \in scanned : <<w, s>> \in skipped' <=> <<w, s>> \in skipped BY <1>1
        <4> QED BY <1>1, <4>1, <4>2 DEF SeenOf
      <3> QED BY <3>1, <3>2 DEF FindingTypes, RowsTellOf
    <2>4. CASE s \in F!Found(v)
      <3>1. s \in Matched[v] /\ s \in known BY <2>4 DEF F!Found
      <3>2. SeenOf(s)' = SeenOf(s) \cup {v}
        <4>1. \A w : <<w, s>> \in skipped' <=> <<w, s>> \in skipped BY <1>1, <3>1
        <4> QED BY <1>1, <2>2, <3>1, <4>1 DEF SeenOf
      <3>3. /\ Cardinality(SeenOf(s) \cup {v}) = Cardinality(SeenOf(s)) + 1
            /\ Cardinality(SeenOf(s)) \in Nat
        BY <2>1, FS_AddElement, FS_CardinalityType
      <3>4. row'[s] = F!UpsertFinding(row[s], v) /\ detail'[s] = F!UpsertDetail(s, v)
        BY <1>1, <2>4
      <3>5. CASE row[s] = F!None
        <4>1. row'[s] = F!New(v) BY <3>4, <3>5 DEF F!UpsertFinding
        <4>2. SeenOf(s) = {} /\ detail[s] = 0 BY <3>5 DEF RowsTellOf
        <4>3. detail'[s] = v BY <1>2, <3>4, <4>2 DEF F!UpsertDetail
        <4>4. Cardinality({v}) = 1 BY FS_Singleton
        <4>5. FindingRow(row'[s]) /\ row'[s] # F!None
          BY <4>1, NewRow DEF FindingRow, FindingRows, F!States, F!None
        <4>6. TellsOf(row'[s], SeenOf(s)', detail'[s])
          BY <1>2, <3>2, <4>1, <4>2, <4>3, <4>4, NewRow DEF TellsOf
        <4> QED BY <4>5, <4>6 DEF RowsTellOf
      <3>6. CASE row[s] # F!None
        <4>1. FindingRow(row[s]) /\ TellsOf(row[s], SeenOf(s), detail[s])
          BY <3>6 DEF FindingTypes, RowsTellOf
        <4> DEFINE r == row[s]
                   new == F!Seen(row[s], v)
        <4>2. row'[s] = new BY <3>4, <3>6 DEF F!UpsertFinding
        <4>3. SeenAs(new, r, v) BY <4>1, SeenRow DEF FindingRow
        <4>4. /\ r \in FindingRows /\ r.last = r.cites /\ detail[s] = r.cites
              /\ r.first <= r.last /\ r.sightings = Cardinality(SeenOf(s))
              /\ r.first \in SeenOf(s) /\ r.cites \in SeenOf(s)
              /\ \A w \in SeenOf(s) : r.first <= w /\ w <= r.cites
              /\ r.state = "open" <=> r.ruler = F!Nobody
              /\ r.state = "dismissed" => r.reason
          BY <4>1 DEF FindingRow, TellsOf
        <4> HIDE DEF r, new
        <4>5. /\ r.last \in Nat /\ r.first \in Nat /\ r.cites \in Nat /\ v \in Nat
          BY <1>2, <4>4 DEF FindingRows
        <4>6. detail'[s] = new.cites
          BY <3>4, <4>3, <4>4, <4>5 DEF F!UpsertDetail, SeenAs
        <4>7. FindingRow(new) /\ new # F!None
          <5>1. new \in FindingRows /\ new.first <= new.last BY <4>3, <4>4, <4>5 DEF SeenAs
          <5>2. /\ new.state = "open" <=> new.ruler = F!Nobody
                /\ new.state = "dismissed" => new.reason
            BY <4>3, <4>4 DEF SeenAs
          <5>3. new # F!None BY <5>1 DEF FindingRows, F!States, F!None
          <5> QED BY <5>1, <5>2, <5>3 DEF FindingRow
        <4>8. TellsOf(new, SeenOf(s) \cup {v}, detail'[s])
          <5>1. new.sightings = Cardinality(SeenOf(s) \cup {v}) BY <3>3, <4>3, <4>4 DEF SeenAs
          <5>2. \A w \in SeenOf(s) \cup {v} : new.first <= w /\ w <= new.cites
            <6>1. new.first <= v /\ new.first <= r.first /\ v <= new.cites /\ r.cites <= new.cites
              BY <4>3, <4>4, <4>5 DEF SeenAs
            <6>2. new.first \in Nat /\ new.cites \in Nat BY <4>3, <4>5 DEF SeenAs
            <6>3. SeenOf(s) \subseteq Nat BY <1>2, <2>1
            <6> QED BY <4>4, <4>5, <6>1, <6>2, <6>3
          <5>3. /\ new.first \in SeenOf(s) \cup {v} /\ new.cites \in SeenOf(s) \cup {v}
                /\ new.last = new.cites
            BY <4>3, <4>4 DEF SeenAs
          <5> QED BY <4>6, <5>1, <5>2, <5>3 DEF TellsOf
        <4> QED BY <3>2, <4>2, <4>7, <4>8 DEF RowsTellOf
      <3> QED BY <3>5, <3>6
    <2> QED BY <2>3, <2>4
  <1>4. FindingTypes'
    <2>1. /\ row' = [s \in Problems |-> row'[s]] /\ known' \subseteq Problems /\ scanned' \subseteq Passes
      BY <1>1 DEF FindingTypes
    <2>2. skipped' \subseteq scanned' \X Problems BY <1>1, <1>2 DEF FindingTypes
    <2>3. detail' \in [Problems -> Passes \cup {0}] BY <1>1 DEF FindingTypes, F!UpsertDetail
    <2>4. /\ ruling' = [p \in Rulers |-> ruling'[p]]
          /\ \A p \in Rulers : ruling'[p] = F!Idle \/ RulingOf(ruling[p])'
      BY <1>1, <1>3, RulingsLast
    <2> QED BY <1>1, <1>3, <2>1, <2>2, <2>3, <2>4 DEF FindingTypes
  <1> QED BY <1>3, <1>4

LEMMA SavesKeepFindings ==
    ASSUME FindingInv, NEW p \in Rulers, F!Decide(p) \/ F!Reassess(p)
    PROVE  FindingInv'
  <1>1. /\ ruling[p] # F!Idle /\ row' = [row EXCEPT ![ruling[p].on] = F!Save(@, ruling[p].row)]
        /\ ruling' = [ruling EXCEPT ![p] = F!Idle]
        /\ UNCHANGED <<known, detail, scanned, skipped>>
    BY DEF F!Decide, F!Reassess
  <1>2. RulingOf(ruling[p]) BY <1>1 DEF FindingInv, FindingTypes
  <1> DEFINE on == ruling[p].on
             new == F!Save(row[on], ruling[p].row)
  <1>3. /\ on \in Problems /\ row[on] # F!None /\ FindingRow(row[on]) /\ RowsTellOf(on)
    BY <1>2 DEF RulingOf, FindingInv, FindingTypes
  <1>4. \A s \in Problems : row'[s] = IF s = on THEN new ELSE row[s]
    BY <1>1, <1>3 DEF FindingInv, FindingTypes
  <1>5. /\ FindingRow(new) /\ new.first = row[on].first /\ new.last = row[on].last
        /\ new.cites = row[on].cites /\ new.sightings = row[on].sightings
    BY <1>2, <1>3, SavedRow DEF RulingOf
  <1> HIDE DEF new
  <1>6. new # F!None BY <1>5 DEF FindingRow, FindingRows, F!States, F!None
  <1>7. \A q \in Rulers : ruling'[q] = F!Idle \/ RulingOf(ruling[q])'
    <2> SUFFICES ASSUME NEW q \in Rulers, ruling'[q] # F!Idle PROVE RulingOf(ruling[q])'
      OBVIOUS
    <2>1. ruling'[q] = ruling[q] /\ RulingOf(ruling[q])
      BY <1>1 DEF FindingInv, FindingTypes
    <2> QED BY <2>1, <1>4, <1>6 DEF RulingOf
  <1>8. FindingTypes'
    BY <1>1, <1>4, <1>5, <1>7 DEF FindingInv, FindingTypes
  <1>9. ASSUME NEW s \in Problems PROVE RowsTellOf(s)'
    <2>1. SeenOf(s)' = SeenOf(s) /\ detail'[s] = detail[s] BY <1>1 DEF SeenOf
    <2>2. CASE s = on
      BY <1>3, <1>4, <1>5, <1>6, <2>1, <2>2 DEF RowsTellOf, TellsOf
    <2>3. CASE s # on BY <1>4, <2>1, <2>3 DEF FindingInv, RowsTellOf
    <2> QED BY <2>2, <2>3
  <1> QED BY <1>8, <1>9 DEF FindingInv

LEMMA AsksKeepFindings ==
    ASSUME FindingInv, NEW p \in Rulers, F!decideFinding(p) \/ F!reassessFinding(p)
    PROVE  FindingInv'
  <1>1. ASSUME NEW s \in Problems, NEW to \in F!States, NEW why \in BOOLEAN,
               F!AskDecide(p, s, to, why)
        PROVE  FindingInv'
    <2> DEFINE new == F!Ruled(row[s], p, to, why)
               j == [on |-> s, decides |-> TRUE, row |-> new]
    <2>1. FindingRow(row[s]) /\ row[s] # F!None
      BY <1>1 DEF F!AskDecide, F!ByID, FindingInv, FindingTypes
    <2>2. FindingRow(new) BY <1>1, <2>1, RuledRow DEF F!AskDecide
    <2>3. ruling' = [ruling EXCEPT ![p] = j] /\ UNCHANGED <<known, row, detail, scanned, skipped>>
      BY <1>1 DEF F!AskDecide
    <2> HIDE DEF new
    <2>4. RulingOf(j) BY <2>1, <2>2 DEF RulingOf
    <2> HIDE DEF j
    <2> QED BY <2>3, <2>4, OneRuling
  <1>2. ASSUME NEW s \in Problems, NEW to \in F!Severities, F!AskReassess(p, s, to)
        PROVE  FindingInv'
    <2> DEFINE new == F!Reassessed(row[s], p, to)
               j == [on |-> s, decides |-> FALSE, row |-> new]
    <2>1. FindingRow(row[s]) /\ row[s] # F!None
      BY <1>2 DEF F!AskReassess, F!ByID, FindingInv, FindingTypes
    <2>2. FindingRow(new) BY <2>1, ReassessedRow
    <2>3. ruling' = [ruling EXCEPT ![p] = j] /\ UNCHANGED <<known, row, detail, scanned, skipped>>
      BY <1>2 DEF F!AskReassess
    <2> HIDE DEF new
    <2>4. RulingOf(j) BY <2>1, <2>2 DEF RulingOf
    <2> HIDE DEF j
    <2> QED BY <2>3, <2>4, OneRuling
  <1> QED BY <1>1, <1>2 DEF F!decideFinding, F!reassessFinding

LEMMA FindingsBegin == F!Init => FindingInv
  <1> SUFFICES ASSUME F!Init PROVE FindingInv OBVIOUS
  <1>1. FindingTypes BY DEF F!Init, FindingTypes
  <1>2. \A s \in Problems : RowsTellOf(s) BY DEF F!Init, RowsTellOf, SeenOf
  <1> QED BY <1>1, <1>2 DEF FindingInv

LEMMA FindingStep == ASSUME FindingInv, F!Next PROVE FindingInv'
  <1>1. ASSUME NEW s \in Problems, F!FragmentStored(s) PROVE FindingInv'
    <2>1. UNCHANGED <<row, detail, scanned, skipped, ruling>> /\ known' = known \cup {s}
      BY <1>1 DEF F!FragmentStored
    <2>2. FindingTypes' BY <2>1 DEF FindingInv, FindingTypes, RulingOf
    <2>3. \A u \in Problems : RowsTellOf(u)' BY <2>1 DEF FindingInv, RowsTellOf, SeenOf
    <2> QED BY <2>2, <2>3 DEF FindingInv
  <1> QED BY <1>1, RecordKeepsFindings, SavesKeepFindings, AsksKeepFindings DEF F!Next

LEMMA FindingsStutter == ASSUME FindingInv, UNCHANGED ruled PROVE FindingInv'
  <1>1. FindingTypes' BY DEF ruled, FindingInv, FindingTypes, RulingOf
  <1>2. \A s \in Problems : RowsTellOf(s)' BY DEF ruled, FindingInv, RowsTellOf, SeenOf
  <1> QED BY <1>1, <1>2 DEF FindingInv

LEMMA FindingsStart == KnowingInit => FindingInv
  BY FindingsBegin DEF KnowingInit

LEMMA FindingsLast == FindingInv /\ [KnowingNext]_all => FindingInv'
  <1> SUFFICES ASSUME FindingInv, [KnowingNext]_all PROVE FindingInv' OBVIOUS
  <1>1. F!Next \/ UNCHANGED ruled BY DEF KnowingNext, all
  <1> QED BY <1>1, FindingStep, FindingsStutter

LEMMA FindingsAreTrue == FindingInv => F!TypeOK /\ F!CitesTheNewest /\ F!UpsertIsSeen
  <1> SUFFICES ASSUME FindingInv PROVE F!TypeOK /\ F!CitesTheNewest /\ F!UpsertIsSeen OBVIOUS
  <1> USE DEF FindingInv
  <1>1. ASSUME NEW s \in Problems, row[s] # F!None
        PROVE  /\ FindingRow(row[s]) /\ TellsOf(row[s], SeenOf(s), detail[s])
               /\ row[s].sightings \in 1 .. F!Cardinality(Passes)
    <2>1. FindingRow(row[s]) /\ TellsOf(row[s], SeenOf(s), detail[s])
      BY <1>1 DEF FindingTypes, RowsTellOf
    <2>2. IsFiniteSet(Passes) /\ SeenOf(s) \subseteq Passes
      BY FindingsAssumption DEF FindingTypes, SeenOf
    <2>3. /\ IsFiniteSet(SeenOf(s)) /\ Cardinality(SeenOf(s)) <= Cardinality(Passes)
          /\ Cardinality(SeenOf(s)) \in Nat /\ Cardinality(Passes) \in Nat
      BY <2>2, FS_Subset, FS_CardinalityType
    <2>4. SeenOf(s) # {} BY <2>1 DEF TellsOf
    <2>5. Cardinality(SeenOf(s)) # 0 BY <2>3, <2>4, FS_EmptySet
    <2>6. F!Cardinality(Passes) = Cardinality(Passes) BY DEF F!Cardinality, Cardinality
    <2>7. row[s].sightings = Cardinality(SeenOf(s)) BY <2>1 DEF TellsOf
    <2> QED BY <2>1, <2>3, <2>5, <2>6, <2>7
  <1>2. ASSUME NEW s \in Problems, row[s] # F!None PROVE row[s] \in F!Rows
    BY <1>1, <1>2 DEF FindingRow, FindingRows, F!Rows
  <1>3. F!TypeOK BY <1>1, <1>2 DEF FindingTypes, FindingRow, RulingOf, F!TypeOK
  <1>4. F!CitesTheNewest
    <2> SUFFICES ASSUME NEW s \in Problems, row[s] # F!None
                 PROVE  /\ row[s].sightings = F!Cardinality(SeenOf(s))
                        /\ \A v \in SeenOf(s) : row[s].first <= v /\ v <= row[s].cites
                        /\ {row[s].first, row[s].cites} \subseteq SeenOf(s)
                        /\ row[s].last = row[s].cites /\ detail[s] = row[s].cites
      BY DEF F!CitesTheNewest, SeenOf
    <2>1. F!Cardinality(SeenOf(s)) = Cardinality(SeenOf(s)) BY DEF F!Cardinality, Cardinality
    <2> QED BY <1>1, <2>1 DEF TellsOf
  <1>5. F!UpsertIsSeen
    BY <1>1, UpsertIsTheDomains DEF F!UpsertIsSeen, F!UpsertFinding, FindingRow
  <1> QED BY <1>3, <1>4, <1>5

LEMMA ScansKeepRulings == ASSUME FindingInv, F!Next PROVE F!KeepsRulings
  <1> SUFFICES ASSUME NEW s \in Problems, scanned' # scanned, row[s] # F!None
               PROVE  /\ row[s].state \in {"triaged", "dismissed"} =>
                           /\ row'[s].state = row[s].state /\ row'[s].ruler = row[s].ruler
                           /\ row'[s].reason = row[s].reason
                      /\ row'[s].claim = row[s].claim /\ row'[s].before = row[s].before
    BY DEF F!KeepsRulings
  <1>1. PICK v \in Passes : F!Record(v)
    BY DEF F!Next, F!FragmentStored, F!decideFinding, F!AskDecide, F!reassessFinding, F!AskReassess,
           F!Decide, F!Reassess
  <1>2. row'[s] = row[s] \/ row'[s] = F!Seen(row[s], v)
    BY <1>1 DEF F!Record, F!UpsertFinding
  <1>3. row[s] \in FindingRows BY DEF FindingInv, FindingTypes, FindingRow
  <1>4. SeenAs(F!Seen(row[s], v), row[s], v) BY <1>3, SeenRow
  <1> DEFINE new == F!Seen(row[s], v)
  <1> HIDE DEF new
  <1>5. CASE row'[s] = row[s] BY <1>5
  <1>6. CASE row'[s] = new BY <1>4, <1>6 DEF SeenAs, new
  <1> QED BY <1>2, <1>5, <1>6 DEF new

\* Scans recorded in any order, beside people who rule on what they read before,
\* leave the row of the newest; and the statement makes of a row what the domain
\* does.
THEOREM FindingsCorrect == KnowingSpec => []FindingsAreCurrent
  <1>1. FindingInv => FindingsAreCurrent BY FindingsAreTrue DEF FindingsAreCurrent
  <1> QED BY <1>1, FindingsStart, FindingsLast, PTL DEF KnowingSpec
-----------------------------------------------------------------------------
(* The targets.                                                            *)
(*                                                                         *)
(* A version is stored once, so what a request has to tell of the one it   *)
(* made is true for good, and no other tells of it.                        *)

TargetRows == [name : TargetNames \cup {T!None}, status : {"absent", "active", "archived"},
               version : 0 .. LastOfTarget, root : RootsMade \cup {T!None}]
TargetRow(r) ==
    /\ r \in TargetRows
    /\ r = T!Absent \/ (r.version # 0 /\ r.status # "absent")

EventHolds(e) ==
    /\ e.target \in TargetsMade /\ e.version \in 1 .. target[e.target].version
    /\ e.to = was[e.target][e.version].name
    /\ e.version > 1 => e.from = was[e.target][e.version - 1].name
ReadHolds(j) ==
    /\ j.of \in TargetsMade /\ j.held \in TargetRows /\ TargetRow(j.next)
    /\ j.held.version \in 1 .. target[j.of].version
    /\ j.next.version = j.held.version + 1 /\ j.next.status # "absent"
    /\ j.held.name = was[j.of][j.held.version].name
ChangeHolds(j) ==
    /\ j.step \in {"idle", "read", "telling", "done"}
    /\ j.step = "read" => ReadHolds(j)
    /\ j.step = "telling" => EventHolds(j.event)

TargetTypes ==
    /\ target = [t \in TargetsMade |-> target[t]]
    /\ \A t \in TargetsMade : TargetRow(target[t])
    /\ was \in [TargetsMade -> [1 .. LastOfTarget ->
                   [name : TargetNames \cup {T!None}, status : {"absent", "active", "archived"}]]]
    /\ \A t \in TargetsMade : target[t] # T!Absent =>
          was[t][target[t].version].name = target[t].name
    /\ changing = [r \in Retargeting |-> changing[r]]
    /\ \A r \in Retargeting : ChangeHolds(changing[r])
    /\ \A e \in announcements : EventHolds(e)
    /\ lost \subseteq TargetsMade \X (1 .. LastOfTarget)

\* Of one version nobody tells but the request that made it.
SameVersion(e, d) == e.target = d.target /\ e.version = d.version
EventsApart ==
    /\ \A e, d \in announcements : SameVersion(e, d) => e = d
    /\ \A r \in Retargeting : changing[r].step = "telling" =>
          /\ \A e \in announcements : ~SameVersion(e, changing[r].event)
          /\ \A q \in Retargeting : changing[q].step = "telling"
                /\ SameVersion(changing[q].event, changing[r].event) => q = r
VersionAccounted(t, v) ==
    \/ \E e \in announcements : e.target = t /\ e.version = v
    \/ \E r \in Retargeting : changing[r].step = "telling" /\ changing[r].event.target = t
                              /\ changing[r].event.version = v
    \/ <<t, v>> \in lost
AllAccounted == \A t \in TargetsMade : \A v \in 1 .. target[t].version : VersionAccounted(t, v)

TargetInv == TargetTypes /\ EventsApart /\ AllAccounted /\ T!NamesAreTheirOwn

\* A version that follows the one stored: its event is true, and nothing that
\* was told or read of earlier versions is less so.
LEMMA StoresKeepsTargets ==
    ASSUME TargetInv, NEW r \in Retargeting, NEW t \in TargetsMade, NEW next, NEW act, NEW from,
           T!Stores(r, t, next, act, from),
           TargetRow(next), next.status # "absent", next.version = target[t].version + 1,
           changing[r].step # "telling",
           next.version > 1 => from = was[t][next.version - 1].name,
           next.status = "active" => T!NameFree(t, next.name)
    PROVE  TargetInv'
  <1> USE DEF TargetInv
  <1> DEFINE e == [target |-> t, act |-> act, from |-> from, to |-> next.name,
                   version |-> next.version]
             j == [step |-> "telling", event |-> e]
             v == next.version
  <1>1. /\ target' = [target EXCEPT ![t] = next]
        /\ was' = [was EXCEPT ![t][v] = [name |-> next.name, status |-> next.status]]
        /\ changing' = [changing EXCEPT ![r] = j]
        /\ UNCHANGED <<announcements, lost>>
    BY DEF T!Stores
  <1>2. /\ e.target = t /\ e.from = from /\ e.to = next.name /\ e.version = v
        /\ j.step = "telling" /\ j.event = e
    OBVIOUS
  <1> HIDE DEF e, j
  <1>3. /\ v \in 1 .. LastOfTarget /\ target[t].version \in Nat /\ LastOfTarget \in Nat
        /\ next \in TargetRows /\ next # T!Absent
    BY TargetsAssumption DEF TargetTypes, TargetRow, TargetRows, T!Absent
  <1>4. \A q \in TargetsMade : target'[q] = IF q = t THEN next ELSE target[q]
    BY <1>1 DEF TargetTypes
  <1>5. /\ was' \in [TargetsMade -> [1 .. LastOfTarget ->
                   [name : TargetNames \cup {T!None}, status : {"absent", "active", "archived"}]]]
        /\ was'[t][v].name = next.name
        /\ \A q \in TargetsMade, w \in 1 .. LastOfTarget :
              q # t \/ w # v => was'[q][w] = was[q][w]
    BY <1>1, <1>3 DEF TargetTypes, TargetRows
  <1>6. \A q \in Retargeting : changing'[q] = IF q = r THEN j ELSE changing[q]
    BY <1>1 DEF TargetTypes
  <1>7. ASSUME NEW q \in TargetsMade
        PROVE  /\ target[q].version \in Nat /\ target[q].version <= LastOfTarget
               /\ target[q].version <= target'[q].version /\ target'[q].version <= LastOfTarget
               /\ target'[q].version \in Nat
               /\ q = t => target'[q].version = v
               /\ \A w \in 1 .. target[q].version : was'[q][w] = was[q][w]
    <2>1. target[q].version \in Nat /\ target[q].version <= LastOfTarget
      BY TargetsAssumption DEF TargetTypes, TargetRow, TargetRows
    <2>2. target[q].version <= target'[q].version /\ target'[q].version <= LastOfTarget
      BY <1>3, <1>4, <2>1
    <2>3. \A w \in 1 .. target[q].version : w \in 1 .. LastOfTarget /\ (q # t \/ w # v)
      BY <1>3, <2>1
    <2> QED BY <1>3, <1>4, <1>5, <2>1, <2>2, <2>3
  <1>8. ASSUME NEW d, EventHolds(d) PROVE EventHolds(d)' /\ ~SameVersion(d, e)
    <2>1. d.target \in TargetsMade /\ d.version \in 1 .. target[d.target].version
      BY <1>8 DEF EventHolds
    <2>2. d.version \in 1 .. target'[d.target].version /\ was'[d.target][d.version] = was[d.target][d.version]
      BY <1>7, <2>1
    <2>3. d.version > 1 => was'[d.target][d.version - 1] = was[d.target][d.version - 1]
      BY <1>7, <2>1
    <2>4. ~SameVersion(d, e) BY <1>2, <1>3, <2>1 DEF SameVersion
    <2> QED BY <1>8, <2>1, <2>2, <2>3, <2>4 DEF EventHolds
  <1>9. ASSUME NEW k, ReadHolds(k) PROVE ReadHolds(k)'
    <2>1. /\ k.of \in TargetsMade /\ k.held.version \in 1 .. target'[k.of].version
          /\ was'[k.of][k.held.version] = was[k.of][k.held.version]
      BY <1>7, <1>9 DEF ReadHolds
    <2> QED BY <1>9, <2>1 DEF ReadHolds
  <1>10. EventHolds(e)'
    <2>1. v > 1 => was'[t][v - 1] = was[t][v - 1] BY <1>3, <1>5
    <2>2. target'[t].version = v BY <1>7
    <2> QED BY <1>2, <1>3, <1>5, <2>1, <2>2 DEF EventHolds
  <1>11. TargetTypes'
    <2>1. \A q \in TargetsMade : TargetRow(target'[q]) BY <1>4 DEF TargetTypes
    <2>2. ASSUME NEW q \in TargetsMade, target'[q] # T!Absent
          PROVE was'[q][target'[q].version].name = target'[q].name
      <3>1. CASE q = t BY <1>4, <1>5, <3>1
      <3>2. CASE q # t
        <4>1. target'[q] = target[q] /\ target[q].version \in 1 .. LastOfTarget
          BY <1>4, <2>2, <3>2, <1>7 DEF TargetTypes, TargetRow
        <4> QED BY <1>5, <2>2, <3>2, <4>1 DEF TargetTypes
      <3> QED BY <3>1, <3>2
    <2>3. ASSUME NEW q \in Retargeting PROVE ChangeHolds(changing[q])'
      <3>1. CASE q = r BY <1>2, <1>6, <1>10, <3>1 DEF ChangeHolds
      <3>2. CASE q # r
        <4>1. changing'[q] = changing[q] /\ ChangeHolds(changing[q])
          BY <1>6, <3>2 DEF TargetTypes
        <4> QED BY <4>1, <1>8, <1>9 DEF ChangeHolds
      <3> QED BY <3>1, <3>2
    <2>4. \A d \in announcements' : EventHolds(d)' BY <1>1, <1>8 DEF TargetTypes
    <2>5. /\ target' = [q \in TargetsMade |-> target'[q]]
          /\ changing' = [q \in Retargeting |-> changing'[q]]
          /\ lost' \subseteq TargetsMade \X (1 .. LastOfTarget)
      BY <1>1 DEF TargetTypes
    <2> QED BY <1>5, <2>1, <2>2, <2>3, <2>4, <2>5 DEF TargetTypes
  <1>12. \A q \in Retargeting : changing[q].step = "telling" => EventHolds(changing[q].event)
    BY DEF TargetTypes, ChangeHolds
  <1>13. EventsApart'
    <2>1. \A d \in announcements' : ~SameVersion(d, e) BY <1>1, <1>8 DEF TargetTypes
    <2>2. \A q \in Retargeting \ {r} : changing'[q].step = "telling" =>
            /\ ~SameVersion(changing'[q].event, e) /\ changing'[q] = changing[q]
      BY <1>6, <1>8, <1>12
    <2>3. \A c, d : SameVersion(c, d) => SameVersion(d, c) BY DEF SameVersion
    <2> QED BY <1>1, <1>2, <1>6, <2>1, <2>2, <2>3 DEF EventsApart
  <1>14. AllAccounted'
    <2> SUFFICES ASSUME NEW q \in TargetsMade, NEW w \in 1 .. target'[q].version
                 PROVE  VersionAccounted(q, w)'
      BY DEF AllAccounted
    <2>1. CASE q = t /\ w = v
      <3>1. changing'[r].step = "telling" /\ changing'[r].event.target = q
            /\ changing'[r].event.version = w
        BY <1>2, <1>6, <2>1
      <3> QED BY <3>1 DEF VersionAccounted
    <2>2. CASE ~(q = t /\ w = v)
      <3>1. w \in 1 .. target[q].version BY <1>3, <1>4, <1>7, <2>2
      <3>2. VersionAccounted(q, w) BY <3>1 DEF AllAccounted
      <3>3. \A p \in Retargeting : changing[p].step = "telling" => changing'[p] = changing[p]
        BY <1>6
      <3> QED BY <1>1, <3>2, <3>3 DEF VersionAccounted
    <2> QED BY <2>1, <2>2
  <1>15. T!NamesAreTheirOwn'
    BY <1>4 DEF T!NamesAreTheirOwn, T!LiveTargets, T!Live, T!NameFree
  <1> QED BY <1>11, <1>13, <1>14, <1>15

\* Steps of a request that store nothing.
LEMMA TellingLasts ==
    ASSUME TargetTypes, UNCHANGED <<target, was>>
    PROVE  /\ \A e : EventHolds(e) => EventHolds(e)'
           /\ \A j : ReadHolds(j) => ReadHolds(j)'
  BY DEF EventHolds, ReadHolds

LEMMA ReadsKeepTargets ==
    ASSUME TargetInv, NEW r \in Retargeting, NEW t \in TargetsMade, NEW act, NEW nexts,
           T!ByID(r, t, act, nexts),
           \A next \in nexts : /\ TargetRow(next) /\ next.status # "absent"
                               /\ next.version = target[t].version + 1
    PROVE  TargetInv'
  <1> USE DEF TargetInv
  <1>1. /\ changing[r] = T!Idle /\ target[t] # T!Absent
        /\ UNCHANGED <<target, announcements, was, lost>>
    BY DEF T!ByID
  <1>2. PICK next \in nexts : changing' = [changing EXCEPT ![r] =
             [step |-> "read", of |-> t, act |-> act, held |-> target[t], next |-> next]]
    BY DEF T!ByID
  <1> DEFINE j == [step |-> "read", of |-> t, act |-> act, held |-> target[t], next |-> next]
  <1>3. \A q \in Retargeting : changing'[q] = IF q = r THEN j ELSE changing[q]
    BY <1>2 DEF TargetTypes
  <1>4. j.step = "read" /\ j.of = t /\ j.held = target[t] /\ j.next = next OBVIOUS
  <1> HIDE DEF j
  <1>5. /\ target[t] \in TargetRows /\ target[t].version \in 1 .. target[t].version
        /\ target[t].name = was[t][target[t].version].name
    BY <1>1, TargetsAssumption DEF TargetTypes, TargetRow, TargetRows
  <1>6. ReadHolds(j) BY <1>4, <1>5 DEF ReadHolds
  <1>7. TargetTypes'
    <2>1. \A q \in Retargeting : ChangeHolds(changing[q])'
      BY <1>1, <1>3, <1>4, <1>6, TellingLasts DEF TargetTypes, ChangeHolds
    <2> QED BY <1>1, <1>2, <2>1, TellingLasts DEF TargetTypes
  <1>8. EventsApart' BY <1>1, <1>3, <1>4 DEF EventsApart, T!Idle
  <1>9. AllAccounted'
    <2>1. \A q \in Retargeting : changing[q].step = "telling" => changing'[q] = changing[q]
      BY <1>1, <1>3 DEF T!Idle
    <2> QED BY <1>1, <2>1 DEF AllAccounted, VersionAccounted
  <1>10. T!NamesAreTheirOwn' BY <1>1 DEF T!NamesAreTheirOwn, T!LiveTargets, T!Live
  <1> QED BY <1>7, <1>8, <1>9, <1>10

\* What becomes of a row has the next version.
LEMMA NextTargetRow ==
    ASSUME NEW held, TargetRow(held), held # T!Absent, held.version < LastOfTarget,
           NEW next,
           \/ next \in T!Archive(held) \/ next \in T!Reopen(held)
           \/ \E name \in TargetNames : next \in T!Rename(held, name)
    PROVE  TargetRow(next) /\ next.status # "absent" /\ next.version = held.version + 1
  <1>1. /\ held \in TargetRows /\ held.version \in Nat /\ held.version # 0
        /\ held.version + 1 \in 0 .. LastOfTarget /\ held.version + 1 # 0
        /\ held.status # "absent"
    BY TargetsAssumption DEF TargetRow, TargetRows
  <1>2. ASSUME NEW name \in TargetNames, next \in T!Rename(held, name)
        PROVE  TargetRow(next) /\ next.status # "absent" /\ next.version = held.version + 1
    <2> DEFINE a == [held EXCEPT !.name = name]
               b == [a EXCEPT !.version = @ + 1]
    <2>1. a \in TargetRows /\ a.status = held.status /\ a.version = held.version
      BY <1>1 DEF TargetRows
    <2>2. next = b BY <1>2 DEF T!Rename, a, b
    <2> HIDE DEF a
    <2>3. b \in TargetRows /\ b.status = held.status /\ b.version = held.version + 1
      BY <1>1, <2>1 DEF TargetRows
    <2> HIDE DEF b
    <2> QED BY <1>1, <2>2, <2>3 DEF TargetRow
  <1>3. ASSUME NEW becomes \in {"active", "archived"},
               next = [held EXCEPT !.status = becomes, !.version = @ + 1]
        PROVE  TargetRow(next) /\ next.status # "absent" /\ next.version = held.version + 1
    <2> DEFINE a == [held EXCEPT !.status = becomes]
               b == [a EXCEPT !.version = @ + 1]
    <2>1. a \in TargetRows /\ a.status = becomes /\ a.version = held.version
      BY <1>1 DEF TargetRows
    <2>2. next = b BY <1>3 DEF a, b
    <2> HIDE DEF a
    <2>3. b \in TargetRows /\ b.status = becomes /\ b.version = held.version + 1
      BY <1>1, <2>1 DEF TargetRows
    <2> HIDE DEF b
    <2> QED BY <1>1, <2>2, <2>3 DEF TargetRow
  <1> QED BY <1>2, <1>3 DEF T!Archive, T!Reopen

LEMMA AddsKeepTargets ==
    ASSUME TargetInv, NEW r \in Retargeting, NEW t \in TargetsMade, NEW name \in TargetNames,
           T!addTarget(r, t, name)
    PROVE  TargetInv'
  <1>1. /\ changing[r].step # "telling" /\ target[t].version = 0
        /\ T!NameFree(t, name) /\ T!Stores(r, t, T!New(name), "added", T!None)
    BY DEF T!addTarget, T!InsertTarget, T!Idle, T!Absent
  <1>2. /\ TargetRow(T!New(name)) /\ T!New(name).status # "absent" /\ T!New(name).version = 1
        /\ T!New(name).name = name
    BY TargetsAssumption DEF T!New, TargetRow, TargetRows
  <1> DEFINE next == T!New(name)
  <1> HIDE DEF next
  <1>3. next.version = target[t].version + 1 BY <1>1, <1>2 DEF next
  <1> QED BY <1>1, <1>2, <1>3, StoresKeepsTargets DEF next

LEMMA AsksKeepTargets ==
    ASSUME TargetInv, NEW r \in Retargeting, NEW t \in TargetsMade,
           \/ T!archiveTarget(r, t) \/ T!reopenTarget(r, t)
           \/ \E name \in TargetNames : T!renameTarget(r, t, name)
    PROVE  TargetInv'
  <1> DEFINE Nexts(s) == /\ \A n \in s : /\ TargetRow(n) /\ n.status # "absent"
                                        /\ n.version = target[t].version + 1
  <1>1. TargetRow(target[t]) BY DEF TargetInv, TargetTypes
  <1>2. target[t] # T!Absent /\ target[t].version < LastOfTarget
    BY DEF T!archiveTarget, T!reopenTarget, T!renameTarget, T!ByID
  <1>3. /\ \A n \in T!Archive(target[t]) : TargetRow(n) /\ n.status # "absent"
                                          /\ n.version = target[t].version + 1
        /\ \A n \in T!Reopen(target[t]) : TargetRow(n) /\ n.status # "absent"
                                          /\ n.version = target[t].version + 1
        /\ \A name \in TargetNames : \A n \in T!Rename(target[t], name) :
                TargetRow(n) /\ n.status # "absent" /\ n.version = target[t].version + 1
    BY <1>1, <1>2, NextTargetRow
  <1>4. CASE T!archiveTarget(r, t) BY <1>3, <1>4, ReadsKeepTargets DEF T!archiveTarget
  <1>5. CASE T!reopenTarget(r, t) BY <1>3, <1>5, ReadsKeepTargets DEF T!reopenTarget
  <1>6. ASSUME NEW name \in TargetNames, T!renameTarget(r, t, name) PROVE TargetInv'
    BY <1>3, <1>6, ReadsKeepTargets DEF T!renameTarget
  <1> QED BY <1>4, <1>5, <1>6

LEMMA SavesKeepTargets ==
    ASSUME TargetInv, NEW r \in Retargeting, T!Save(r)
    PROVE  TargetInv'
  <1> DEFINE j == changing[r]
             t == j.of
             next == j.next
             stored == [next EXCEPT !.root = target[t].root]
  <1>1. /\ j.step = "read" /\ target[t].version = next.version - 1
        /\ next.status = "active" => T!NameFree(t, next.name)
        /\ T!Stores(r, t, stored, j.act, j.held.name)
    BY DEF T!Save, T!Saves, T!UpdateTarget
  <1>2. ReadHolds(j) BY <1>1 DEF TargetInv, TargetTypes, ChangeHolds
  <1>3. /\ t \in TargetsMade /\ TargetRow(next) /\ next.status # "absent"
        /\ next.version = j.held.version + 1 /\ j.held.version \in Nat /\ next.version \in Nat
        /\ j.held.version # 0 /\ j.held.name = was[t][j.held.version].name
    BY <1>2, TargetsAssumption DEF ReadHolds, TargetRow, TargetRows
  <1>4. target[t] \in TargetRows /\ target[t].version \in Nat
    BY <1>3, TargetsAssumption DEF TargetInv, TargetTypes, TargetRow, TargetRows
  <1>5. target[t].root \in RootsMade \cup {T!None} /\ next \in TargetRows
    BY <1>3, <1>4 DEF TargetRow, TargetRows
  <1>6. /\ stored \in TargetRows /\ stored.version = next.version /\ stored.status = next.status
        /\ stored.name = next.name
    BY <1>5 DEF TargetRows
  <1> HIDE DEF stored
  <1>7. TargetRow(stored) /\ stored.status # "absent" BY <1>3, <1>6 DEF TargetRow
  <1>8. /\ stored.version = target[t].version + 1 /\ j.held.name = was[t][stored.version - 1].name
    BY <1>1, <1>3, <1>4, <1>6
  <1> HIDE DEF j
  <1> QED BY <1>1, <1>3, <1>6, <1>7, <1>8, StoresKeepsTargets DEF j

\* A request that is through: what it had to tell is told, or lost.
LEMMA EndsKeepTargets ==
    ASSUME TargetInv, NEW r \in Retargeting, T!Refused(r) \/ T!emit(r) \/ T!Die(r)
    PROVE  TargetInv'
  <1> USE DEF TargetInv
  <1> DEFINE e == changing[r].event
  <1>1. /\ changing' = [changing EXCEPT ![r] = T!Done] /\ UNCHANGED <<target, was>>
        /\ \/ changing[r].step # "telling" /\ UNCHANGED <<announcements, lost>>
           \/ /\ changing[r].step = "telling" /\ lost' = lost
              /\ announcements' = announcements \cup {e}
           \/ /\ changing[r].step = "telling" /\ announcements' = announcements
              /\ lost' = lost \cup {<<e.target, e.version>>}
    BY DEF T!Refused, T!emit, T!Die
  <1>2. \A q \in Retargeting : changing'[q] = IF q = r THEN T!Done ELSE changing[q]
    BY <1>1 DEF TargetTypes
  <1>3. changing[r].step = "telling" => EventHolds(e) BY DEF TargetTypes, ChangeHolds
  <1>4. T!Done.step = "done" BY DEF T!Done
  <1>5. TargetTypes'
    <2>1. \A q \in Retargeting : ChangeHolds(changing[q])'
      BY <1>1, <1>2, <1>4, TellingLasts DEF TargetTypes, ChangeHolds
    <2>2. \A d \in announcements' : EventHolds(d)' BY <1>1, <1>3, TellingLasts DEF TargetTypes
    <2>3. lost' \subseteq TargetsMade \X (1 .. LastOfTarget)
      <3>1. changing[r].step = "telling" => e.target \in TargetsMade /\ e.version \in 1 .. LastOfTarget
        BY <1>3, TargetsAssumption DEF EventHolds, TargetTypes, TargetRow, TargetRows
      <3> QED BY <1>1, <3>1 DEF TargetTypes
    <2>4. changing' = [q \in Retargeting |-> changing'[q]] BY <1>1 DEF TargetTypes
    <2> QED BY <1>1, <2>1, <2>2, <2>3, <2>4 DEF TargetTypes
  <1>6. EventsApart'
    <2>1. \A q \in Retargeting : changing'[q].step = "telling" => q # r /\ changing'[q] = changing[q]
      BY <1>2, <1>4
    <2>2. \A c, d : SameVersion(c, d) => SameVersion(d, c) BY DEF SameVersion
    <2> QED BY <1>1, <2>1, <2>2 DEF EventsApart
  <1>7. AllAccounted'
    <2> SUFFICES ASSUME NEW t \in TargetsMade, NEW v \in 1 .. target[t].version
                 PROVE  VersionAccounted(t, v)'
      BY <1>1 DEF AllAccounted
    <2>1. VersionAccounted(t, v) BY DEF AllAccounted
    <2>2. CASE changing[r].step = "telling" /\ e.target = t /\ e.version = v
      BY <1>1, <2>2 DEF VersionAccounted
    <2>3. CASE ~(changing[r].step = "telling" /\ e.target = t /\ e.version = v)
      BY <1>1, <1>2, <2>1, <2>3 DEF VersionAccounted
    <2> QED BY <2>2, <2>3
  <1>8. T!NamesAreTheirOwn' BY <1>1 DEF T!NamesAreTheirOwn, T!LiveTargets, T!Live
  <1> QED BY <1>5, <1>6, <1>7, <1>8

LEMMA RootKeepsTargets ==
    ASSUME TargetInv, NEW t \in TargetsMade, NEW entity \in RootsMade, T!SetRootEntity(t, entity)
    PROVE  TargetInv'
  <1> USE DEF TargetInv
  <1> DEFINE new == [target[t] EXCEPT !.root = entity]
  <1>1. /\ target[t] # T!Absent /\ target' = [target EXCEPT ![t].root = entity]
        /\ UNCHANGED <<changing, announcements, was, lost>>
    BY DEF T!SetRootEntity
  <1>2. \A q \in TargetsMade : target'[q] = IF q = t THEN new ELSE target[q]
    BY <1>1 DEF TargetTypes
  <1>3. TargetRow(target[t]) BY DEF TargetTypes
  <1>4. /\ new \in TargetRows /\ new.version = target[t].version /\ new.name = target[t].name
        /\ new.status = target[t].status
    BY <1>3 DEF TargetRow, TargetRows
  <1> HIDE DEF new
  <1>5. TargetRow(new) BY <1>1, <1>3, <1>4 DEF TargetRow
  <1>6. \A q \in TargetsMade : /\ target'[q].version = target[q].version
                               /\ target'[q].name = target[q].name
                               /\ target'[q].status = target[q].status
                               /\ target'[q] # T!Absent => target[q] # T!Absent
    BY <1>1, <1>2, <1>4
  <1>7. /\ \A e : EventHolds(e) => EventHolds(e)'
        /\ \A j : ReadHolds(j) => ReadHolds(j)'
    BY <1>1, <1>6 DEF EventHolds, ReadHolds
  <1>8. TargetTypes'
    <2>1. \A q \in Retargeting : ChangeHolds(changing[q])'
      BY <1>1, <1>7 DEF TargetTypes, ChangeHolds
    <2>2. \A q \in TargetsMade : TargetRow(target'[q]) BY <1>2, <1>5 DEF TargetTypes
    <2>3. \A q \in TargetsMade : target'[q] # T!Absent =>
              was'[q][target'[q].version].name = target'[q].name
      BY <1>1, <1>6 DEF TargetTypes
    <2>4. \A e \in announcements' : EventHolds(e)' BY <1>1, <1>7 DEF TargetTypes
    <2>5. target' = [q \in TargetsMade |-> target'[q]] BY <1>1 DEF TargetTypes
    <2> QED BY <1>1, <2>1, <2>2, <2>3, <2>4, <2>5 DEF TargetTypes
  <1>9. EventsApart' BY <1>1 DEF EventsApart
  <1>10. AllAccounted' BY <1>1, <1>6 DEF AllAccounted, VersionAccounted
  <1>11. T!NamesAreTheirOwn' BY <1>6 DEF T!NamesAreTheirOwn, T!LiveTargets, T!Live
  <1> QED BY <1>8, <1>9, <1>10, <1>11

LEMMA TargetsBegin == T!Init => TargetInv
  <1> SUFFICES ASSUME T!Init PROVE TargetInv OBVIOUS
  <1>1. T!Absent \in TargetRows /\ T!Absent.version = 0 /\ T!Absent.status = "absent"
    BY TargetsAssumption DEF T!Absent, TargetRows
  <1>2. TargetTypes
    BY <1>1 DEF T!Init, T!NoVersion, T!Idle, TargetTypes, TargetRow, ChangeHolds
  <1>3. EventsApart /\ AllAccounted BY <1>1 DEF T!Init, T!Idle, EventsApart, AllAccounted
  <1>4. T!NamesAreTheirOwn BY <1>1 DEF T!Init, T!NamesAreTheirOwn, T!LiveTargets, T!Live
  <1> QED BY <1>2, <1>3, <1>4 DEF TargetInv

LEMMA TargetStep == ASSUME TargetInv, T!Next PROVE TargetInv'
  BY AddsKeepTargets, AsksKeepTargets, SavesKeepTargets, EndsKeepTargets, RootKeepsTargets
     DEF T!Next

LEMMA TargetsStutter == ASSUME TargetInv, UNCHANGED aimed PROVE TargetInv'
  BY DEF aimed, TargetInv, TargetTypes, ChangeHolds, EventHolds, ReadHolds, EventsApart,
         AllAccounted, VersionAccounted, T!NamesAreTheirOwn, T!LiveTargets, T!Live

LEMMA TargetsStart == KnowingInit => TargetInv
  BY TargetsBegin DEF KnowingInit

LEMMA TargetsLast == TargetInv /\ [KnowingNext]_all => TargetInv'
  <1> SUFFICES ASSUME TargetInv, [KnowingNext]_all PROVE TargetInv' OBVIOUS
  <1>1. T!Next \/ UNCHANGED aimed BY DEF KnowingNext, all
  <1> QED BY <1>1, TargetStep, TargetsStutter

LEMMA TargetsAreTrue == TargetInv => T!TypeOK /\ T!EventsAreTheHistory /\ T!NamesAreTheirOwn
  <1> SUFFICES ASSUME TargetInv PROVE T!TypeOK /\ T!EventsAreTheHistory
    BY DEF TargetInv
  <1> USE DEF TargetInv
  <1>1. T!TypeOK
    <2>1. \A e \in announcements : e.target \in TargetsMade /\ e.version \in 1 .. LastOfTarget
      BY TargetsAssumption DEF TargetTypes, EventHolds, TargetRow, TargetRows
    <2>2. target \in [TargetsMade -> TargetRows] BY DEF TargetTypes, TargetRow
    <2> QED BY <2>1, <2>2 DEF TargetTypes, ChangeHolds, TargetRows, T!TypeOK
  <1>2. T!EventsAreTheHistory
    BY DEF TargetTypes, EventHolds, EventsApart, SameVersion, AllAccounted, VersionAccounted, T!Telling,
           T!EventsAreTheHistory
  <1> QED BY <1>1, <1>2

\* A save writes every column but the root.
LEMMA RootsAreKept == ASSUME TargetInv, T!Next PROVE T!RootIsKept
  <1> SUFFICES ASSUME NEW t \in TargetsMade, target[t].root # T!None
               PROVE  target'[t].root = target[t].root
    BY DEF T!RootIsKept
  <1>1. target = [q \in TargetsMade |-> target[q]] /\ TargetRow(target[t])
    BY DEF TargetInv, TargetTypes
  <1>2. ASSUME NEW r \in Retargeting, NEW q \in TargetsMade, NEW name, T!addTarget(r, q, name)
        PROVE  target'[t].root = target[t].root
    BY <1>1, <1>2 DEF T!addTarget, T!InsertTarget, T!Stores, T!Absent
  <1>3. ASSUME NEW r \in Retargeting, T!Save(r) PROVE target'[t].root = target[t].root
    <2> DEFINE next == changing[r].next
    <2>1. ReadHolds(changing[r]) BY <1>3 DEF T!Save, TargetInv, TargetTypes, ChangeHolds
    <2>2. next \in TargetRows BY <2>1 DEF ReadHolds, TargetRow
    <2>3. target' = [target EXCEPT ![changing[r].of] = [next EXCEPT !.root = target[changing[r].of].root]]
      BY <1>3 DEF T!Save, T!Stores, T!UpdateTarget
    <2>4. \A x : [next EXCEPT !.root = x].root = x BY <2>2 DEF TargetRows
    <2> HIDE DEF next
    <2> QED BY <1>1, <2>3, <2>4
  <1>4. ASSUME NEW q \in TargetsMade, NEW entity \in RootsMade, T!SetRootEntity(q, entity)
        PROVE  target'[t].root = target[t].root
    BY <1>1, <1>4 DEF T!SetRootEntity
  <1>5. ASSUME NEW r, T!Refused(r) \/ T!emit(r) \/ T!Die(r) PROVE target' = target
    BY <1>5 DEF T!Refused, T!emit, T!Die
  <1>6. ASSUME NEW r, NEW q, \/ T!archiveTarget(r, q) \/ T!reopenTarget(r, q)
                             \/ \E name : T!renameTarget(r, q, name)
        PROVE  target' = target
    BY <1>6 DEF T!archiveTarget, T!reopenTarget, T!renameTarget, T!ByID
  <1> QED BY <1>2, <1>3, <1>4, <1>5, <1>6 DEF T!Next
-----------------------------------------------------------------------------
(* The mappings.                                                           *)
(*                                                                         *)
(* No row is removed, so the draft that a promotion has read is there when *)
(* it is written; what it retires is of its own field.                     *)

MappingRows == [field : FieldsMapped, version : 1 .. LastOfField, role : RolesMapped,
                state : M!States]
IsMapped(m) == \E n \in mapping : M!Key(n) = M!Key(m)
PromotionHolds(j) ==
    /\ j.step \in {"idle", "drafting", "inserting", "drafted", "promoting", "retiring", "done"}
    /\ j.step = "drafting" => j.field \in FieldsMapped /\ j.role \in RolesMapped
    /\ j.step \in {"inserting", "drafted", "promoting", "retiring"} =>
          j.of \in MappingRows /\ j.of.state = "draft"
    /\ j.step = "promoting" => IsMapped(j.of)
    /\ j.step = "retiring" =>
          /\ j.fresh \in BOOLEAN /\ (~j.fresh => IsMapped(j.of))
          /\ \A k \in j.incumbent : k[1] = j.of.field

MappingTypes ==
    /\ mapping \subseteq MappingRows
    /\ consumes \in BOOLEAN /\ standing \in {"absent", "live", "archived"}
    /\ served \subseteq FieldsMapped /\ crossed \in BOOLEAN
    /\ promoting = [r \in Promoters |-> promoting[r]]
    /\ \A r \in Promoters : PromotionHolds(promoting[r])
MappingInv == MappingTypes /\ M!OneLiveVersion

\* A set of numbers that has a bound has a largest.
LEMMA LargestOfBounded ==
    ASSUME NEW top \in Nat, NEW S, S \subseteq 0 .. top, S # {}
    PROVE  \E v \in S : \A w \in S : w <= v
  <1> DEFINE Tails == {v + 1 .. top : v \in S}
  <1>1. Tails \subseteq FiniteSubsetsOf(0 .. top + 1)
    <2> SUFFICES ASSUME NEW v \in S PROVE v + 1 .. top \in FiniteSubsetsOf(0 .. top + 1) OBVIOUS
    <2>1. IsFiniteSet(v + 1 .. top) BY FS_Interval
    <2> QED BY <2>1 DEF FiniteSubsetsOf
  <1>2. Tails # {} OBVIOUS
  <1>3. PICK Least \in Tails : \A U \in Tails : ~(<<U, Least>> \in StrictSubsetOrdering(0 .. top + 1))
    BY <1>1, <1>2, FS_StrictSubsetOrderingWellFounded, WFMin
  <1>4. PICK v \in S : Least = v + 1 .. top BY <1>3
  <1>5. ASSUME NEW w \in S, ~(w <= v) PROVE FALSE
    <2>1. /\ w + 1 .. top \subseteq v + 1 .. top /\ w \in v + 1 .. top /\ w \notin w + 1 .. top
          /\ v + 1 .. top \subseteq 0 .. top + 1
      BY <1>5
    <2>2. <<w + 1 .. top, v + 1 .. top>> \in StrictSubsetOrdering(0 .. top + 1)
      BY <2>1 DEF StrictSubsetOrdering
    <2> QED BY <1>3, <1>4, <2>2
  <1> QED BY <1>5

LEMMA NewestIsOne ==
    ASSUME MappingTypes, NEW f \in FieldsMapped
    PROVE  M!Newest(f) \in 0 .. LastOfField /\ \A w \in M!Versions(f) : w <= M!Newest(f)
  <1> DEFINE Numbers == {0} \cup M!Versions(f)
  <1>1. M!Versions(f) \subseteq 1 .. LastOfField
    BY DEF MappingTypes, MappingRows, M!Versions
  <1>2. Numbers \subseteq 0 .. LastOfField /\ Numbers # {} /\ LastOfField \in Nat
    BY <1>1, MappingsAssumption
  <1> HIDE DEF Numbers
  <1>3. \E v \in Numbers : \A w \in Numbers : w <= v BY <1>2, LargestOfBounded
  <1> USE DEF Numbers
  <1>4. \E v \in Numbers : \A w \in M!Versions(f) : w <= v BY <1>3
  <1> QED BY <1>2, <1>4 DEF M!Newest

\* What the statement on states leaves of the rows.
StatesSet(out, rows, keys, state) ==
    /\ out \subseteq MappingRows
    /\ \A n \in out : \E m \in rows :
          /\ M!Key(n) = M!Key(m) /\ n.field = m.field
          /\ n.state = IF M!Key(m) \in keys THEN state ELSE m.state
    /\ \A m \in rows : \E n \in out :
          /\ M!Key(n) = M!Key(m) /\ n.field = m.field
          /\ n.state = IF M!Key(m) \in keys THEN state ELSE m.state

LEMMA RowsOfStates ==
    ASSUME NEW rows \in SUBSET MappingRows, NEW keys, NEW state \in M!States
    PROVE  StatesSet(M!SetMappingState(rows, keys, state), rows, keys, state)
  <1>1. ASSUME NEW m \in rows
        PROVE  /\ [m EXCEPT !.state = state] \in MappingRows
               /\ M!Key([m EXCEPT !.state = state]) = M!Key(m)
               /\ [m EXCEPT !.state = state].field = m.field
               /\ [m EXCEPT !.state = state].state = state
    BY DEF MappingRows, M!Key
  <1> QED BY <1>1 DEF M!SetMappingState, StatesSet

LEMMA KeysOfStates ==
    ASSUME NEW rows \in SUBSET MappingRows, NEW keys, NEW state \in M!States,
           \A m, n \in rows : M!Key(m) = M!Key(n) => m = n
    PROVE  \A m, n \in M!SetMappingState(rows, keys, state) : M!Key(m) = M!Key(n) => m = n
  <1> DEFINE to(m) == IF M!Key(m) \in keys THEN [m EXCEPT !.state = state] ELSE m
  <1> SUFFICES ASSUME NEW a \in rows, NEW b \in rows, M!Key(to(a)) = M!Key(to(b))
               PROVE  to(a) = to(b)
    BY DEF M!SetMappingState
  <1>1. \A m \in rows : M!Key(to(m)) = M!Key(m) BY DEF MappingRows, M!Key
  <1> HIDE DEF to
  <1>2. a = b BY <1>1
  <1> QED BY <1>2

\* A row of a number that was not used.
LEMMA NumberedIsNew ==
    ASSUME NEW m, M!Numbered(m), NEW n \in mapping
    PROVE  M!Key(n) # M!Key(m)
  BY DEF M!Numbered, M!Versions, M!Key

LEMMA OnePromotion ==
    ASSUME MappingTypes, NEW r \in Promoters, NEW j, promoting' = [promoting EXCEPT ![r] = j],
           PromotionHolds(j)',
           \A m \in mapping : \E n \in mapping' : M!Key(n) = M!Key(m)
    PROVE  /\ promoting' = [q \in Promoters |-> promoting'[q]]
           /\ \A q \in Promoters : PromotionHolds(promoting[q])'
  <1>1. \A q \in Promoters : promoting'[q] = IF q = r THEN j ELSE promoting[q]
    BY DEF MappingTypes
  <1>2. \A k : PromotionHolds(k) => PromotionHolds(k)'
    BY DEF PromotionHolds, IsMapped
  <1> QED BY <1>1, <1>2 DEF MappingTypes

\* Steps that write no row.
LEMMA QuietPromotion ==
    ASSUME MappingInv, NEW r \in Promoters, NEW j, promoting' = [promoting EXCEPT ![r] = j],
           PromotionHolds(j), UNCHANGED <<mapping, consumes, standing, served, crossed>>
    PROVE  MappingInv'
  <1>1. PromotionHolds(j)' BY DEF PromotionHolds, IsMapped
  <1>2. MappingTypes' BY <1>1, OnePromotion DEF MappingInv, MappingTypes
  <1>3. M!OneLiveVersion' BY DEF MappingInv, M!OneLiveVersion, M!Live
  <1> QED BY <1>2, <1>3 DEF MappingInv

LEMMA QuietMappings ==
    ASSUME MappingInv, NEW r \in Promoters,
           \/ \E f \in FieldsMapped, role \in RolesMapped, p \in BOOLEAN : M!addMapping(r, f, role, p)
           \/ M!NextVersion(r) \/ M!LiveMapping(r) \/ M!Fails(r)
           \/ \E m \in mapping : M!promoteMapping(r, m)
    PROVE  MappingInv'
  <1> USE DEF MappingInv
  <1>1. ASSUME NEW f \in FieldsMapped, NEW role \in RolesMapped, NEW p \in BOOLEAN,
               M!addMapping(r, f, role, p)
        PROVE  MappingInv'
    <2>1. PromotionHolds(M!Draft(f, role, p)) BY DEF M!Draft, PromotionHolds
    <2> QED BY <1>1, <2>1, QuietPromotion DEF M!addMapping
  <1>2. CASE M!NextVersion(r)
    <2> DEFINE f == promoting[r].field
               m == M!NewMapping(f, M!Newest(f) + 1, promoting[r].role)
               j == [step |-> IF promoting[r].promote THEN "drafted" ELSE "inserting", of |-> m]
    <2>1. f \in FieldsMapped /\ promoting[r].role \in RolesMapped /\ M!Newest(f) < LastOfField
      BY <1>2 DEF M!NextVersion, MappingTypes, PromotionHolds
    <2>2. M!Newest(f) + 1 \in 1 .. LastOfField BY <2>1, NewestIsOne, MappingsAssumption
    <2>3. m \in MappingRows /\ m.state = "draft"
      BY <2>1, <2>2 DEF M!NewMapping, MappingRows, M!States
    <2>4. promoting' = [promoting EXCEPT ![r] = j] /\ UNCHANGED <<mapping, consumes, standing, served, crossed>>
      BY <1>2 DEF M!NextVersion
    <2> HIDE DEF m
    <2>5. PromotionHolds(j) BY <2>3 DEF PromotionHolds
    <2> HIDE DEF j
    <2> QED BY <2>4, <2>5, QuietPromotion
  <1>3. CASE M!LiveMapping(r)
    <2> DEFINE old == promoting[r]
               keys == {M!Key(m) : m \in M!Live(old.of.field)}
               j == [step |-> "retiring", of |-> old.of, fresh |-> old.step = "drafted",
                     incumbent |-> keys]
    <2>1. /\ old.step \in {"drafted", "promoting"} /\ promoting' = [promoting EXCEPT ![r] = j]
          /\ UNCHANGED <<mapping, consumes, standing, served, crossed>>
      BY <1>3 DEF M!LiveMapping
    <2>2. /\ old.of \in MappingRows /\ old.of.state = "draft"
          /\ old.step # "drafted" => IsMapped(old.of)
      BY <2>1 DEF MappingTypes, PromotionHolds
    <2>3. \A k \in keys : k[1] = old.of.field BY DEF M!Live, M!Key
    <2>4. PromotionHolds(j) BY <2>2, <2>3 DEF PromotionHolds
    <2> HIDE DEF j
    <2> QED BY <2>1, <2>4, QuietPromotion
  <1>4. CASE M!Fails(r)
    <2>1. PromotionHolds(M!Done) BY DEF M!Done, PromotionHolds
    <2> QED BY <1>4, <2>1, QuietPromotion DEF M!Fails
  <1>5. ASSUME NEW m \in mapping, M!promoteMapping(r, m) PROVE MappingInv'
    <2>1. m \in MappingRows /\ m.state = "draft" /\ IsMapped(m)
      BY <1>5 DEF M!promoteMapping, M!MayPromote, MappingTypes, IsMapped
    <2>2. PromotionHolds(M!Promote(m)) BY <2>1 DEF M!Promote, PromotionHolds
    <2> QED BY <1>5, <2>2, QuietPromotion DEF M!promoteMapping
  <1> QED BY <1>1, <1>2, <1>3, <1>4, <1>5

LEMMA CreatesKeepMappings ==
    ASSUME MappingInv, NEW r \in Promoters, M!CreateMapping(r)
    PROVE  MappingInv'
  <1> USE DEF MappingInv
  <1> DEFINE m == promoting[r].of
  <1>1. /\ M!Numbered(m) /\ mapping' = mapping \cup {m} /\ promoting[r].step = "inserting"
        /\ promoting' = [promoting EXCEPT ![r] = M!Done]
        /\ UNCHANGED <<consumes, standing, served, crossed>>
    BY DEF M!CreateMapping
  <1>2. m \in MappingRows /\ m.state = "draft" BY <1>1 DEF MappingTypes, PromotionHolds
  <1> HIDE DEF m
  <1>3. PromotionHolds(M!Done)' BY DEF M!Done, PromotionHolds
  <1>4. MappingTypes' BY <1>1, <1>2, <1>3, OnePromotion DEF MappingTypes
  <1>5. M!OneLiveVersion'
    <2>1. \A k, n \in mapping' : M!Key(k) = M!Key(n) => k = n
      BY <1>1, NumberedIsNew DEF M!OneLiveVersion
    <2>2. {k \in mapping' : k.state = "live"} = {k \in mapping : k.state = "live"} BY <1>1, <1>2
    <2>3. M!FitsIndexes(mapping)' BY <2>2 DEF M!OneLiveVersion, M!FitsIndexes
    <2>4. \A f \in served' : M!Live(f)' # {} BY <1>1 DEF M!OneLiveVersion, M!Live
    <2> QED BY <2>1, <2>3, <2>4 DEF M!OneLiveVersion
  <1> QED BY <1>4, <1>5

\* What a promotion leaves of the rows.
LEMMA PromotedRows ==
    ASSUME MappingInv, NEW r \in Promoters, M!promote(r)
    PROVE  /\ M!Promoted(r) \subseteq MappingRows
           /\ \A m \in mapping : \E n \in M!Promoted(r) :
                 /\ M!Key(n) = M!Key(m) /\ n.field = m.field
                 /\ m.field # promoting[r].of.field => n.state = m.state
           /\ \A m, n \in M!Promoted(r) : M!Key(m) = M!Key(n) => m = n
           /\ \E n \in M!Promoted(r) : n.field = promoting[r].of.field /\ n.state = "live"
           /\ \A m \in mapping, n \in M!Promoted(r) :
                 M!Key(m) = M!Key(n) /\ m.state = "retired" =>
                    \/ n.state = "retired"
                    \/ ~promoting[r].fresh /\ promoting[r].of \notin mapping
  <1> USE DEF MappingInv
  <1> DEFINE j == promoting[r]
             kept == M!Retired(r)
  <1>1. /\ j.step = "retiring" /\ (j.fresh => M!Numbered(j.of))
    BY DEF M!promote
  <1>2. /\ j.of \in MappingRows /\ j.of.state = "draft" /\ j.fresh \in BOOLEAN
        /\ ~j.fresh => IsMapped(j.of)
        /\ \A k \in j.incumbent : k[1] = j.of.field
    BY <1>1 DEF MappingTypes, PromotionHolds
  <1>3. /\ mapping \in SUBSET MappingRows /\ "retired" \in M!States /\ "live" \in M!States
        /\ \A m, n \in mapping : M!Key(m) = M!Key(n) => m = n
    BY DEF MappingTypes, M!States, M!OneLiveVersion
  <1>4. kept = M!SetMappingState(mapping, j.incumbent, "retired") BY DEF M!Retired
  <1>5. /\ kept \subseteq MappingRows
        /\ \A n \in kept : \E m \in mapping :
              /\ M!Key(n) = M!Key(m) /\ n.field = m.field
              /\ n.state = IF M!Key(m) \in j.incumbent THEN "retired" ELSE m.state
        /\ \A m \in mapping : \E n \in kept :
              /\ M!Key(n) = M!Key(m) /\ n.field = m.field
              /\ n.state = IF M!Key(m) \in j.incumbent THEN "retired" ELSE m.state
    BY <1>3, <1>4, RowsOfStates DEF StatesSet
  <1>6. \A m, n \in kept : M!Key(m) = M!Key(n) => m = n BY <1>3, <1>4, KeysOfStates
  <1>7. \A m \in mapping : M!Key(m)[1] = m.field BY DEF M!Key
  <1>8. \A m \in mapping, n \in kept : M!Key(m) = M!Key(n) /\ m.state = "retired" => n.state = "retired"
    BY <1>3, <1>5
  <1>9. \A m \in mapping : m.field # j.of.field => M!Key(m) \notin j.incumbent BY <1>2, <1>7
  <1>10. \A n \in kept : \E m \in mapping : M!Key(n) = M!Key(m) BY <1>5
  <1>11. \A m \in mapping : \E n \in kept :
              /\ M!Key(n) = M!Key(m) /\ n.field = m.field
              /\ m.field # j.of.field => n.state = m.state
    BY <1>5, <1>9
  <1> HIDE DEF kept
  <1>12. CASE j.fresh
    <2> DEFINE new == [j.of EXCEPT !.state = "live"]
    <2>1. new \in MappingRows /\ new.state = "live" /\ new.field = j.of.field /\ M!Key(new) = M!Key(j.of)
      BY <1>2 DEF MappingRows, M!States, M!Key
    <2>2. M!Promoted(r) = kept \cup {new} BY <1>12 DEF M!Promoted, kept
    <2> HIDE DEF new
    <2>3. \A m \in mapping : M!Key(m) # M!Key(new) BY <1>1, <1>12, <2>1, NumberedIsNew
    <2>4. \A n \in kept : M!Key(n) # M!Key(new) BY <1>10, <2>3
    <2> QED BY <1>5, <1>6, <1>8, <1>11, <2>1, <2>2, <2>3, <2>4
  <1>13. CASE ~j.fresh
    <2> DEFINE keys == {M!Key(j.of)}
    <2>1. M!Promoted(r) = M!SetMappingState(kept, keys, "live")
      BY <1>13 DEF M!Promoted, kept
    <2>2. kept \in SUBSET MappingRows BY <1>5
    <2> HIDE DEF keys
    <2>3. /\ M!Promoted(r) \subseteq MappingRows
          /\ \A n \in M!Promoted(r) : \E m \in kept :
                /\ M!Key(n) = M!Key(m) /\ n.field = m.field
                /\ n.state = IF M!Key(m) \in keys THEN "live" ELSE m.state
          /\ \A m \in kept : \E n \in M!Promoted(r) :
                /\ M!Key(n) = M!Key(m) /\ n.field = m.field
                /\ n.state = IF M!Key(m) \in keys THEN "live" ELSE m.state
      BY <1>3, <2>1, <2>2, RowsOfStates DEF StatesSet
    <2>4. \A m, n \in M!Promoted(r) : M!Key(m) = M!Key(n) => m = n
      BY <1>3, <1>6, <2>1, <2>2, KeysOfStates
    <2>5. \A m \in kept : m.field # j.of.field => M!Key(m) \notin keys
      BY <1>5 DEF keys, M!Key, MappingRows
    <2>6. \A m \in mapping : \E n \in M!Promoted(r) :
                 /\ M!Key(n) = M!Key(m) /\ n.field = m.field
                 /\ m.field # j.of.field => n.state = m.state
      <3> SUFFICES ASSUME NEW m \in mapping
                   PROVE  \E n \in M!Promoted(r) :
                             /\ M!Key(n) = M!Key(m) /\ n.field = m.field
                             /\ m.field # j.of.field => n.state = m.state
        OBVIOUS
      <3>1. PICK k \in kept : /\ M!Key(k) = M!Key(m) /\ k.field = m.field
                              /\ m.field # j.of.field => k.state = m.state
        BY <1>11
      <3>2. PICK n \in M!Promoted(r) : /\ M!Key(n) = M!Key(k) /\ n.field = k.field
                                       /\ n.state = IF M!Key(k) \in keys THEN "live" ELSE k.state
        BY <2>3
      <3> QED BY <2>5, <3>1, <3>2
    <2>7. \E n \in M!Promoted(r) : n.field = j.of.field /\ n.state = "live"
      <3>1. PICK m \in mapping : M!Key(m) = M!Key(j.of) BY <1>2, <1>13 DEF IsMapped
      <3>2. PICK k \in kept : M!Key(k) = M!Key(m) /\ k.field = m.field BY <1>11
      <3>3. m.field = j.of.field BY <3>1 DEF M!Key
      <3>4. M!Key(k) \in keys BY <3>1, <3>2 DEF keys
      <3> QED BY <2>3, <3>2, <3>3, <3>4
    <2>8. ASSUME NEW m \in mapping, NEW n \in M!Promoted(r), M!Key(m) = M!Key(n),
                 m.state = "retired", n.state # "retired"
          PROVE  j.of \notin mapping
      <3>1. PICK k \in kept : /\ M!Key(n) = M!Key(k)
                              /\ n.state = IF M!Key(k) \in keys THEN "live" ELSE k.state
        BY <2>3
      <3>2. k.state = "retired" BY <1>8, <2>8, <3>1
      <3>3. M!Key(m) = M!Key(j.of) BY <2>8, <3>1, <3>2 DEF keys
      <3> QED BY <1>2, <1>3, <2>8, <3>3
    <2> QED BY <1>13, <2>3, <2>4, <2>6, <2>7, <2>8
  <1> QED BY <1>2, <1>12, <1>13

LEMMA PromotesKeepMappings ==
    ASSUME MappingInv, NEW r \in Promoters, M!promote(r)
    PROVE  MappingInv'
  <1> USE DEF MappingInv
  <1> DEFINE of == promoting[r].of
             rows == M!Promoted(r)
  <1>1. /\ promoting[r].step = "retiring" /\ M!FitsIndexes(rows) /\ mapping' = rows
        /\ served' = served \cup {of.field}
        /\ crossed' = (crossed \/ (~promoting[r].fresh /\ of \notin mapping))
        /\ promoting' = [promoting EXCEPT ![r] = M!Done] /\ UNCHANGED <<consumes, standing>>
    BY DEF M!promote
  <1>2. of.field \in FieldsMapped BY <1>1 DEF MappingTypes, PromotionHolds, MappingRows
  <1>3. PromotionHolds(M!Done)' BY DEF M!Done, PromotionHolds
  <1>4. /\ rows \subseteq MappingRows
        /\ \A m \in mapping : \E n \in rows :
              /\ M!Key(n) = M!Key(m) /\ n.field = m.field
              /\ m.field # of.field => n.state = m.state
        /\ \A m, n \in rows : M!Key(m) = M!Key(n) => m = n
        /\ \E n \in rows : n.field = of.field /\ n.state = "live"
    BY PromotedRows
  <1> HIDE DEF rows, of
  <1>5. MappingTypes'
    <2>1. /\ promoting' = [q \in Promoters |-> promoting'[q]]
          /\ \A q \in Promoters : PromotionHolds(promoting[q])'
      BY <1>1, <1>3, <1>4, OnePromotion
    <2>2. crossed' \in BOOLEAN BY <1>1 DEF MappingTypes
    <2> QED BY <1>1, <1>2, <1>4, <2>1, <2>2 DEF MappingTypes
  <1>6. M!OneLiveVersion'
    <2>1. \A m, n \in mapping' : M!Key(m) = M!Key(n) => m = n BY <1>1, <1>4
    <2>2. M!FitsIndexes(mapping)' BY <1>1 DEF M!FitsIndexes
    <2>3. ASSUME NEW f \in served' PROVE M!Live(f)' # {}
      <3>1. CASE f = of.field BY <1>1, <1>4, <3>1 DEF M!Live
      <3>2. CASE f # of.field
        <4>1. PICK m \in mapping : m.field = f /\ m.state = "live"
          BY <1>1, <3>2 DEF M!OneLiveVersion, M!Live
        <4> QED BY <1>1, <1>4, <3>2, <4>1 DEF M!Live
      <3> QED BY <3>1, <3>2
    <2> QED BY <2>1, <2>2, <2>3 DEF M!OneLiveVersion
  <1> QED BY <1>5, <1>6

LEMMA MappingsBegin == M!Init => MappingInv
  <1> SUFFICES ASSUME M!Init PROVE MappingInv OBVIOUS
  <1>1. MappingTypes BY DEF M!Init, M!Idle, MappingTypes, PromotionHolds
  <1>2. M!OneLiveVersion BY DEF M!Init, M!OneLiveVersion, M!FitsIndexes
  <1> QED BY <1>1, <1>2 DEF MappingInv

LEMMA MappingStep == ASSUME MappingInv, M!Next PROVE MappingInv'
  <1>1. CASE M!ToolMoves
    <2>1. UNCHANGED <<mapping, promoting, served, crossed>> BY <1>1 DEF M!ToolMoves
    <2>2. consumes' \in BOOLEAN /\ standing' \in {"absent", "live", "archived"}
      BY <1>1 DEF M!ToolMoves, M!Update, M!Archive, M!Add, M!New, MappingInv, MappingTypes
    <2>3. MappingTypes' BY <2>1, <2>2 DEF MappingInv, MappingTypes, PromotionHolds, IsMapped
    <2>4. M!OneLiveVersion' BY <2>1 DEF MappingInv, M!OneLiveVersion, M!FitsIndexes, M!Live
    <2> QED BY <2>3, <2>4 DEF MappingInv
  <1> QED BY <1>1, QuietMappings, CreatesKeepMappings, PromotesKeepMappings DEF M!Next

LEMMA MappingsStutter == ASSUME MappingInv, UNCHANGED mapped PROVE MappingInv'
  BY DEF mapped, MappingInv, MappingTypes, PromotionHolds, IsMapped, M!OneLiveVersion,
         M!FitsIndexes, M!Live

LEMMA MappingsStart == KnowingInit => MappingInv
  BY MappingsBegin DEF KnowingInit

LEMMA MappingsLast == MappingInv /\ [KnowingNext]_all => MappingInv'
  <1> SUFFICES ASSUME MappingInv, [KnowingNext]_all PROVE MappingInv' OBVIOUS
  <1>1. M!Next \/ UNCHANGED mapped BY DEF KnowingNext, all
  <1> QED BY <1>1, MappingStep, MappingsStutter

LEMMA MappingTypeOK == MappingInv => M!TypeOK
  BY DEF MappingInv, MappingTypes, MappingRows, M!TypeOK

\* A retired version is live again only by a promotion that had read it before.
LEMMA RetiredStayRetired == ASSUME MappingInv, M!Next PROVE M!HistoryIsKept
  <1> USE DEF MappingInv
  <1>1. CASE UNCHANGED mapping
    BY <1>1 DEF M!HistoryIsKept, M!OneLiveVersion
  <1>2. ASSUME NEW r \in Promoters, M!CreateMapping(r) PROVE M!HistoryIsKept
    BY <1>2, NumberedIsNew DEF M!CreateMapping, M!HistoryIsKept, M!OneLiveVersion
  <1>3. ASSUME NEW r \in Promoters, M!promote(r) PROVE M!HistoryIsKept
    <2>1. /\ mapping' = M!Promoted(r)
          /\ crossed' = (crossed \/ (~promoting[r].fresh /\ promoting[r].of \notin mapping))
      BY <1>3 DEF M!promote
    <2>2. \A m \in mapping, n \in M!Promoted(r) :
             M!Key(m) = M!Key(n) /\ m.state = "retired" =>
                \/ n.state = "retired"
                \/ ~promoting[r].fresh /\ promoting[r].of \notin mapping
      BY <1>3, PromotedRows
    <2> QED BY <2>1, <2>2 DEF M!HistoryIsKept
  <1> QED BY <1>1, <1>2, <1>3
          DEF M!Next, M!ToolMoves, M!addMapping, M!NextVersion, M!promoteMapping, M!LiveMapping, M!Fails
-----------------------------------------------------------------------------
(* The tools.                                                              *)
(*                                                                         *)
(* A version is stored once, and a request that finds the version it read  *)
(* finds the row it read.                                                  *)

ToolRow == [status : {"active", "archived"}, name : ToolNames, intensity : ToolIntensities,
            finding : BOOLEAN, version : Nat \ {0}]
ToldOfTool(e) ==
    /\ e.tool \in ToolsMade /\ e.version \in 1 .. Len(versions[e.tool])
    /\ versions[e.tool][e.version] = e.to
    /\ \/ e.name = "tool.added"
       \/ e.version > 1 /\ versions[e.tool][e.version - 1] = e.from
SaveOfTool(j) ==
    /\ j.of \in ToolsMade /\ j.from \in ToolRow /\ j.row \in ToolRow
    /\ j.from.status = "active" /\ j.row.version = j.from.version + 1
    /\ j.from.version <= toolRow[j.of].version
    /\ toolRow[j.of].version = j.from.version => toolRow[j.of] = j.from
    /\ versions[j.of][j.from.version] = j.from.intensity
RequestOfTool(j) ==
    /\ j.step = "save" => SaveOfTool(j)
    /\ j.step = "tell" => ToldOfTool(j.says)
StoredTool(t) ==
    /\ toolRow[t] = O!Unmade \/ toolRow[t] \in ToolRow
    /\ versions[t] \in Seq(ToolIntensities) /\ Len(versions[t]) = toolRow[t].version
    /\ toolRow[t] # O!Unmade => versions[t][toolRow[t].version] = toolRow[t].intensity

ToolInv ==
    /\ toolRow = [t \in ToolsMade |-> toolRow[t]] /\ versions = [t \in ToolsMade |-> versions[t]]
    /\ \A t \in ToolsMade : StoredTool(t)
    /\ live \in [ToolsMade -> SUBSET ToolRoles] /\ off \subseteq ToolsMade
    /\ clockwork \in [{} -> [enabled : BOOLEAN, chained : BOOLEAN]]
    /\ unmapped = {} /\ buried = {}
    /\ tooling = [p \in Keepers |-> tooling[p]]
    /\ \A p \in Keepers : RequestOfTool(tooling[p])
    /\ \A e \in toolTold : ToldOfTool(e)

\* One version of one tool is stored.
LEMMA StoresKeepTools ==
    ASSUME ToolInv, NEW p \in Keepers, NEW t \in ToolsMade, NEW row1, NEW e,
           row1 \in ToolRow, row1.version = toolRow[t].version + 1,
           toolRow' = [toolRow EXCEPT ![t] = row1],
           versions' = [versions EXCEPT ![t] = Append(@, row1.intensity)],
           tooling' = [tooling EXCEPT ![p] = [step |-> "tell", says |-> e]],
           UNCHANGED <<live, clockwork, off, buried, unmapped, toolTold>>,
           e.tool = t, e.version = row1.version, e.to = row1.intensity,
           \/ e.name = "tool.added"
           \/ e.version > 1 /\ versions[t][e.version - 1] = e.from
    PROVE  ToolInv'
  <1> DEFINE v == row1.version
  <1>1. /\ \A s \in ToolsMade : toolRow'[s] = IF s = t THEN row1 ELSE toolRow[s]
        /\ \A s \in ToolsMade : versions'[s] = IF s = t THEN Append(versions[t], row1.intensity)
                                               ELSE versions[s]
        /\ \A q \in Keepers : tooling'[q] = IF q = p THEN [step |-> "tell", says |-> e] ELSE tooling[q]
    BY DEF ToolInv
  <1>2. /\ versions[t] \in Seq(ToolIntensities) /\ row1.intensity \in ToolIntensities
        /\ Len(versions[t]) = toolRow[t].version /\ v = Len(versions[t]) + 1 /\ v \in Nat
    BY DEF ToolInv, StoredTool, ToolRow
  <1>3. /\ versions'[t] \in Seq(ToolIntensities) /\ Len(versions'[t]) = v
        /\ versions'[t][v] = row1.intensity
        /\ \A n \in 1 .. Len(versions[t]) : versions'[t][n] = versions[t][n]
    <2>1. versions'[t] = Append(versions[t], row1.intensity) BY <1>1
    <2> HIDE DEF v
    <2> DEFINE x == row1.intensity
               s == versions[t]
               grown == versions'[t]
    <2>2. s \in Seq(ToolIntensities) /\ x \in ToolIntensities /\ v = Len(s) + 1 /\ grown = Append(s, x)
      BY <1>2, <2>1
    <2> HIDE DEF x, s, grown
    <2>3. /\ grown \in Seq(ToolIntensities) /\ Len(grown) = v /\ grown[v] = x
          /\ \A n \in 1 .. Len(s) : grown[n] = s[n]
      BY ONLY <2>2
    <2> QED BY <2>3 DEF x, s, grown
  <1>4. ASSUME NEW s \in ToolsMade
        PROVE  /\ Len(versions[s]) \in Nat /\ Len(versions[s]) <= Len(versions'[s])
               /\ Len(versions'[s]) \in Nat
               /\ \A n \in 1 .. Len(versions[s]) : versions'[s][n] = versions[s][n]
    <2>1. Len(versions[s]) \in Nat BY DEF ToolInv, StoredTool
    <2> QED BY <1>1, <1>2, <1>3, <2>1
  <1>5. ASSUME NEW d, ToldOfTool(d) PROVE ToldOfTool(d)'
    <2>1. d.tool \in ToolsMade /\ d.version \in 1 .. Len(versions[d.tool]) BY <1>5 DEF ToldOfTool
    <2>2. /\ d.version \in 1 .. Len(versions'[d.tool])
          /\ versions'[d.tool][d.version] = versions[d.tool][d.version]
          /\ d.version > 1 => versions'[d.tool][d.version - 1] = versions[d.tool][d.version - 1]
      BY <1>4, <2>1
    <2> QED BY <1>5, <2>1, <2>2 DEF ToldOfTool
  <1>6. ASSUME NEW j, SaveOfTool(j) PROVE SaveOfTool(j)'
    <2>1. /\ j.of \in ToolsMade /\ j.from.version \in Nat \ {0}
          /\ j.from.version <= toolRow[j.of].version
      BY <1>6 DEF SaveOfTool, ToolRow
    <2>2. StoredTool(j.of) BY <2>1 DEF ToolInv
    <2>3. j.from.version \in 1 .. Len(versions[j.of]) BY <2>1, <2>2 DEF StoredTool
    <2>4. versions'[j.of][j.from.version] = versions[j.of][j.from.version] BY <1>4, <2>1, <2>3
    <2>5. /\ j.from.version <= toolRow'[j.of].version
          /\ toolRow'[j.of].version = j.from.version => toolRow'[j.of] = j.from
      <3>1. CASE j.of = t
        <4>1. toolRow'[j.of].version = toolRow[t].version + 1 /\ toolRow[t].version \in Nat
          BY <1>1, <1>2, <3>1
        <4> QED BY <2>1, <3>1, <4>1
      <3>2. CASE j.of # t BY <1>1, <1>6, <2>1, <3>2 DEF SaveOfTool
      <3> QED BY <3>1, <3>2
    <2> QED BY <1>6, <2>1, <2>4, <2>5 DEF SaveOfTool
  <1>7. ToldOfTool(e)'
    <2>1. e.version > 1 => versions'[t][e.version - 1] = versions[t][e.version - 1] BY <1>2, <1>3
    <2>2. e.version \in 1 .. Len(versions'[t]) BY <1>2, <1>3
    <2> QED BY <1>3, <2>1, <2>2 DEF ToldOfTool
  <1>8. \A q \in Keepers : RequestOfTool(tooling[q])'
    BY <1>1, <1>5, <1>6, <1>7 DEF ToolInv, RequestOfTool
  <1>9. \A s \in ToolsMade : StoredTool(s)' BY <1>1, <1>2, <1>3 DEF ToolInv, StoredTool
  <1>10. \A d \in toolTold' : ToldOfTool(d)' BY <1>5 DEF ToolInv
  <1>11. /\ toolRow' = [s \in ToolsMade |-> toolRow'[s]] /\ versions' = [s \in ToolsMade |-> versions'[s]]
         /\ tooling' = [q \in Keepers |-> tooling'[q]]
    BY DEF ToolInv
  <1> QED BY <1>8, <1>9, <1>10, <1>11 DEF ToolInv

\* The row of a tool that is not made.
LEMMA UnmadeTool == O!Unmade.version = 0 /\ O!Unmade.status = "none"
  BY DEF O!Unmade

LEMMA AddsKeepTools ==
    ASSUME ToolInv, NEW p \in Keepers, NEW t \in ToolsMade, NEW name \in ToolNames,
           NEW intensity \in ToolIntensities, NEW finding \in BOOLEAN,
           O!addTool(p, t, name, intensity, finding)
    PROVE  ToolInv'
  <1> DEFINE row1 == O!New(name, intensity, finding)
             e == O!Saying("tool.added", t, row1, row1)
  <1>1. /\ toolRow[t] = O!Unmade /\ toolRow' = [toolRow EXCEPT ![t] = row1]
        /\ versions' = [versions EXCEPT ![t] = <<row1.intensity>>]
        /\ tooling' = [tooling EXCEPT ![p] = [step |-> "tell", says |-> e]]
        /\ UNCHANGED <<live, clockwork, off, buried, unmapped, toolTold>>
    BY DEF O!addTool, O!Create, O!InsertTool, O!Asks, O!machinery
  <1>2. /\ row1 \in ToolRow /\ row1.version = 1 BY DEF O!New, ToolRow
  <1>3. /\ e.tool = t /\ e.version = row1.version /\ e.to = row1.intensity /\ e.name = "tool.added"
    BY DEF O!Saying
  <1>4. toolRow[t].version = 0 BY <1>1, UnmadeTool
  <1>5. versions[t] = <<>> BY <1>4 DEF ToolInv, StoredTool
  <1> HIDE DEF row1, e
  <1>6. versions' = [versions EXCEPT ![t] = Append(@, row1.intensity)]
    BY <1>1, <1>5 DEF ToolInv
  <1>7. row1.version = toolRow[t].version + 1 BY <1>2, <1>4
  <1> QED BY <1>1, <1>2, <1>3, <1>6, <1>7, StoresKeepTools

\* Steps that store nothing.
LEMMA QuietTools ==
    ASSUME ToolInv, NEW p \in Keepers, NEW j, tooling' = [tooling EXCEPT ![p] = j],
           RequestOfTool(j), UNCHANGED <<toolRow, versions, live, clockwork, off, buried, unmapped>>,
           toolTold' \subseteq toolTold
              \cup {e \in {tooling[p].says} : tooling[p].step = "tell"}
    PROVE  ToolInv'
  <1>1. \A q \in Keepers : tooling'[q] = IF q = p THEN j ELSE tooling[q] BY DEF ToolInv
  <1>2. /\ \A d : ToldOfTool(d) => ToldOfTool(d)'
        /\ \A k : SaveOfTool(k) => SaveOfTool(k)'
    BY DEF ToldOfTool, SaveOfTool
  <1>3. \A k : RequestOfTool(k) => RequestOfTool(k)' BY <1>2 DEF RequestOfTool
  <1>4. \A q \in Keepers : RequestOfTool(tooling[q])' BY <1>1, <1>3 DEF ToolInv
  <1>5. \A e \in toolTold' : ToldOfTool(e)' BY <1>2 DEF ToolInv, RequestOfTool
  <1>6. \A t \in ToolsMade : StoredTool(t)' BY DEF ToolInv, StoredTool
  <1>7. tooling' = [q \in Keepers |-> tooling'[q]] BY DEF ToolInv
  <1> QED BY <1>4, <1>5, <1>6, <1>7 DEF ToolInv

\* What becomes of a row that is changed.
LEMMA NextToolRow ==
    ASSUME NEW held \in ToolRow, NEW intensity \in ToolIntensities, NEW finding \in BOOLEAN
    PROVE  /\ O!Update(held, intensity, finding) \in ToolRow
           /\ O!Update(held, intensity, finding).version = held.version + 1
           /\ O!Archive(held) \in ToolRow /\ O!Archive(held).version = held.version + 1
  <1>1. /\ O!Archive(held) \in ToolRow /\ O!Archive(held).version = held.version + 1
    <2> DEFINE a == [held EXCEPT !.status = "archived"]
               b == [a EXCEPT !.version = @ + 1]
    <2>1. a \in ToolRow /\ a.version = held.version BY DEF ToolRow
    <2>2. O!Archive(held) = b BY DEF O!Archive, a, b
    <2> HIDE DEF a
    <2>3. b \in ToolRow /\ b.version = held.version + 1 BY <2>1 DEF ToolRow
    <2> HIDE DEF b
    <2> QED BY <2>2, <2>3
  <1> DEFINE a == [held EXCEPT !.intensity = intensity]
             b == [a EXCEPT !.finding = finding]
             c == [b EXCEPT !.version = @ + 1]
  <1>2. a \in ToolRow /\ a.version = held.version BY DEF ToolRow
  <1>3. O!Update(held, intensity, finding) = c BY DEF O!Update, a, b, c
  <1> HIDE DEF a
  <1>4. b \in ToolRow /\ b.version = held.version BY <1>2 DEF ToolRow
  <1> HIDE DEF b
  <1>5. c \in ToolRow /\ c.version = held.version + 1 BY <1>4 DEF ToolRow
  <1> HIDE DEF c
  <1> QED BY <1>1, <1>3, <1>5

LEMMA AsksKeepTools ==
    ASSUME ToolInv, NEW p \in Keepers, NEW t \in ToolsMade,
           \/ O!archiveTool(p, t)
           \/ \E intensity \in ToolIntensities, finding \in BOOLEAN : O!updateTool(p, t, intensity, finding)
    PROVE  ToolInv'
  <1>1. toolRow[t].status = "active"
    BY DEF O!archiveTool, O!updateTool, O!MayChange, O!ByID
  <1>2. /\ toolRow[t] \in ToolRow /\ versions[t][toolRow[t].version] = toolRow[t].intensity
        /\ toolRow[t].version <= toolRow[t].version
    BY <1>1, UnmadeTool DEF ToolInv, StoredTool, ToolRow
  <1>3. ASSUME NEW next \in ToolRow, next.version = toolRow[t].version + 1, NEW name,
               tooling' = [tooling EXCEPT ![p] =
                  [step |-> "save", of |-> t, row |-> next, from |-> toolRow[t], name |-> name]],
               UNCHANGED <<toolRow, versions, live, clockwork, off, buried, unmapped, toolTold>>
        PROVE  ToolInv'
    <2> DEFINE j == [step |-> "save", of |-> t, row |-> next, from |-> toolRow[t], name |-> name]
    <2>1. RequestOfTool(j) BY <1>1, <1>2, <1>3 DEF RequestOfTool, SaveOfTool
    <2> HIDE DEF j
    <2> QED BY <1>3, <2>1, QuietTools DEF j
  <1>4. CASE O!archiveTool(p, t)
    <2>1. /\ O!Archive(toolRow[t]) \in ToolRow
          /\ O!Archive(toolRow[t]).version = toolRow[t].version + 1
      BY <1>2, NextToolRow DEF ToolRow
    <2>2. /\ tooling' = [tooling EXCEPT ![p] =
                 [step |-> "save", of |-> t, row |-> O!Archive(toolRow[t]), from |-> toolRow[t],
                  name |-> "tool.archived"]]
          /\ UNCHANGED <<toolRow, versions, live, clockwork, off, buried, unmapped, toolTold>>
      BY <1>4 DEF O!archiveTool, O!ByID, O!Asks, O!machinery
    <2> QED BY <1>3, <2>1, <2>2
  <1>5. ASSUME NEW intensity \in ToolIntensities, NEW finding \in BOOLEAN,
               O!updateTool(p, t, intensity, finding)
        PROVE  ToolInv'
    <2> DEFINE next == O!Update(toolRow[t], intensity, finding)
    <2>1. next \in ToolRow /\ next.version = toolRow[t].version + 1 BY <1>2, NextToolRow
    <2>2. /\ \/ tooling' = [tooling EXCEPT ![p] = O!Done]
             \/ tooling' = [tooling EXCEPT ![p] =
                    [step |-> "save", of |-> t, row |-> next, from |-> toolRow[t],
                     name |-> "tool.updated"]]
          /\ UNCHANGED <<toolRow, versions, live, clockwork, off, buried, unmapped, toolTold>>
      BY <1>5 DEF O!updateTool, O!ByID, O!Asks, O!machinery
    <2> HIDE DEF next
    <2>3. RequestOfTool(O!Done) BY DEF O!Done, RequestOfTool
    <2> QED BY <1>3, <2>1, <2>2, <2>3, QuietTools
  <1> QED BY <1>4, <1>5

LEMMA SavesKeepTools ==
    ASSUME ToolInv, NEW p \in Keepers, O!Save(p)
    PROVE  ToolInv' /\ toolRow[tooling[p].of] = tooling[p].from
  <1> DEFINE j == tooling[p]
             e == O!Saying(j.name, j.of, j.from, j.row)
  <1>1. /\ j.step = "save" /\ toolRow[j.of].version = j.row.version - 1
        /\ toolRow' = [toolRow EXCEPT ![j.of] = j.row]
        /\ versions' = [versions EXCEPT ![j.of] = Append(@, j.row.intensity)]
        /\ tooling' = [tooling EXCEPT ![p] = [step |-> "tell", says |-> e]]
        /\ UNCHANGED <<live, clockwork, off, buried, unmapped, toolTold>>
    BY DEF O!Save, O!UpdateTool, O!Fresh, O!Asks, O!machinery
  <1>2. SaveOfTool(j) BY <1>1 DEF ToolInv, RequestOfTool
  <1>3. /\ e.tool = j.of /\ e.version = j.row.version /\ e.to = j.row.intensity
        /\ e.from = j.from.intensity
    BY DEF O!Saying
  <1> HIDE DEF e
  <1>4. /\ j.of \in ToolsMade /\ j.row \in ToolRow /\ j.from.version \in Nat \ {0}
        /\ j.row.version = j.from.version + 1
        /\ versions[j.of][j.from.version] = j.from.intensity
    BY <1>2 DEF SaveOfTool, ToolRow
  <1>5. /\ j.row.version = toolRow[j.of].version + 1 /\ toolRow[j.of].version = j.from.version
    BY <1>1, <1>4 DEF ToolInv, StoredTool
  <1>6. e.version > 1 /\ versions[j.of][e.version - 1] = e.from BY <1>3, <1>4
  <1>7. toolRow[j.of] = j.from BY <1>2, <1>5 DEF SaveOfTool
  <1> HIDE DEF j
  <1> QED BY <1>1, <1>3, <1>4, <1>5, <1>6, <1>7, StoresKeepTools DEF j

LEMMA ToolsBegin == O!Init => ToolInv
  <1> SUFFICES ASSUME O!Init PROVE ToolInv OBVIOUS
  <1>1. O!Unmade.version = 0 BY UnmadeTool
  <1>2. \A t \in ToolsMade : StoredTool(t) BY <1>1 DEF O!Init, StoredTool
  <1> QED BY <1>2 DEF O!Init, O!Idle, ToolInv, RequestOfTool

LEMMA ToolStep == ASSUME ToolInv, O!Next PROVE ToolInv'
  <1>1. O!Acts BY DEF O!Next
  <1>2. ASSUME NEW p \in Keepers, O!StaleWrite(p) PROVE ToolInv'
    <2>1. RequestOfTool(O!Done) BY DEF O!Done, RequestOfTool
    <2> QED BY <1>2, <2>1, QuietTools DEF O!StaleWrite, O!Asks, O!machinery
  <1>3. ASSUME NEW p \in Keepers, O!emit(p) PROVE ToolInv'
    <2>1. RequestOfTool(O!Done) BY DEF O!Done, RequestOfTool
    <2>2. toolTold' \subseteq toolTold \cup {e \in {tooling[p].says} : tooling[p].step = "tell"}
      BY <1>3 DEF O!emit
    <2> QED BY <1>3, <2>1, <2>2, QuietTools DEF O!emit, O!Asks, O!machinery
  <1>4. ASSUME NEW t \in ToolsMade, O!CannotStart(t) \/ \E role \in ToolRoles : O!Map(t, role)
        PROVE  ToolInv'
    <2>1. UNCHANGED <<toolRow, versions, tooling, toolTold, clockwork, buried, unmapped>>
      BY <1>4 DEF O!CannotStart, O!Map, O!Happens
    <2>2. live' \in [ToolsMade -> SUBSET ToolRoles] /\ off' \subseteq ToolsMade
      BY <1>4 DEF O!CannotStart, O!Map, ToolInv
    <2> QED BY <2>1, <2>2 DEF ToolInv, StoredTool, RequestOfTool, SaveOfTool, ToldOfTool
  <1> QED BY <1>1, <1>2, <1>3, <1>4, AddsKeepTools, AsksKeepTools, SavesKeepTools DEF O!Acts

LEMMA ToolsStart == KnowingInit => (part = "tools" => ToolInv)
  <1> SUFFICES ASSUME KnowingInit, part = "tools" PROVE ToolInv OBVIOUS
  <1>1. O!Init BY DEF KnowingInit
  <1> QED BY <1>1, ToolsBegin

LEMMA ToolsLast == (part = "tools" => ToolInv) /\ [KnowingNext]_all => (part = "tools" => ToolInv)'
  <1> SUFFICES ASSUME part = "tools" => ToolInv, [KnowingNext]_all, part' = "tools"
               PROVE  ToolInv'
    OBVIOUS
  <1>1. part = "tools" /\ (O!Next \/ UNCHANGED tended) BY DEF KnowingNext, all
  <1>2. CASE UNCHANGED tended
    BY <1>1, <1>2 DEF tended, ToolInv, StoredTool, RequestOfTool, SaveOfTool, ToldOfTool
  <1> QED BY <1>1, <1>2, ToolStep

LEMMA ToolsAreTrue == ToolInv => O!TypeOK /\ O!EventsAreVersions
  BY DEF ToolInv, StoredTool, ToldOfTool, ToolRow, O!TypeOK, O!EventsAreVersions

\* An update that has read a tool finds another version once it is archived.
LEMMA ArchivedAreKept == ASSUME ToolInv, O!Next PROVE O!ArchivedStays
  <1> SUFFICES ASSUME NEW t \in ToolsMade, toolRow[t].status = "archived"
               PROVE  toolRow'[t] = toolRow[t]
    BY DEF O!ArchivedStays
  <1>1. ASSUME NEW p \in Keepers, O!Save(p) PROVE toolRow'[t] = toolRow[t]
    <2>1. toolRow[tooling[p].of] = tooling[p].from BY <1>1, SavesKeepTools
    <2>2. SaveOfTool(tooling[p]) BY <1>1 DEF O!Save, ToolInv, RequestOfTool
    <2>3. tooling[p].of # t BY <2>1, <2>2 DEF SaveOfTool
    <2> QED BY <1>1, <2>2, <2>3 DEF O!Save, O!UpdateTool, ToolInv, SaveOfTool
  <1>2. ASSUME NEW p, NEW q \in ToolsMade, NEW name, NEW intensity, NEW finding,
               O!addTool(p, q, name, intensity, finding)
        PROVE  toolRow'[t] = toolRow[t]
    <2>1. toolRow[q] = O!Unmade /\ toolRow' = [toolRow EXCEPT ![q] = O!New(name, intensity, finding)]
      BY <1>2 DEF O!addTool, O!Create, O!InsertTool
    <2>2. q # t BY <2>1, UnmadeTool
    <2> QED BY <2>1, <2>2 DEF ToolInv
  <1> QED BY <1>1, <1>2 DEF O!Next, O!Acts, O!updateTool, O!archiveTool, O!StaleWrite, O!emit,
                            O!CannotStart, O!Map, O!Happens
-----------------------------------------------------------------------------
(* The engagements.                                                        *)
(*                                                                         *)
(* The firm and each of its engagements is a row with a version, and what  *)
(* was stored of it is kept by version: a request that finds the version   *)
(* it read finds the row it read, and what it tells of was stored.         *)

SpaceRow == [status : {"active", "archived"}, name : SpaceNames, version : Nat \ {0}]
FirmRow == [name : SpaceNames, version : Nat \ {0}]
HeldRow(r) == IF r = "org" THEN org ELSE space[r]
RowsOf(r) == IF r = "org" THEN FirmRow ELSE SpaceRow
RowsKept == SpacesMade \cup {"org"}

ToldOfRow(e) ==
    /\ e.of \in RowsKept /\ e.version \in 1 .. Len(forms[e.of])
    /\ forms[e.of][e.version] = e.to
    /\ e.version > 1 => forms[e.of][e.version - 1] = e.from
\* A write tells what it makes of the row it was made of.
SaysOfSave(j) ==
    /\ j.says.of = j.of /\ j.says.to = j.row /\ j.says.version = j.row.version
    /\ j.row.version = j.says.from.version + 1
    /\ j.of # "org" /\ j.says.from.status = "archived" =>
          j.row = [j.says.from EXCEPT !.status = "active", !.version = @ + 1]
SaveOfRow(j) ==
    /\ j.of \in RowsKept /\ j.says.from \in RowsOf(j.of) /\ j.row \in RowsOf(j.of)
    /\ SaysOfSave(j)
    /\ j.says.from.version <= HeldRow(j.of).version
    /\ HeldRow(j.of).version = j.says.from.version => HeldRow(j.of) = j.says.from
    /\ forms[j.of][j.says.from.version] = j.says.from
MadeSpace(w) == w \in SpacesMade /\ space[w] \in SpaceRow
RequestOfRow(j) ==
    /\ j.step = "create" =>
          /\ j = [step |-> "create", of |-> j.of, row |-> j.row]
          /\ j.of \in SpacesMade /\ j.row \in SpaceRow /\ j.row.version = 1
    /\ j.step = "open" =>
          j.of \in SpacesMade /\ j.row.version = 1 /\ Len(forms[j.of]) >= 1 /\ forms[j.of][1] = j.row
    /\ j.step = "shown" => \A w \in j.rows : MadeSpace(w)
    /\ j.step \in {"rename", "close", "reopen"} => MadeSpace(j.of)
    /\ j.step = "save" => SaveOfRow(j)
    /\ j.step = "tell" => ToldOfRow(j.says)
StoredRow(r) ==
    /\ (r # "org" /\ HeldRow(r) = B!Unmade) \/ HeldRow(r) \in RowsOf(r)
    /\ forms[r] \in Seq(RowsOf(r)) /\ Len(forms[r]) = HeldRow(r).version
    /\ HeldRow(r) \in RowsOf(r) => forms[r][HeldRow(r).version] = HeldRow(r)

EngagementInv ==
    /\ space = [w \in SpacesMade |-> space[w]] /\ forms = [r \in RowsKept |-> forms[r]]
    /\ \A r \in RowsKept : StoredRow(r)
    /\ grant \in [Managers -> SUBSET SpacesMade] /\ sent \subseteq SpacesMade \X Managers
    /\ asked \in [Managers -> 0 .. MostAsked]
    /\ requesting = [p \in Managers |-> requesting[p]]
    /\ \A p \in Managers : RequestOfRow(requesting[p])
    /\ \A e \in heard : ToldOfRow(e)
    /\ B!NamesAreTheirOwn

LEMMA UnmadeRow == B!Unmade.version = 0 /\ B!Unmade.status = "none" /\ B!Unmade \notin SpaceRow
  BY DEF B!Unmade, SpaceRow

\* One version of one row is stored.
LEMMA StoresKeepRows ==
    ASSUME EngagementInv, NEW p \in Managers, NEW r \in RowsKept, NEW new, NEW j,
           new \in RowsOf(r), new.version = HeldRow(r).version + 1,
           \A s \in RowsKept : HeldRow(s)' = IF s = r THEN new ELSE HeldRow(s),
           space' = [w \in SpacesMade |-> space'[w]],
           forms' = [forms EXCEPT ![r] = Append(@, new)],
           requesting' = [requesting EXCEPT ![p] = j],
           UNCHANGED <<grant, sent, asked, heard>>, (B!NamesAreTheirOwn)',
           \/ /\ j.step = "tell" /\ j.says.of = r /\ j.says.to = new /\ j.says.version = new.version
              /\ new.version > 1 => forms[r][new.version - 1] = j.says.from
           \/ j.step = "open" /\ r # "org" /\ j.of = r /\ j.row = new /\ new.version = 1
    PROVE  EngagementInv'
  <1>1. /\ \A s \in RowsKept : forms'[s] = IF s = r THEN Append(forms[r], new) ELSE forms[s]
        /\ \A q \in Managers : requesting'[q] = IF q = p THEN j ELSE requesting[q]
    BY DEF EngagementInv
  <1>2. /\ forms[r] \in Seq(RowsOf(r)) /\ new \in RowsOf(r) /\ new.version = Len(forms[r]) + 1
        /\ new.version \in Nat \ {0} /\ Len(forms[r]) \in Nat
    <2>1. StoredRow(r) BY DEF EngagementInv
    <2>2. new.version \in Nat \ {0} BY DEF RowsOf, SpaceRow, FirmRow
    <2> QED BY <2>1, <2>2 DEF StoredRow
  <1>3. /\ forms'[r] \in Seq(RowsOf(r)) /\ Len(forms'[r]) = new.version
        /\ forms'[r][new.version] = new
        /\ \A n \in 1 .. Len(forms[r]) : forms'[r][n] = forms[r][n]
    <2> DEFINE s == forms[r]
               grown == forms'[r]
               v == new.version
               kind == RowsOf(r)
    <2>1. s \in Seq(kind) /\ new \in kind /\ v = Len(s) + 1 /\ grown = Append(s, new) BY <1>1, <1>2
    <2> HIDE DEF s, grown, v, kind
    <2>2. /\ grown \in Seq(kind) /\ Len(grown) = v /\ grown[v] = new
          /\ \A n \in 1 .. Len(s) : grown[n] = s[n]
      BY ONLY <2>1
    <2> QED BY <2>2 DEF s, grown, v, kind
  <1>4. ASSUME NEW s \in RowsKept
        PROVE  /\ Len(forms[s]) \in Nat /\ Len(forms[s]) <= Len(forms'[s]) /\ Len(forms'[s]) \in Nat
               /\ \A n \in 1 .. Len(forms[s]) : forms'[s][n] = forms[s][n]
    <2>1. Len(forms[s]) \in Nat BY DEF EngagementInv, StoredRow
    <2>2. CASE s = r BY <1>2, <1>3, <2>2
    <2>3. CASE s # r BY <1>1, <2>1, <2>3
    <2> QED BY <2>2, <2>3
  <1>5. ASSUME NEW d, ToldOfRow(d) PROVE ToldOfRow(d)'
    <2>1. d.of \in RowsKept /\ d.version \in 1 .. Len(forms[d.of]) BY <1>5 DEF ToldOfRow
    <2>2. /\ d.version \in 1 .. Len(forms'[d.of])
          /\ forms'[d.of][d.version] = forms[d.of][d.version]
          /\ d.version > 1 => forms'[d.of][d.version - 1] = forms[d.of][d.version - 1]
      BY <1>4, <2>1
    <2> QED BY <1>5, <2>1, <2>2 DEF ToldOfRow, RowsKept
  <1>6. ASSUME NEW k, SaveOfRow(k) PROVE SaveOfRow(k)'
    <2>1. /\ k.of \in RowsKept /\ k.says.from.version \in Nat \ {0}
          /\ k.says.from.version <= HeldRow(k.of).version
      BY <1>6 DEF SaveOfRow, RowsOf, SpaceRow, FirmRow
    <2>2. Len(forms[k.of]) = HeldRow(k.of).version /\ Len(forms[k.of]) \in Nat
      BY <1>4, <2>1 DEF EngagementInv, StoredRow
    <2>3. k.says.from.version \in 1 .. Len(forms[k.of]) BY <2>1, <2>2
    <2>4. forms'[k.of][k.says.from.version] = forms[k.of][k.says.from.version] BY <1>4, <2>1, <2>3
    <2>5. /\ k.says.from.version <= HeldRow(k.of)'.version
          /\ HeldRow(k.of)'.version = k.says.from.version => HeldRow(k.of)' = k.says.from
      <3>1. CASE k.of = r
        <4>1. HeldRow(k.of)' = new /\ new.version = Len(forms[k.of]) + 1 BY <1>2, <2>1, <3>1
        <4> QED BY <2>1, <2>2, <4>1
      <3>2. CASE k.of # r
        <4>1. HeldRow(k.of)' = HeldRow(k.of) BY <2>1, <3>2
        <4> QED BY <1>6, <2>1, <4>1 DEF SaveOfRow
      <3> QED BY <3>1, <3>2
    <2> QED BY <1>6, <2>1, <2>4, <2>5 DEF SaveOfRow, SaysOfSave, RowsOf, RowsKept
  <1>7. ASSUME NEW w, MadeSpace(w) PROVE MadeSpace(w)'
    <2>1. w \in RowsKept /\ HeldRow(w)' = (IF w = r THEN new ELSE HeldRow(w)) /\ w # "org"
      BY <1>7, EngagementsAssumption DEF MadeSpace, RowsKept
    <2> QED BY <1>7, <2>1 DEF MadeSpace, HeldRow, RowsOf
  <1>8. ASSUME NEW k, RequestOfRow(k) PROVE RequestOfRow(k)'
    <2>1. k.step = "open" => Len(forms'[k.of]) >= 1 /\ forms'[k.of][1] = forms[k.of][1]
      BY <1>4, <1>8 DEF RequestOfRow, RowsKept
    <2> QED BY <1>5, <1>6, <1>7, <1>8, <2>1 DEF RequestOfRow
  <1>9. RequestOfRow(j)'
    <2>1. CASE j.step = "tell"
      <3>1. new.version > 1 => forms'[r][new.version - 1] = forms[r][new.version - 1] BY <1>2, <1>3
      <3>2. new.version \in 1 .. Len(forms'[r]) BY <1>2, <1>3
      <3>3. ToldOfRow(j.says)' BY <1>3, <2>1, <3>1, <3>2 DEF ToldOfRow, RowsKept
      <3> QED BY <2>1, <3>3 DEF RequestOfRow
    <2>2. CASE j.step = "open" BY <1>3, <2>2 DEF RequestOfRow, RowsKept
    <2> QED BY <2>1, <2>2
  <1>10. \A q \in Managers : RequestOfRow(requesting[q])' BY <1>1, <1>8, <1>9 DEF EngagementInv
  <1>11. ASSUME NEW s \in RowsKept PROVE StoredRow(s)'
    <2>1. CASE s = r
      <3>1. HeldRow(s)' = new BY <2>1
      <3> QED BY <1>2, <1>3, <2>1, <3>1 DEF StoredRow, RowsOf, SpaceRow, FirmRow
    <2>2. CASE s # r
      <3>1. HeldRow(s)' = HeldRow(s) /\ forms'[s] = forms[s] BY <1>1, <2>2
      <3> QED BY <3>1 DEF EngagementInv, StoredRow, RowsOf, SpaceRow, FirmRow, B!Unmade
    <2> QED BY <2>1, <2>2
  <1>12. \A d \in heard' : ToldOfRow(d)' BY <1>5 DEF EngagementInv
  <1>13. /\ forms' = [s \in RowsKept |-> forms'[s]] /\ requesting' = [q \in Managers |-> requesting'[q]]
    BY DEF EngagementInv
  <1> QED BY <1>10, <1>11, <1>12, <1>13 DEF EngagementInv, RowsKept

\* Steps that store nothing.
LEMMA QuietRows ==
    ASSUME EngagementInv, NEW p \in Managers, NEW j, requesting' = [requesting EXCEPT ![p] = j],
           RequestOfRow(j), UNCHANGED <<space, org, forms>>,
           grant' \in [Managers -> SUBSET SpacesMade], sent' \subseteq SpacesMade \X Managers,
           asked' \in [Managers -> 0 .. MostAsked], \A e \in heard' : e \in heard \/ ToldOfRow(e)
    PROVE  EngagementInv'
  <1>1. \A q \in Managers : requesting'[q] = IF q = p THEN j ELSE requesting[q] BY DEF EngagementInv
  <1>2. \A r : HeldRow(r)' = HeldRow(r) BY DEF HeldRow
  <1>3. /\ \A d : ToldOfRow(d) => ToldOfRow(d)'
        /\ \A k : SaveOfRow(k) => SaveOfRow(k)'
        /\ \A w : MadeSpace(w) => MadeSpace(w)'
    BY <1>2 DEF ToldOfRow, SaveOfRow, SaysOfSave, RowsOf, RowsKept, MadeSpace
  <1>4. \A k : RequestOfRow(k) => RequestOfRow(k)' BY <1>3 DEF RequestOfRow
  <1>5. \A q \in Managers : RequestOfRow(requesting[q])' BY <1>1, <1>4 DEF EngagementInv
  <1>6. \A e \in heard' : ToldOfRow(e)' BY <1>3 DEF EngagementInv
  <1>7. \A r \in RowsKept : StoredRow(r)' BY <1>2 DEF EngagementInv, StoredRow, RowsOf
  <1>8. requesting' = [q \in Managers |-> requesting'[q]] BY DEF EngagementInv
  <1>9. (B!NamesAreTheirOwn)' BY DEF EngagementInv, B!NamesAreTheirOwn, B!WorkspacesForOrg
  <1> QED BY <1>5, <1>6, <1>7, <1>8, <1>9 DEF EngagementInv, RowsKept

LEMMA StartsAreCounted ==
    ASSUME EngagementInv, NEW p \in Managers, B!Starts(p)
    PROVE  asked' \in [Managers -> 0 .. MostAsked]
  BY EngagementsAssumption DEF EngagementInv, B!Starts

\* The index keeps the names of the open ones apart.
LEMMA NamesStayApart ==
    ASSUME EngagementInv, NEW w \in SpacesMade, NEW new, space' = [space EXCEPT ![w] = new],
           B!FitsIndex(w, new)
    PROVE  (B!NamesAreTheirOwn)'
  <1>1. \A v \in SpacesMade : space'[v] = IF v = w THEN new ELSE space[v] BY DEF EngagementInv
  <1> QED BY <1>1 DEF EngagementInv, B!NamesAreTheirOwn, B!WorkspacesForOrg, B!FitsIndex

\* What becomes of a row that is changed.
LEMMA NextSpaceRow ==
    ASSUME NEW held \in SpaceRow, NEW name \in SpaceNames
    PROVE  /\ B!Rename(held, name) \in SpaceRow /\ B!Rename(held, name).version = held.version + 1
           /\ B!Archive(held) \in SpaceRow /\ B!Archive(held).version = held.version + 1
           /\ B!Reopen(held) \in SpaceRow /\ B!Reopen(held).version = held.version + 1
  <1>1. ASSUME NEW a \in SpaceRow, NEW b, b = [a EXCEPT !.version = @ + 1], a.version = held.version
        PROVE  b \in SpaceRow /\ b.version = held.version + 1
    BY <1>1 DEF SpaceRow
  <1>2. /\ [held EXCEPT !.name = name] \in SpaceRow
        /\ [held EXCEPT !.name = name].version = held.version
    BY DEF SpaceRow
  <1>3. /\ [held EXCEPT !.status = "archived"] \in SpaceRow
        /\ [held EXCEPT !.status = "archived"].version = held.version
        /\ [held EXCEPT !.status = "active"] \in SpaceRow
        /\ [held EXCEPT !.status = "active"].version = held.version
    BY DEF SpaceRow
  <1>4. /\ B!Rename(held, name) = [[held EXCEPT !.name = name] EXCEPT !.version = @ + 1]
        /\ B!Archive(held) = [[held EXCEPT !.status = "archived"] EXCEPT !.version = @ + 1]
        /\ B!Reopen(held) = [[held EXCEPT !.status = "active"] EXCEPT !.version = @ + 1]
    BY DEF B!Rename, B!Archive, B!Reopen
  <1> QED BY <1>1, <1>2, <1>3, <1>4

LEMMA NextFirmRow ==
    ASSUME NEW held \in FirmRow, NEW name \in SpaceNames
    PROVE  B!Rename(held, name) \in FirmRow /\ B!Rename(held, name).version = held.version + 1
  <1> DEFINE a == [held EXCEPT !.name = name]
             b == [a EXCEPT !.version = @ + 1]
  <1>1. a \in FirmRow /\ a.version = held.version BY DEF FirmRow
  <1>2. B!Rename(held, name) = b BY DEF B!Rename
  <1> HIDE DEF a
  <1>3. b \in FirmRow /\ b.version = held.version + 1 BY <1>1 DEF FirmRow
  <1> HIDE DEF b
  <1> QED BY <1>2, <1>3

\* A change of a row that was just read.
LEMMA ChangesKeepRows ==
    ASSUME EngagementInv, NEW p \in Managers, NEW r \in RowsKept, NEW next \in RowsOf(r), NEW name,
           HeldRow(r) \in RowsOf(r), next.version = HeldRow(r).version + 1,
           r # "org" /\ HeldRow(r).status = "archived" =>
               next = [HeldRow(r) EXCEPT !.status = "active", !.version = @ + 1],
           B!Keeps(p, r, HeldRow(r), next, name), asked' \in [Managers -> 0 .. MostAsked]
    PROVE  EngagementInv'
  <1> DEFINE e == B!Event(name, r, HeldRow(r), next)
             j == [step |-> "save", of |-> r, row |-> next, says |-> e]
  <1>1. e.of = r /\ e.to = next /\ e.version = next.version /\ e.from = HeldRow(r) BY DEF B!Event
  <1>2. requesting' = [requesting EXCEPT ![p] = j] /\ UNCHANGED <<space, org, grant, sent, heard, forms>>
    BY DEF B!Keeps, B!Asks
  <1> HIDE DEF e
  <1>3. j.step = "save" /\ j.of = r /\ j.row = next /\ j.says = e OBVIOUS
  <1> HIDE DEF j
  <1>4. HeldRow(r).version <= HeldRow(r).version /\ forms[r][HeldRow(r).version] = HeldRow(r)
    BY DEF EngagementInv, StoredRow, RowsOf, SpaceRow, FirmRow
  <1>5. SaysOfSave(j) BY <1>1, <1>3 DEF SaysOfSave
  <1>6. SaveOfRow(j) BY <1>1, <1>3, <1>4, <1>5 DEF SaveOfRow
  <1>7. RequestOfRow(j) BY <1>3, <1>6 DEF RequestOfRow
  <1> QED BY <1>2, <1>7, QuietRows DEF EngagementInv

LEMMA ReadsKeepRows ==
    ASSUME EngagementInv, NEW p \in Managers,
           \/ \E name \in SpaceNames : B!renameOrg(p, name) \/ B!RenameRead(p, name)
           \/ B!CloseRead(p) \/ B!ReopenRead(p)
    PROVE  EngagementInv'
  <1>1. RequestOfRow(B!Idle) BY DEF B!Idle, RequestOfRow
  <1>2. ASSUME B!Refuses(p), asked' \in [Managers -> 0 .. MostAsked] PROVE EngagementInv'
    BY <1>1, <1>2, QuietRows DEF B!Refuses, B!Asks, EngagementInv
  <1>3. ASSUME NEW name \in SpaceNames, B!renameOrg(p, name) PROVE EngagementInv'
    <2>1. org \in FirmRow /\ HeldRow("org") = org /\ RowsOf("org") = FirmRow /\ "org" \in RowsKept
      BY DEF EngagementInv, StoredRow, HeldRow, RowsOf, RowsKept
    <2>2. \/ B!Refuses(p)
          \/ B!Keeps(p, "org", org, B!Rename(org, name), "org.renamed")
      BY <1>3 DEF B!renameOrg, B!OrgByID, B!Firm
    <2>3. asked' \in [Managers -> 0 .. MostAsked] BY <1>3, StartsAreCounted DEF B!renameOrg
    <2>4. B!Rename(org, name) \in FirmRow /\ B!Rename(org, name).version = org.version + 1
      BY <2>1, NextFirmRow
    <2> DEFINE next == B!Rename(org, name)
    <2> HIDE DEF next
    <2>5. CASE B!Keeps(p, "org", org, next, "org.renamed")
      <3>1. B!Keeps(p, "org", HeldRow("org"), next, "org.renamed") BY <2>1, <2>5
      <3> QED BY <2>1, <2>3, <2>4, <3>1, ChangesKeepRows DEF next
    <2> QED BY <1>2, <2>2, <2>3, <2>5 DEF next
  <1>4. ASSUME NEW name \in SpaceNames, B!RenameRead(p, name) \/ B!CloseRead(p) \/ B!ReopenRead(p)
        PROVE  EngagementInv'
    <2> DEFINE w == requesting[p].of
               new == space[w]
    <2>1. MadeSpace(w) /\ asked' \in [Managers -> 0 .. MostAsked]
      BY <1>4 DEF B!RenameRead, B!CloseRead, B!ReopenRead, B!Steps, EngagementInv, RequestOfRow
    <2>2. /\ w \in RowsKept /\ w # "org" /\ HeldRow(w) = new /\ RowsOf(w) = SpaceRow /\ new \in SpaceRow
      BY <2>1, EngagementsAssumption DEF MadeSpace, RowsKept, HeldRow, RowsOf
    <2>3. \/ B!Refuses(p)
          \/ new.status # "archived" /\ B!Keeps(p, w, new, B!Rename(new, name), "workspace.renamed")
          \/ new.status # "archived" /\ B!Keeps(p, w, new, B!Archive(new), "workspace.archived")
          \/ B!Keeps(p, w, new, B!Reopen(new), "workspace.reopened")
      BY <1>4 DEF B!RenameRead, B!CloseRead, B!ReopenRead, B!ByID, B!Archived
    <2>4. B!Reopen(new) = [new EXCEPT !.status = "active", !.version = @ + 1] BY DEF B!Reopen
    <2> HIDE DEF w, new
    <2>5. ASSUME NEW next \in SpaceRow, next.version = new.version + 1, NEW what,
                 new.status # "archived" \/ next = B!Reopen(new), B!Keeps(p, w, new, next, what)
          PROVE  EngagementInv'
      <3>1. /\ next \in RowsOf(w) /\ HeldRow(w) \in RowsOf(w) /\ next.version = HeldRow(w).version + 1
            /\ w # "org" /\ HeldRow(w).status = "archived" =>
                   next = [HeldRow(w) EXCEPT !.status = "active", !.version = @ + 1]
            /\ B!Keeps(p, w, HeldRow(w), next, what)
        BY <2>2, <2>4, <2>5
      <3> QED BY <2>1, <2>2, <3>1, ChangesKeepRows
    <2> QED BY <1>2, <2>1, <2>2, <2>3, <2>5, NextSpaceRow
  <1>5. \E name \in SpaceNames : TRUE
    BY DEF EngagementInv, StoredRow, HeldRow, RowsOf, RowsKept, FirmRow
  <1> QED BY <1>3, <1>4, <1>5

LEMMA OpensKeepRows ==
    ASSUME EngagementInv, NEW p \in Managers,
           \/ \E w \in SpacesMade, name \in SpaceNames : B!openWorkspace(p, w, name)
           \/ B!Open(p)
           \/ \E w \in SpacesMade : B!GrantOpener(w, p)
    PROVE  EngagementInv'
  <1>1. RequestOfRow(B!Idle) BY DEF B!Idle, RequestOfRow
  <1>2. ASSUME NEW w \in SpacesMade, NEW name \in SpaceNames, B!openWorkspace(p, w, name)
        PROVE  EngagementInv'
    <2> DEFINE j == [step |-> "create", of |-> w, row |-> B!New(name)]
    <2>1. B!New(name) \in SpaceRow /\ B!New(name).version = 1 BY DEF B!New, SpaceRow
    <2>2. RequestOfRow(j) BY <2>1 DEF RequestOfRow
    <2>3. asked' \in [Managers -> 0 .. MostAsked] BY <1>2, StartsAreCounted DEF B!openWorkspace
    <2>4. /\ requesting' = [requesting EXCEPT ![p] = j]
          /\ UNCHANGED <<space, org, grant, sent, heard, forms>>
      BY <1>2 DEF B!openWorkspace, B!Asks
    <2> HIDE DEF j
    <2> QED BY <2>2, <2>3, <2>4, QuietRows DEF EngagementInv
  <1>3. CASE B!Open(p)
    <2> DEFINE j == requesting[p]
               both == {B!Event(n, j.of, j.row, j.row) : n \in {"workspace.created", "workspace.opened"}}
    <2>1. /\ j.step = "open" /\ requesting' = [requesting EXCEPT ![p] = B!Idle]
          /\ UNCHANGED <<space, org, grant, forms, asked>>
          /\ \/ heard' = heard \cup both /\ sent' = sent \cup {<<j.of, p>>}
             \/ UNCHANGED <<heard, sent>>
      BY <1>3 DEF B!Open, B!Steps, B!Asks
    <2>2. /\ j.of \in SpacesMade /\ j.row.version = 1 /\ Len(forms[j.of]) >= 1
          /\ forms[j.of][1] = j.row /\ Len(forms[j.of]) \in Nat
      <3>1. RequestOfRow(j) BY DEF EngagementInv
      <3>2. /\ j.of \in SpacesMade /\ j.row.version = 1 /\ Len(forms[j.of]) >= 1
            /\ forms[j.of][1] = j.row
        BY <2>1, <3>1 DEF RequestOfRow
      <3>3. StoredRow(j.of) BY <3>2 DEF EngagementInv, RowsKept
      <3> HIDE DEF j
      <3> QED BY <3>2, <3>3 DEF StoredRow
    <2>3. ASSUME NEW n PROVE ToldOfRow(B!Event(n, j.of, j.row, j.row))
      <3> DEFINE e == B!Event(n, j.of, j.row, j.row)
      <3>1. e.of = j.of /\ e.to = j.row /\ e.version = j.row.version BY DEF B!Event
      <3> HIDE DEF e, j
      <3>2. ToldOfRow(e) BY <2>2, <3>1 DEF ToldOfRow, RowsKept
      <3> QED BY <3>2 DEF e
    <2>4. \A e \in heard' : e \in heard \/ ToldOfRow(e) BY <2>1, <2>3
    <2>5. sent' \subseteq SpacesMade \X Managers BY <2>1, <2>2 DEF EngagementInv
    <2> QED BY <1>1, <2>1, <2>4, <2>5, QuietRows DEF EngagementInv
  <1>4. ASSUME NEW w \in SpacesMade, B!GrantOpener(w, p) PROVE EngagementInv'
    <2>1. /\ requesting' = [requesting EXCEPT ![p] = requesting[p]] /\ RequestOfRow(requesting[p])
          /\ UNCHANGED <<space, org, forms, asked, heard>>
          /\ grant' = [grant EXCEPT ![p] = @ \cup {w}] /\ sent' \subseteq sent
      BY <1>4 DEF B!GrantOpener, EngagementInv
    <2>2. grant' \in [Managers -> SUBSET SpacesMade] BY <2>1 DEF EngagementInv
    <2> QED BY <2>1, <2>2, QuietRows DEF EngagementInv
  <1> QED BY <1>2, <1>3, <1>4

LEMMA ScreensKeepRows ==
    ASSUME EngagementInv, NEW p \in Managers,
           \/ \E screen \in {"boot", "list"} : B!Enter(p, screen)
           \/ B!handle(p) \/ B!listEngagements(p) \/ B!Leave(p)
           \/ \E w \in SpacesMade :
                 B!renameEngagement(p, w) \/ B!closeEngagement(p, w) \/ B!reopenEngagement(p, w)
    PROVE  EngagementInv'
  <1>1. UNCHANGED <<space, org, grant, sent, heard, forms>> /\ asked' \in [Managers -> 0 .. MostAsked]
    BY StartsAreCounted DEF B!Enter, B!handle, B!listEngagements, B!Leave, B!renameEngagement,
         B!closeEngagement, B!reopenEngagement, B!Door, B!Steps, EngagementInv
  <1>2. ASSUME NEW j, requesting' = [requesting EXCEPT ![p] = j], RequestOfRow(j) PROVE EngagementInv'
    BY <1>1, <1>2, QuietRows DEF EngagementInv
  <1>3. ASSUME NEW screen \in {"boot", "list"}, B!Enter(p, screen) PROVE EngagementInv'
    <2> DEFINE j == [step |-> screen, reach |-> B!Reach(p)]
    <2>1. RequestOfRow(j) BY DEF RequestOfRow
    <2>2. requesting' = [requesting EXCEPT ![p] = j] BY <1>3 DEF B!Enter, B!Asks
    <2> HIDE DEF j
    <2> QED BY <1>2, <2>1, <2>2
  <1>4. ASSUME NEW rows, requesting' = [requesting EXCEPT ![p] = [step |-> "shown", rows |-> rows]],
               rows \subseteq B!AllWorkspacesForOrg
        PROVE  EngagementInv'
    <2> DEFINE j == [step |-> "shown", rows |-> rows]
    <2>1. ASSUME NEW v \in rows PROVE MadeSpace(v)
      <3>1. v \in SpacesMade /\ space[v].status # "none" BY <1>4 DEF B!AllWorkspacesForOrg
      <3>2. v \in RowsKept /\ v # "org" BY <3>1, EngagementsAssumption DEF RowsKept
      <3> QED BY <3>1, <3>2, UnmadeRow DEF EngagementInv, StoredRow, HeldRow, RowsOf, MadeSpace
    <2>2. RequestOfRow(j) BY <2>1 DEF RequestOfRow
    <2> HIDE DEF j
    <2> QED BY <1>2, <1>4, <2>2 DEF j
  <1>5. CASE B!handle(p) \/ B!listEngagements(p)
    <2>1. \E rows : /\ requesting' = [requesting EXCEPT ![p] = [step |-> "shown", rows |-> rows]]
                    /\ rows \subseteq B!AllWorkspacesForOrg
      <3>1. B!InOrg \subseteq B!AllWorkspacesForOrg
        BY DEF B!InOrg, B!WorkspacesForOrg, B!AllWorkspacesForOrg
      <3> QED BY <1>5, <3>1 DEF B!handle, B!listEngagements, B!Asks, B!Shown, B!AllForOrg
    <2> QED BY <1>4, <2>1
  <1>6. CASE B!Leave(p)
    <2>1. RequestOfRow(B!Idle) BY DEF B!Idle, RequestOfRow
    <2> QED BY <1>2, <1>6, <2>1 DEF B!Leave, B!Asks
  <1>7. ASSUME NEW w \in SpacesMade, NEW what \in {"rename", "close", "reopen"}, NEW closed,
               B!Door(p, w, what, closed)
        PROVE  EngagementInv'
    <2> DEFINE j == [step |-> what, of |-> w]
    <2>1. MadeSpace(w) BY <1>7 DEF B!Door, B!Steps, EngagementInv, RequestOfRow
    <2>2. RequestOfRow(j) BY <2>1 DEF RequestOfRow
    <2>3. requesting' = [requesting EXCEPT ![p] = j] BY <1>7 DEF B!Door, B!Asks
    <2> HIDE DEF j
    <2> QED BY <1>2, <2>2, <2>3
  <1> QED BY <1>3, <1>5, <1>6, <1>7 DEF B!renameEngagement, B!closeEngagement, B!reopenEngagement

LEMMA CreatesKeepRows ==
    ASSUME EngagementInv, NEW p \in Managers, B!Create(p)
    PROVE  EngagementInv' /\ (UNCHANGED space \/ space[requesting[p].of] = B!Unmade)
  <1> DEFINE j == requesting[p]
             w == j.of
             new == j.row
             k == [j EXCEPT !.step = "open"]
  <1>1. /\ j.step = "create" /\ w \in SpacesMade /\ new \in SpaceRow /\ new.version = 1
        /\ j = [step |-> "create", of |-> w, row |-> new]
    BY DEF B!Create, B!Steps, EngagementInv, RequestOfRow
  <1>2. UNCHANGED <<org, grant, sent, heard, asked>> BY DEF B!Create, B!Steps
  <1>3. CASE requesting' = [requesting EXCEPT ![p] = B!Idle] /\ UNCHANGED <<space, forms>>
    <2>1. RequestOfRow(B!Idle) BY DEF B!Idle, RequestOfRow
    <2> QED BY <1>2, <1>3, <2>1, QuietRows DEF EngagementInv
  <1>4. CASE B!InsertWorkspace(w, new) /\ requesting' = [requesting EXCEPT ![p] = k]
    <2>1. /\ space[w] = B!Unmade /\ B!FitsIndex(w, new) /\ space' = [space EXCEPT ![w] = new]
          /\ forms' = [forms EXCEPT ![w] = <<new>>]
      BY <1>4 DEF B!InsertWorkspace
    <2>2. w \in RowsKept /\ w # "org" /\ HeldRow(w) = B!Unmade /\ RowsOf(w) = SpaceRow
      BY <1>1, <2>1, EngagementsAssumption DEF RowsKept, HeldRow, RowsOf
    <2>3. HeldRow(w).version = 0 /\ forms[w] = <<>>
      BY <2>2, UnmadeRow DEF EngagementInv, StoredRow
    <2>4. forms' = [forms EXCEPT ![w] = Append(@, new)]
      <3> HIDE DEF new, w
      <3>1. Append(<<>>, new) = <<new>> OBVIOUS
      <3> QED BY <2>1, <2>3, <3>1, Zenon
    <2>5. \A s \in RowsKept : HeldRow(s)' = IF s = w THEN new ELSE HeldRow(s)
      BY <1>1, <1>2, <2>1, EngagementsAssumption DEF HeldRow, RowsKept, EngagementInv
    <2>6. space' = [v \in SpacesMade |-> space'[v]] BY <2>1 DEF EngagementInv
    <2>7. k.step = "open" /\ k.of = w /\ k.row = new
      <3> HIDE DEF new, w
      <3>1. k = [step |-> "open", of |-> w, row |-> new] BY <1>1
      <3> QED BY <3>1
    <2>8. (B!NamesAreTheirOwn)' BY <1>1, <2>1, NamesStayApart
    <2>9. space[requesting[p].of] = B!Unmade BY <2>1
    <2> HIDE DEF k, new, w, j
    <2>10. /\ w \in RowsKept /\ new \in RowsOf(w) /\ new.version = HeldRow(w).version + 1
           /\ requesting' = [requesting EXCEPT ![p] = k]
      BY <1>1, <1>4, <2>2, <2>3
    <2>11. EngagementInv'
      BY <1>1, <1>2, <2>2, <2>4, <2>5, <2>6, <2>7, <2>8, <2>10, StoresKeepRows
    <2> QED BY <2>9, <2>11
  <1> QED BY <1>3, <1>4 DEF B!Create, B!Asks

\* A write that is stored was of the row as it still is.
LEMMA SavesKeepRows ==
    ASSUME EngagementInv, NEW p \in Managers, B!Save(p) \/ B!SaveOrg(p)
    PROVE  /\ EngagementInv'
           /\ \/ UNCHANGED space
              \/ /\ requesting[p].of \in SpacesMade /\ SaysOfSave(requesting[p])
                 /\ space[requesting[p].of] = requesting[p].says.from
                 /\ space' = [space EXCEPT ![requesting[p].of] = requesting[p].row]
  <1> DEFINE j == requesting[p]
             r == j.of
             new == j.row
             k == [step |-> "tell", says |-> j.says]
  <1>1. j.step = "save" /\ SaveOfRow(j)
    BY DEF B!Save, B!SaveOrg, B!Steps, EngagementInv, RequestOfRow
  <1>2. UNCHANGED <<grant, sent, heard, asked>> BY DEF B!Save, B!SaveOrg, B!Steps
  <1>3. CASE requesting' = [requesting EXCEPT ![p] = B!Idle] /\ UNCHANGED <<space, org, forms>>
    <2>1. RequestOfRow(B!Idle) BY DEF B!Idle, RequestOfRow
    <2> QED BY <1>2, <1>3, <2>1, QuietRows DEF EngagementInv
  <1>4. ASSUME requesting' = [requesting EXCEPT ![p] = k],
               forms' = [forms EXCEPT ![r] = Append(@, new)],
               HeldRow(r).version = new.version - 1,
               \A s \in RowsKept : HeldRow(s)' = IF s = r THEN new ELSE HeldRow(s),
               space' = [w \in SpacesMade |-> space'[w]], (B!NamesAreTheirOwn)'
        PROVE  EngagementInv' /\ HeldRow(r) = j.says.from
    <2>1. /\ r \in RowsKept /\ new \in RowsOf(r) /\ new.version \in Nat
          /\ j.says.from.version \in Nat \ {0} /\ new.version = j.says.from.version + 1
          /\ j.says.of = r /\ j.says.to = new /\ j.says.version = new.version
          /\ forms[r][j.says.from.version] = j.says.from
      BY <1>1 DEF SaveOfRow, SaysOfSave, RowsOf, SpaceRow, FirmRow
    <2>2. StoredRow(r) BY <2>1 DEF EngagementInv
    <2>3. HeldRow(r).version \in Nat BY <2>2 DEF StoredRow
    <2>4. HeldRow(r).version = j.says.from.version /\ new.version = HeldRow(r).version + 1
      BY <1>4, <2>1, <2>3
    <2>5. HeldRow(r) = j.says.from BY <1>1, <2>4 DEF SaveOfRow
    <2>6. k.step = "tell" /\ k.says = j.says OBVIOUS
    <2>7. new.version > 1 => forms[r][new.version - 1] = j.says.from BY <2>1
    <2>8. /\ k.step = "tell" /\ k.says.of = r /\ k.says.to = new /\ k.says.version = new.version
          /\ new.version > 1 => forms[r][new.version - 1] = k.says.from
      BY <2>1, <2>6, <2>7
    <2>9. /\ requesting' = [requesting EXCEPT ![p] = k] /\ forms' = [forms EXCEPT ![r] = Append(@, new)]
          /\ space' = [w \in SpacesMade |-> space'[w]]
      BY <1>4
    <2> HIDE DEF k, new, r, j
    <2>10. \A s \in RowsKept : HeldRow(s)' = IF s = r THEN new ELSE HeldRow(s) BY <1>4
    <2>11. (B!NamesAreTheirOwn)' BY <1>4
    <2>12. r \in RowsKept /\ new \in RowsOf(r) /\ new.version = HeldRow(r).version + 1 BY <2>1, <2>4
    <2>13. EngagementInv' BY <1>2, <2>8, <2>9, <2>10, <2>11, <2>12, StoresKeepRows
    <2> QED BY <2>5, <2>13
  <1>5. CASE r # "org" /\ B!UpdateWorkspace(r, new) /\ B!Told(p) /\ UNCHANGED org
    <2>1. /\ space' = [space EXCEPT ![r] = new] /\ B!FitsIndex(r, new)
          /\ space[r].version = new.version - 1
          /\ requesting' = [requesting EXCEPT ![p] = k] /\ forms' = [forms EXCEPT ![r] = Append(@, new)]
      BY <1>5 DEF B!UpdateWorkspace, B!Told, B!Fresh, B!Asks
    <2>2. r \in SpacesMade /\ HeldRow(r) = space[r]
      BY <1>1, <1>5 DEF SaveOfRow, RowsKept, HeldRow
    <2>3. \A s \in RowsKept : HeldRow(s)' = IF s = r THEN new ELSE HeldRow(s)
      BY <1>5, <2>1, <2>2, EngagementsAssumption DEF HeldRow, RowsKept, EngagementInv
    <2>4. space' = [w \in SpacesMade |-> space'[w]] BY <2>1 DEF EngagementInv
    <2>5. (B!NamesAreTheirOwn)' BY <2>1, <2>2, NamesStayApart
    <2>6. EngagementInv' /\ HeldRow(r) = j.says.from BY <1>4, <2>1, <2>2, <2>3, <2>4, <2>5
    <2>7. SaysOfSave(j) BY <1>1 DEF SaveOfRow
    <2> QED BY <2>1, <2>2, <2>6, <2>7
  <1>6. CASE r = "org" /\ B!UpdateOrg(new) /\ B!Told(p) /\ UNCHANGED space
    <2>1. /\ org' = new /\ org.version = new.version - 1
          /\ requesting' = [requesting EXCEPT ![p] = k] /\ forms' = [forms EXCEPT ![r] = Append(@, new)]
      BY <1>6 DEF B!UpdateOrg, B!Told, B!Fresh, B!Asks
    <2>2. HeldRow(r) = org BY <1>6 DEF HeldRow
    <2>3. \A s \in RowsKept : HeldRow(s)' = IF s = r THEN new ELSE HeldRow(s)
      BY <1>6, <2>1, <2>2 DEF HeldRow
    <2>4. space' = [w \in SpacesMade |-> space'[w]] /\ (B!NamesAreTheirOwn)'
      BY <1>6 DEF EngagementInv, B!NamesAreTheirOwn, B!WorkspacesForOrg
    <2> QED BY <1>4, <1>6, <2>1, <2>2, <2>3, <2>4
  <1>7. CASE B!Save(p)
    <2>1. r # "org" /\ UNCHANGED org BY <1>7 DEF B!Save, B!Firm
    <2>2. \/ B!UpdateWorkspace(r, new) /\ B!Told(p)
          \/ requesting' = [requesting EXCEPT ![p] = B!Idle] /\ UNCHANGED <<space, forms>>
      BY <1>7 DEF B!Save, B!Asks
    <2> QED BY <1>3, <1>5, <2>1, <2>2
  <1>8. CASE B!SaveOrg(p)
    <2>1. r = "org" /\ UNCHANGED space BY <1>8 DEF B!SaveOrg, B!Firm
    <2>2. \/ B!UpdateOrg(new) /\ B!Told(p)
          \/ requesting' = [requesting EXCEPT ![p] = B!Idle] /\ UNCHANGED <<org, forms>>
      BY <1>8 DEF B!SaveOrg, B!Asks
    <2> QED BY <1>3, <1>6, <2>1, <2>2
  <1> QED BY <1>7, <1>8

LEMMA EngagementsBegin == B!Init => EngagementInv
  <1> SUFFICES ASSUME B!Init PROVE EngagementInv OBVIOUS
  <1>1. /\ space = [w \in SpacesMade |-> B!Unmade] /\ org \in FirmRow /\ org.version = 1
        /\ forms = [r \in RowsKept |-> IF r = "org" THEN <<org>> ELSE <<>>]
    BY DEF B!Init, B!Rows, B!Firm, RowsKept, FirmRow
  <1>2. ASSUME NEW r \in RowsKept PROVE StoredRow(r)
    <2>1. CASE r = "org"
      <3>1. HeldRow(r) = org /\ RowsOf(r) = FirmRow /\ forms[r] = <<org>>
        BY <1>1, <2>1 DEF HeldRow, RowsOf, RowsKept
      <3>2. <<org>> \in Seq(FirmRow) /\ Len(<<org>>) = 1 /\ <<org>>[1] = org BY <1>1
      <3> QED BY <1>1, <3>1, <3>2 DEF StoredRow
    <2>2. CASE r # "org"
      <3>1. HeldRow(r) = B!Unmade /\ RowsOf(r) = SpaceRow /\ forms[r] = <<>>
        BY <1>1, <2>2 DEF HeldRow, RowsOf, RowsKept
      <3>2. <<>> \in Seq(SpaceRow) /\ Len(<<>>) = 0 OBVIOUS
      <3> QED BY <2>2, <3>1, <3>2, UnmadeRow DEF StoredRow
    <2> QED BY <2>1, <2>2
  <1>3. /\ space = [w \in SpacesMade |-> space[w]] /\ forms = [r \in RowsKept |-> forms[r]] BY <1>1
  <1>4. /\ requesting = [p \in Managers |-> requesting[p]]
        /\ \A p \in Managers : RequestOfRow(requesting[p])
    BY DEF B!Init, B!Idle, RequestOfRow
  <1>5. /\ grant \in [Managers -> SUBSET SpacesMade] /\ sent \subseteq SpacesMade \X Managers
        /\ asked \in [Managers -> 0 .. MostAsked] /\ heard = {}
    BY EngagementsAssumption DEF B!Init
  <1>6. B!NamesAreTheirOwn BY <1>1, UnmadeRow DEF B!NamesAreTheirOwn, B!WorkspacesForOrg
  <1> QED BY <1>2, <1>3, <1>4, <1>5, <1>6 DEF EngagementInv

LEMMA EngagementStep == ASSUME EngagementInv, B!Next PROVE EngagementInv'
  <1>1. ASSUME NEW p \in Managers, B!emit(p) PROVE EngagementInv'
    <2>1. RequestOfRow(B!Idle) BY DEF B!Idle, RequestOfRow
    <2>2. /\ requesting' = [requesting EXCEPT ![p] = B!Idle] /\ requesting[p].step = "tell"
          /\ UNCHANGED <<space, org, grant, sent, forms, asked>>
          /\ heard' \in {heard, heard \cup {requesting[p].says}}
      BY <1>1 DEF B!emit, B!Steps, B!Asks
    <2>3. ToldOfRow(requesting[p].says) BY <2>2 DEF EngagementInv, RequestOfRow
    <2>4. \A e \in heard' : e \in heard \/ ToldOfRow(e) BY <2>2, <2>3
    <2> QED BY <2>1, <2>2, <2>4, QuietRows DEF EngagementInv
  <1> USE DEF B!Next
  <1>2. PICK p \in Managers :
          \/ \E name \in SpaceNames :
                B!renameOrg(p, name) \/ B!RenameRead(p, name)
                \/ \E w \in SpacesMade : B!openWorkspace(p, w, name)
          \/ \E screen \in {"boot", "list"} : B!Enter(p, screen)
          \/ B!handle(p) \/ B!listEngagements(p) \/ B!Leave(p)
          \/ B!Create(p) \/ B!Open(p) \/ B!CloseRead(p) \/ B!ReopenRead(p) \/ B!Save(p)
          \/ B!SaveOrg(p) \/ B!emit(p)
          \/ \E w \in SpacesMade : \/ B!renameEngagement(p, w) \/ B!closeEngagement(p, w)
                                   \/ B!reopenEngagement(p, w) \/ B!GrantOpener(w, p)
    OBVIOUS
  <1> QED BY <1>1, <1>2, ReadsKeepRows, OpensKeepRows, ScreensKeepRows, CreatesKeepRows, SavesKeepRows

LEMMA EngagementsStart == KnowingInit => (part = "engagements" => EngagementInv)
  BY EngagementsBegin DEF KnowingInit

LEMMA EngagementsLast ==
    (part = "engagements" => EngagementInv) /\ [KnowingNext]_all
        => (part = "engagements" => EngagementInv)'
  <1> SUFFICES ASSUME part = "engagements" => EngagementInv, [KnowingNext]_all, part' = "engagements"
               PROVE  EngagementInv'
    OBVIOUS
  <1>1. part = "engagements" /\ (B!Next \/ UNCHANGED worked) BY DEF KnowingNext, all
  <1>2. CASE UNCHANGED worked
    <2>1. \A r : HeldRow(r)' = HeldRow(r) BY <1>2 DEF worked, HeldRow
    <2>2. /\ \A d : ToldOfRow(d) => ToldOfRow(d)'
          /\ \A k : SaveOfRow(k) => SaveOfRow(k)'
          /\ \A w : MadeSpace(w) => MadeSpace(w)'
          /\ \A r : StoredRow(r) => StoredRow(r)'
      BY <1>2, <2>1 DEF worked, ToldOfRow, SaveOfRow, SaysOfSave, RowsOf, RowsKept, MadeSpace, StoredRow
    <2>3. \A k : RequestOfRow(k) => RequestOfRow(k)' BY <1>2, <2>2 DEF worked, RequestOfRow
    <2>4. B!NamesAreTheirOwn => (B!NamesAreTheirOwn)'
      BY <1>2 DEF worked, B!NamesAreTheirOwn, B!WorkspacesForOrg
    <2> QED BY <1>1, <1>2, <2>2, <2>3, <2>4 DEF worked, EngagementInv, RowsKept
  <1> QED BY <1>1, <1>2, EngagementStep

LEMMA EngagementsAreTrue == EngagementInv => B!TypeOK /\ B!EventsAreVersions /\ B!NamesAreTheirOwn
  <1> SUFFICES ASSUME EngagementInv PROVE B!TypeOK /\ B!EventsAreVersions /\ B!NamesAreTheirOwn
    OBVIOUS
  <1>1. ASSUME NEW w \in SpacesMade PROVE space[w] = B!Unmade \/ space[w] \in SpaceRow
    BY EngagementsAssumption DEF EngagementInv, StoredRow, HeldRow, RowsOf, RowsKept
  <1>2. org \in FirmRow BY DEF EngagementInv, StoredRow, HeldRow, RowsOf, RowsKept
  <1>3. B!TypeOK BY <1>1, <1>2 DEF EngagementInv, B!TypeOK, SpaceRow, FirmRow
  <1>4. B!EventsAreVersions BY DEF EngagementInv, ToldOfRow, B!EventsAreVersions
  <1> QED BY <1>3, <1>4 DEF EngagementInv

\* A write that had read an engagement open finds another version once it is closed.
LEMMA ClosedAreKept == ASSUME EngagementInv, B!Next PROVE B!ClosedIsLeftAlone
  <1> SUFFICES ASSUME NEW w \in SpacesMade, space[w].status = "archived"
               PROVE  space'[w] \in {space[w], [space[w] EXCEPT !.status = "active", !.version = @ + 1]}
    BY DEF B!ClosedIsLeftAlone, B!Archived
  <1>1. ASSUME NEW p \in Managers, B!Save(p) \/ B!SaveOrg(p), ~ UNCHANGED space
        PROVE  space'[w] \in {space[w], [space[w] EXCEPT !.status = "active", !.version = @ + 1]}
    <2>1. /\ requesting[p].of \in SpacesMade /\ SaysOfSave(requesting[p])
          /\ space[requesting[p].of] = requesting[p].says.from
          /\ space' = [space EXCEPT ![requesting[p].of] = requesting[p].row]
      BY <1>1, SavesKeepRows
    <2>2. CASE requesting[p].of = w
      <3>1. requesting[p].row = [requesting[p].says.from EXCEPT !.status = "active", !.version = @ + 1]
        BY <2>1, <2>2, EngagementsAssumption DEF SaysOfSave
      <3> QED BY <2>1, <2>2, <3>1 DEF EngagementInv
    <2>3. CASE requesting[p].of # w BY <2>1, <2>3 DEF EngagementInv
    <2> QED BY <2>2, <2>3
  <1>2. ASSUME NEW p \in Managers, B!Create(p), ~ UNCHANGED space PROVE space'[w] = space[w]
    <2>1. space[requesting[p].of] = B!Unmade BY <1>2, CreatesKeepRows
    <2>2. requesting[p].of # w BY <2>1, UnmadeRow
    <2> QED BY <1>2, <2>2 DEF B!Create, B!InsertWorkspace, EngagementInv
  <1>3. CASE UNCHANGED space BY <1>3
  <1>4. CASE ~ UNCHANGED space
    <2>1. \E p \in Managers : B!Save(p) \/ B!SaveOrg(p) \/ B!Create(p)
      BY <1>4 DEF B!Next, B!renameOrg, B!RenameRead, B!CloseRead, B!ReopenRead, B!Refuses, B!Keeps,
                  B!openWorkspace, B!Enter, B!handle, B!listEngagements, B!Leave, B!Open, B!emit,
                  B!renameEngagement, B!closeEngagement, B!reopenEngagement, B!Door, B!GrantOpener
    <2> QED BY <1>1, <1>2, <1>4, <2>1
  <1> QED BY <1>3, <1>4

-----------------------------------------------------------------------------
(* The reviews of the cleanup.                                             *)

ReviewsOf == CASE part = "reviews" -> {"r", "q"} [] part = "sweeps" -> {"r"} [] OTHER -> {}
ReviewsAreRows ==
    part \in {"reviews", "sweeps"} => review = [r \in ReviewsOf |-> review[r]]

LEMMA ReviewsStart == KnowingInit => ReviewsAreRows
  BY DEF KnowingInit, ReviewsAreRows, ReviewsOf, V!Init, X!Init

LEMMA ReviewsLast == ReviewsAreRows /\ [KnowingNext]_all => ReviewsAreRows'
  <1> SUFFICES ASSUME ReviewsAreRows, [KnowingNext]_all, part \in {"reviews", "sweeps"}, part' = part
               PROVE  review' = [r \in ReviewsOf |-> review'[r]]
    BY DEF KnowingNext, all, ReviewsAreRows, ReviewsOf
  <1> USE DEF ReviewsAreRows
  <1>1. V!Next \/ X!Next \/ UNCHANGED review BY DEF KnowingNext, all, swept
  <1>2. CASE V!Next
    BY <1>2 DEF V!Next, V!Cite, V!saveRetentionCleanupReview, V!OpenReview, V!DiscardReview,
       V!Refused, V!SaveReview, V!Reopened, V!discardRetentionCleanupReview, V!sweepRetentionCleanup,
       V!StartSweep, V!Sweep, V!FinishSweep, V!FailSweep, V!RecordSweepItem,
       V!listRetentionCleanupStatus, V!LookUp, V!Status, V!Reads
  <1>3. CASE X!Next
    BY <1>3 DEF X!Next, X!Cite, X!saveRetentionCleanupReview, X!OpenReview, X!DiscardReview,
       X!Refused, X!SaveReview, X!Reopened, X!discardRetentionCleanupReview, X!sweepRetentionCleanup,
       X!StartSweep, X!Sweep, X!FinishSweep, X!FailSweep, X!RecordSweepItem,
       X!listRetentionCleanupStatus, X!LookUp, X!Status, X!Reads
  <1>4. CASE UNCHANGED review BY <1>4
  <1> QED BY <1>1, <1>2, <1>3, <1>4

\* A discard asks again whether the review is open, and so does the end of a sweep.
LEMMA ReviewsThatAreDone ==
    ASSUME review = [r \in {"r", "q"} |-> review[r]], V!Next PROVE V!DoneStays
  <1> SUFFICES ASSUME NEW r \in {"r", "q"}, review[r].status \in {"completed", "discarded"}
               PROVE  review'[r] = review[r] \/ r \in rewritten'
    BY DEF V!DoneStays
  <1>1. ASSUME NEW p, NEW q \in {"r", "q"}, V!SaveReview(p, q)
        PROVE  review'[r] = review[r] \/ r \in rewritten'
    BY <1>1 DEF V!SaveReview, V!Reopened
  <1>2. ASSUME NEW p, V!DiscardReview(p) PROVE review'[r] = review[r]
    BY <1>2 DEF V!DiscardReview, V!Discards
  <1>3. ASSUME NEW w, V!FinishSweep(w) PROVE review'[r] = review[r]
    BY <1>3 DEF V!FinishSweep, V!Open
  <1> QED
    BY <1>1, <1>2, <1>3 DEF V!Next, V!Cite, V!saveRetentionCleanupReview, V!OpenReview, V!Refused,
       V!discardRetentionCleanupReview, V!sweepRetentionCleanup, V!StartSweep, V!Sweep, V!FailSweep,
       V!RecordSweepItem, V!listRetentionCleanupStatus, V!LookUp, V!Status, V!Reads

LEMMA SweptReviewsThatAreDone ==
    ASSUME review = [r \in {"r"} |-> review[r]], X!Next PROVE X!DoneStays
  <1> SUFFICES ASSUME NEW r \in {"r"}, review[r].status \in {"completed", "discarded"}
               PROVE  review'[r] = review[r] \/ r \in rewritten'
    BY DEF X!DoneStays
  <1>1. ASSUME NEW p, NEW q \in {"r"}, X!SaveReview(p, q)
        PROVE  review'[r] = review[r] \/ r \in rewritten'
    BY <1>1 DEF X!SaveReview, X!Reopened
  <1>2. ASSUME NEW p, X!DiscardReview(p) PROVE review'[r] = review[r]
    BY <1>2 DEF X!DiscardReview, X!Discards
  <1>3. ASSUME NEW w, X!FinishSweep(w) PROVE review'[r] = review[r]
    BY <1>3 DEF X!FinishSweep, X!Open
  <1> QED
    BY <1>1, <1>2, <1>3 DEF X!Next, X!Cite, X!saveRetentionCleanupReview, X!OpenReview, X!Refused,
       X!discardRetentionCleanupReview, X!sweepRetentionCleanup, X!StartSweep, X!Sweep, X!FailSweep,
       X!RecordSweepItem, X!listRetentionCleanupStatus, X!LookUp, X!Status, X!Reads

-----------------------------------------------------------------------------
(* What is told of the catalog, and what stands.                           *)

CatalogInv ==
    /\ FindingInv /\ TargetInv /\ MappingInv /\ ReviewsAreRows
    /\ part = "tools" => ToolInv
    /\ part = "engagements" => EngagementInv

LEMMA CatalogStarts == KnowingInit => CatalogInv
  BY FindingsStart, TargetsStart, MappingsStart, ReviewsStart, ToolsStart, EngagementsStart DEF CatalogInv

LEMMA CatalogLasts == CatalogInv /\ [KnowingNext]_all => CatalogInv'
  BY FindingsLast, TargetsLast, MappingsLast, ReviewsLast, ToolsLast, EngagementsLast DEF CatalogInv

\* The events of a target, of a tool and of an engagement are its history, live
\* targets and open engagements have names of their own, and one version of a field
\* is live, whatever is asked for and read at once.
THEOREM CatalogHolds == KnowingSpec => []CatalogIsKept
  <1>1. CatalogInv => CatalogIsKept
    BY TargetsAreTrue, MappingTypeOK, ToolsAreTrue, EngagementsAreTrue
       DEF CatalogInv, CatalogIsKept, MappingInv
  <1> QED BY <1>1, CatalogStarts, CatalogLasts, PTL DEF KnowingSpec

\* What a person or a save has settled stands whatever another had read before it.
THEOREM StandingHolds == KnowingSpec => StandingIsKept
  <1> DEFINE Stands ==
        /\ part = "findings" => F!KeepsRulings
        /\ part = "targets" => T!RootIsKept
        /\ part = "mappings" => M!HistoryIsKept
        /\ part = "reviews" => V!DoneStays
        /\ part = "sweeps" => X!DoneStays
        /\ part = "tools" => O!ArchivedStays
        /\ part = "engagements" => B!ClosedIsLeftAlone
  <1>1. CatalogInv /\ [KnowingNext]_all => [Stands]_all
    <2> SUFFICES ASSUME CatalogInv, KnowingNext PROVE Stands OBVIOUS
    <2>1. /\ part = "findings" => F!Next
          /\ part = "targets" => T!Next
          /\ part = "mappings" => M!Next
          /\ part = "reviews" => V!Next
          /\ part = "sweeps" => X!Next
          /\ part = "tools" => O!Next
          /\ part = "engagements" => B!Next
      BY DEF KnowingNext
    <2> QED BY <2>1, ScansKeepRulings, RootsAreKept, RetiredStayRetired, ReviewsThatAreDone,
                SweptReviewsThatAreDone, ArchivedAreKept, ClosedAreKept
                DEF CatalogInv, ReviewsAreRows, ReviewsOf
  <1>2. KnowingSpec => [][Stands]_all BY <1>1, CatalogStarts, CatalogLasts, PTL DEF KnowingSpec
  <1> QED BY <1>2 DEF StandingIsKept

-----------------------------------------------------------------------------
(* The graph.                                                              *)
(*                                                                         *)
(* The rows of the graph only grow, so what a delivery has passed stays    *)
(* done however it ends; and what is observed of an invocation no longer   *)
(* changes once its event is there.                                        *)

TodoOf(i) == [store : SUBSET Subjects, claim : SUBSET Subjects,
              asked : BOOLEAN, cite : SUBSET Cites[i]]

\* A delivery has passed what it no longer has to write, and asks for the citations
\* when nothing else is left.
Passed(i) ==
  LET t == todo[i] IN
    /\ \A s \in SubjectsOf(i) \ Unfit :
          s \in t.store \/ (fragment[s] > 0 /\ (MayClaim(s) => s \in assets \/ s \in t.claim))
    /\ \A s, q \in t.claim : s = q
    /\ t.asked => t.store = {} /\ t.claim = {}
    /\ t.asked /\ ~retired =>
          \A c \in ProvenanceForInvocation(i) : c[1] \in SubjectsOf(i) \ Unfit /\ Drawable(c) =>
              c \in t.cite \/ <<c[2], c[1], i>> \in edges \/ <<c[1], c[2], i>> \in missing
Assembled(i) ==
    /\ \A s \in SubjectsOf(i) \ Unfit : fragment[s] > 0 /\ (MayClaim(s) => s \in assets)
    /\ ~retired => Accounted(i)

DeliveryOf(i) ==
    /\ observed[i] \subseteq Says[i]
    /\ todo[i] = Idle \/ (todo[i] \in TodoOf(i) /\ event[i] = "pending" /\ Passed(i))
    /\ event[i] = "none" \/ said[i] = "done"
    /\ event[i] \in {"none", "pending"} => failed[i] < MaxAttempts
    /\ event[i] = "drained" => Assembled(i)

GraphTypes ==
    /\ observed = [i \in Invocations |-> observed[i]]
    /\ said \in [Invocations -> {"running", "done", "dead"}]
    /\ event \in [Invocations -> {"none", "pending", "drained", "buried"}]
    /\ failed \in [Invocations -> 0 .. MaxAttempts]
    /\ todo = [i \in Invocations |-> todo[i]]
    /\ fragment \in [Subjects -> Nat] /\ assets \subseteq Subjects
    /\ edges \subseteq Subjects \X Subjects \X Invocations
    /\ missing \subseteq Subjects \X Subjects \X Invocations
    /\ retired \in BOOLEAN /\ faults \in 0 .. MaxFaults

\* What is announced, and what the target names, is the root there is.
RootIsOne ==
    /\ minted \in 0 .. MaxDeliveries /\ added \in BOOLEAN
    /\ root \in 0 .. minted /\ targetRoot \in {0, root}
    /\ announced \subseteq {root} /\ (root = 0 => announced = {})

GraphInv == GraphTypes /\ RootIsOne /\ \A i \in Invocations : DeliveryOf(i)

LEMMA PageIsObserved == \A i \in Invocations : SubjectsOf(i) \subseteq observed[i]
  BY DEF SubjectsOf, ForInvocation, Firsts

\* The rows of the graph, before a step and after it.
TableGrows ==
    /\ \A s \in Subjects : fragment[s] > 0 => fragment'[s] > 0
    /\ assets \subseteq assets' /\ edges \subseteq edges' /\ missing \subseteq missing'
    /\ retired => retired'

\* An invocation whose delivery does not move.
Rests(i) ==
    /\ observed'[i] = observed[i] /\ said'[i] = said[i] /\ event'[i] = event[i]
    /\ failed'[i] = failed[i] /\ todo'[i] = todo[i]

LEMMA PassedStays ==
    ASSUME NEW i \in Invocations, observed[i] \subseteq Says[i], observed'[i] = observed[i],
           todo'[i] = todo[i], TableGrows, Passed(i)
    PROVE  Passed(i)'
  <1>1. SubjectsOf(i)' = SubjectsOf(i) /\ ProvenanceForInvocation(i)' = ProvenanceForInvocation(i)
    BY DEF SubjectsOf, ForInvocation, ProvenanceForInvocation
  <1>2. SubjectsOf(i) \subseteq Subjects BY PageIsObserved, GraphAssumption
  <1> QED BY <1>1, <1>2 DEF Passed, TableGrows, MayClaim, Drawable

LEMMA AssembledStays ==
    ASSUME NEW i \in Invocations, observed[i] \subseteq Says[i], observed'[i] = observed[i],
           TableGrows, Assembled(i)
    PROVE  Assembled(i)'
  <1>1. SubjectsOf(i)' = SubjectsOf(i) /\ ProvenanceForInvocation(i)' = ProvenanceForInvocation(i)
    BY DEF SubjectsOf, ForInvocation, ProvenanceForInvocation
  <1>2. SubjectsOf(i) \subseteq Subjects BY PageIsObserved, GraphAssumption
  <1> QED BY <1>1, <1>2 DEF Assembled, Accounted, TableGrows, MayClaim, Drawable

LEMMA RestingStays ==
    ASSUME NEW i \in Invocations, DeliveryOf(i), Rests(i), TableGrows
    PROVE  DeliveryOf(i)'
  <1>1. (todo[i] = Idle \/ (todo[i] \in TodoOf(i) /\ event[i] = "pending" /\ Passed(i)))'
    BY PassedStays DEF DeliveryOf, Rests, TodoOf
  <1>2. (event[i] = "drained" => Assembled(i))' BY AssembledStays DEF DeliveryOf, Rests
  <1> QED BY <1>1, <1>2 DEF DeliveryOf, Rests

LEMMA GraphBegins == Init => GraphInv
  <1> SUFFICES ASSUME Init PROVE GraphInv OBVIOUS
  <1>1. GraphTypes
    <2>1. observed = [i \in Invocations |-> observed[i]] /\ todo = [i \in Invocations |-> todo[i]]
      BY DEF Init
    <2>2. 0 \in 0 .. MaxAttempts /\ 0 \in 0 .. MaxFaults BY GraphAssumption
    <2>3. failed \in [Invocations -> 0 .. MaxAttempts] /\ faults \in 0 .. MaxFaults
      BY <2>2 DEF Init
    <2> QED BY <2>1, <2>3 DEF Init, GraphTypes
  <1>2. RootIsOne BY DEF Init, RootIsOne, MaxDeliveries
  <1>3. \A i \in Invocations : DeliveryOf(i) BY GraphAssumption DEF Init, DeliveryOf
  <1> QED BY <1>1, <1>2, <1>3 DEF GraphInv

\* A step that leaves the invocations where they are.
LEMMA RootsKeepGraph ==
    ASSUME GraphInv, RootFor \/ Retire \/ \E e \in 1 .. MaxDeliveries : SetRoot(e)
    PROVE  GraphInv'
  <1> USE DEF GraphInv
  <1>1. UNCHANGED <<observed, said, event, failed, todo, table, faults>> /\ retired' \in {retired, TRUE}
    BY DEF RootFor, Retire, SetRoot
  <1>2. TableGrows
    <2>1. retired => retired' BY <1>1
    <2> QED BY <1>1, <2>1 DEF TableGrows, table
  <1>3. ASSUME NEW i \in Invocations PROVE DeliveryOf(i)'
    BY <1>1, <1>2, RestingStays DEF Rests
  <1>4. GraphTypes' BY <1>1 DEF GraphTypes, table
  <1>5. CASE RootFor
    <2>1. minted' = minted + 1 /\ minted < MaxDeliveries /\ targetRoot' = targetRoot
          /\ added' \in BOOLEAN
      BY <1>5 DEF RootFor, NewEntity
    <2>2. root' = IF root = 0 THEN minted + 1 ELSE root
      BY <1>5 DEF RootFor, CreateEntity, NewEntity
    <2>3. announced' = announced \cup {root'} BY <1>5 DEF RootFor
    <2>4. RootIsOne' BY <2>1, <2>2, <2>3 DEF RootIsOne, MaxDeliveries
    <2> QED BY <1>3, <1>4, <2>4
  <1>6. CASE Retire
    <2>1. RootIsOne' BY <1>6 DEF Retire, roots, RootIsOne
    <2> QED BY <1>3, <1>4, <2>1
  <1>7. ASSUME NEW e \in 1 .. MaxDeliveries, SetRoot(e) PROVE GraphInv'
    <2>1. e = root /\ targetRoot' \in {targetRoot, e} BY <1>7 DEF SetRoot, RootIsOne
    <2>2. announced' \subseteq announced /\ UNCHANGED <<root, added, minted>> BY <1>7 DEF SetRoot
    <2>3. RootIsOne' BY <2>1, <2>2 DEF RootIsOne
    <2> QED BY <1>3, <1>4, <2>3
  <1> QED BY <1>5, <1>6, <1>7

\* A step of one invocation: the others rest.
OthersRest(i) == \A j \in Invocations \ {i} : Rests(j)

LEMMA OneMoves ==
    ASSUME GraphInv, NEW i \in Invocations, OthersRest(i), TableGrows, UNCHANGED roots,
           GraphTypes', DeliveryOf(i)'
    PROVE  GraphInv'
  <1>1. \A j \in Invocations \ {i} : DeliveryOf(j)' BY RestingStays DEF OthersRest, GraphInv
  <1>2. RootIsOne' BY DEF GraphInv, RootIsOne, roots
  <1> QED BY <1>1, <1>2 DEF GraphInv

LEMMA ExtractionKeepsGraph ==
    ASSUME GraphInv, NEW i \in Invocations,
           Report(i) \/ ExtractionDies(i) \/ \E s \in Subjects : CreateObservation(i, s)
    PROVE  GraphInv'
  <1> USE DEF GraphInv
  <1>1. UNCHANGED <<failed, todo, table, roots, retired>> /\ said[i] = "running"
    BY DEF Report, ExtractionDies, CreateObservation
  <1>2. TableGrows BY <1>1 DEF TableGrows, table
  <1>3. event[i] = "none" /\ todo[i] = Idle BY <1>1 DEF DeliveryOf
  <1>4. CASE Report(i)
    <2>1. said' = [said EXCEPT ![i] = "done"] /\ event' = [event EXCEPT ![i] = "pending"]
          /\ observed' = observed /\ faults' = faults
      BY <1>4 DEF Report
    <2>2. OthersRest(i) BY <1>1, <2>1 DEF OthersRest, Rests, GraphTypes
    <2>3. GraphTypes' BY <1>1, <2>1 DEF GraphTypes, table
    <2>4. DeliveryOf(i)' BY <1>1, <1>3, <2>1 DEF DeliveryOf, GraphTypes
    <2> QED BY <1>1, <1>2, <2>2, <2>3, <2>4, OneMoves
  <1>5. CASE ExtractionDies(i)
    <2>1. said' = [said EXCEPT ![i] = "dead"] /\ event' = event
          /\ observed' = observed /\ faults' = faults + 1 /\ faults < MaxFaults
      BY <1>5 DEF ExtractionDies, Fault
    <2>2. OthersRest(i) BY <1>1, <2>1 DEF OthersRest, Rests, GraphTypes
    <2>3. GraphTypes' BY <1>1, <2>1, GraphAssumption DEF GraphTypes, table
    <2>4. DeliveryOf(i)' BY <1>1, <1>3, <2>1 DEF DeliveryOf, GraphTypes
    <2> QED BY <1>1, <1>2, <2>2, <2>3, <2>4, OneMoves
  <1>6. ASSUME NEW s \in Subjects, CreateObservation(i, s) PROVE GraphInv'
    <2>1. observed' = [observed EXCEPT ![i] = @ \cup {s}] /\ UNCHANGED <<said, event, faults>>
          /\ s \in Says[i]
      BY <1>6 DEF CreateObservation, Firsts, Remaining
    <2>2. OthersRest(i) BY <1>1, <2>1 DEF OthersRest, Rests, GraphTypes
    <2>3. GraphTypes' BY <1>1, <2>1 DEF GraphTypes, table
    <2>4. DeliveryOf(i)' BY <1>1, <1>3, <2>1 DEF DeliveryOf, GraphTypes
    <2> QED BY <1>1, <1>2, <2>2, <2>3, <2>4, OneMoves
  <1> QED BY <1>4, <1>5, <1>6

\* A delivery that comes to nothing leaves what it wrote.
LEMMA FailuresKeepGraph ==
    ASSUME GraphInv, NEW i \in Invocations, NoRoot(i) \/ Cut(i) PROVE GraphInv'
  <1> USE DEF GraphInv
  <1>1. UNCHANGED <<observed, said, table, roots, retired>> /\ faults' \in 0 .. MaxFaults
    BY GraphAssumption DEF NoRoot, Cut, Fault, GraphTypes
  <1>2. event[i] = "pending" BY DEF NoRoot, Cut, DeliveryOf
  <1>3. /\ failed' = [failed EXCEPT ![i] = @ + 1] /\ todo' = [todo EXCEPT ![i] = Idle]
        /\ event' = [event EXCEPT ![i] = IF failed[i] + 1 = MaxAttempts THEN "buried" ELSE @]
    BY DEF NoRoot, Cut, Failed
  <1>4. failed[i] < MaxAttempts /\ failed[i] \in Nat /\ said[i] = "done"
    BY <1>2 DEF DeliveryOf, GraphTypes
  <1>5. TableGrows BY <1>1 DEF TableGrows, table
  <1>6. OthersRest(i) BY <1>1, <1>3 DEF OthersRest, Rests, GraphTypes
  <1>7. /\ todo'[i] = Idle /\ failed'[i] = failed[i] + 1
        /\ event'[i] = IF failed[i] + 1 = MaxAttempts THEN "buried" ELSE "pending"
    BY <1>2, <1>3 DEF GraphTypes
  <1>8. GraphTypes'
    <2>1. failed[i] + 1 \in 0 .. MaxAttempts BY <1>4, GraphAssumption
    <2>2. failed' \in [Invocations -> 0 .. MaxAttempts] BY <1>3, <2>1 DEF GraphTypes
    <2>3. event' \in [Invocations -> {"none", "pending", "drained", "buried"}]
      BY <1>3 DEF GraphTypes
    <2>4. todo' = [j \in Invocations |-> todo'[j]] BY <1>3 DEF GraphTypes
    <2> QED BY <1>1, <2>2, <2>3, <2>4 DEF GraphTypes, table
  <1>9. DeliveryOf(i)' BY <1>1, <1>4, <1>7, GraphAssumption DEF DeliveryOf
  <1> QED BY <1>1, <1>5, <1>6, <1>8, <1>9, OneMoves

\* A step of a delivery to the rest of what it has to write.
LEMMA DeliveryMoves ==
    ASSUME GraphInv, NEW i \in Invocations, NEW STATE t, t \in TodoOf(i),
           UNCHANGED <<observed, said, event, failed, roots, retired, faults>>,
           todo' = [todo EXCEPT ![i] = t], event[i] = "pending", TableGrows, Passed(i)',
           fragment' \in [Subjects -> Nat], assets' \subseteq Subjects,
           edges' \subseteq Subjects \X Subjects \X Invocations,
           missing' \subseteq Subjects \X Subjects \X Invocations
    PROVE  GraphInv'
  <1> USE DEF GraphInv
  <1>1. OthersRest(i) BY DEF OthersRest, Rests, GraphTypes
  <1>2. GraphTypes' BY DEF GraphTypes
  <1>3. todo'[i] = t BY DEF GraphTypes
  <1>4. DeliveryOf(i)' BY <1>3 DEF DeliveryOf, TodoOf
  <1> QED BY <1>1, <1>2, <1>4, OneMoves

\* A delivery begins with all of its page before it.
LEMMA BeginsKeepGraph == ASSUME GraphInv, NEW i \in Invocations, Begin(i) PROVE GraphInv'
  <1> USE DEF GraphInv
  <1> DEFINE t == [store |-> SubjectsOf(i), claim |-> {}, asked |-> SubjectsOf(i) = {}, cite |-> {}]
  <1>1. /\ UNCHANGED <<observed, said, event, failed, table, roots, retired, faults>>
        /\ todo' = [todo EXCEPT ![i] = t] /\ event[i] = "pending"
    BY DEF Begin
  <1>2. TableGrows BY <1>1 DEF TableGrows, table
  <1>3. SubjectsOf(i) \subseteq Subjects BY PageIsObserved, GraphAssumption DEF DeliveryOf
  <1>4. t \in TodoOf(i) BY <1>3 DEF TodoOf
  <1>5. todo'[i] = t BY <1>1 DEF GraphTypes
  <1>6. SubjectsOf(i)' = SubjectsOf(i) /\ ProvenanceForInvocation(i)' = ProvenanceForInvocation(i)
    BY <1>1 DEF SubjectsOf, ForInvocation, ProvenanceForInvocation
  <1>7. Passed(i)'
    <2> DEFINE n == todo'[i]  page == SubjectsOf(i)
    <2>1. n.store = SubjectsOf(i) /\ n.claim = {} /\ n.cite = {} /\ n.asked = (SubjectsOf(i) = {})
      <3>1. n = [store |-> page, claim |-> {}, asked |-> page = {}, cite |-> {}] BY <1>5
      <3> HIDE DEF page, n
      <3>2. n.store = page /\ n.claim = {} /\ n.cite = {} /\ n.asked = (page = {}) BY ONLY <3>1
      <3> QED BY <3>2 DEF page
    <2>2. SubjectsOf(i)' = n.store BY <1>6, <2>1
    <2> HIDE DEF n
    <2>3. \A s \in SubjectsOf(i)' \ Unfit : s \in n.store BY <2>2
    <2>4. n.asked => n.store = {} BY <2>1
    <2>5. n.asked => SubjectsOf(i)' = {} BY <2>2, <2>4
    <2> QED BY <2>1, <2>3, <2>4, <2>5 DEF Passed, n
  <1> HIDE DEF t
  <1> QED BY <1>1, <1>2, <1>4, <1>5, <1>7, DeliveryMoves DEF GraphTypes, table

LEMMA StoresKeepGraph ==
    ASSUME GraphInv, NEW i \in Invocations, NEW s \in Subjects, Store(i, s) PROVE GraphInv'
  <1> USE DEF GraphInv
  <1> DEFINE mine == IF Fit(s) /\ MayClaim(s) THEN {s} ELSE {}
             t == [todo[i] EXCEPT !.store = @ \ {s}, !.claim = mine]
  <1>1. todo[i] # Idle /\ s \in todo[i].store /\ todo[i].claim = {} BY DEF Store
  <1>2. todo[i] \in TodoOf(i) /\ event[i] = "pending" /\ Passed(i) BY <1>1 DEF DeliveryOf
  <1>3. ~todo[i].asked BY <1>1, <1>2 DEF Passed
  <1>4. /\ UNCHANGED <<observed, said, event, failed, assets, edges, missing, roots, retired, faults>>
        /\ todo' = [todo EXCEPT ![i].store = @ \ {s}, ![i].claim = mine]
        /\ Upsert(s)
    BY DEF Store
  <1>5. todo' = [todo EXCEPT ![i] = t] BY <1>4 DEF GraphTypes
  <1>6. /\ fragment' \in [Subjects -> Nat]
        /\ \A q \in Subjects : fragment[q] > 0 => fragment'[q] > 0
        /\ s \notin Unfit => fragment'[s] > 0
    BY <1>4 DEF Upsert, UpsertFragment, Seen, Fit, GraphTypes
  <1>7. TableGrows BY <1>4, <1>6 DEF TableGrows
  <1>8. /\ t \in TodoOf(i)
        /\ todo'[i].store = todo[i].store \ {s} /\ todo'[i].claim = mine /\ ~todo'[i].asked
    BY <1>2, <1>3, <1>5 DEF TodoOf, GraphTypes
  <1>9. SubjectsOf(i)' = SubjectsOf(i) /\ SubjectsOf(i) \subseteq Subjects
    BY <1>4, PageIsObserved, GraphAssumption DEF SubjectsOf, ForInvocation, DeliveryOf
  <1> HIDE DEF t
  <1>10. Passed(i)'
    <2> DEFINE n == todo'[i]
    <2>1. n.store = todo[i].store \ {s} /\ n.claim = mine /\ ~n.asked BY <1>8
    <2> HIDE DEF n
    <2>2. \A q, p \in n.claim : q = p BY <2>1
    <2>3. ASSUME NEW q \in SubjectsOf(i), q \notin Unfit
          PROVE  q \in n.store \/ (fragment'[q] > 0 /\ (MayClaim(q) => q \in assets' \/ q \in n.claim))
      <3>1. CASE q = s BY <1>4, <1>6, <2>1, <2>3, <3>1 DEF Fit
      <3>2. CASE q # s
        <4>1. q \in todo[i].store \/ (fragment[q] > 0 /\ (MayClaim(q) => q \in assets))
          BY <1>1, <1>2, <2>3 DEF Passed
        <4> QED BY <1>4, <1>6, <1>9, <2>1, <2>3, <3>2, <4>1
      <3> QED BY <3>1, <3>2
    <2> QED BY <1>9, <2>1, <2>2, <2>3 DEF Passed, MayClaim, n
  <1> QED BY <1>2, <1>4, <1>5, <1>6, <1>7, <1>8, <1>10, DeliveryMoves DEF GraphTypes

LEMMA AttributionsKeepGraph ==
    ASSUME GraphInv, NEW i \in Invocations, NEW s \in Subjects, Attribute(i, s) PROVE GraphInv'
  <1> USE DEF GraphInv
  <1> DEFINE t == [todo[i] EXCEPT !.claim = {}]
  <1>1. todo[i] # Idle /\ s \in todo[i].claim BY DEF Attribute
  <1>2. todo[i] \in TodoOf(i) /\ event[i] = "pending" /\ Passed(i) BY <1>1 DEF DeliveryOf
  <1>3. ~todo[i].asked BY <1>1, <1>2 DEF Passed
  <1>4. /\ UNCHANGED <<observed, said, event, failed, fragment, edges, missing, roots, retired, faults>>
        /\ todo' = [todo EXCEPT ![i].claim = {}] /\ assets' = assets \cup {s}
    BY DEF Attribute, InsertAttribution
  <1>5. todo' = [todo EXCEPT ![i] = t] BY <1>4 DEF GraphTypes
  <1>6. TableGrows BY <1>4 DEF TableGrows
  <1>7. /\ t \in TodoOf(i)
        /\ todo'[i].store = todo[i].store /\ todo'[i].claim = {} /\ ~todo'[i].asked
    BY <1>2, <1>3, <1>5 DEF TodoOf, GraphTypes
  <1>8. SubjectsOf(i)' = SubjectsOf(i) BY <1>4 DEF SubjectsOf, ForInvocation
  <1> HIDE DEF t
  <1>9. Passed(i)' BY <1>1, <1>2, <1>4, <1>7, <1>8 DEF Passed, MayClaim
  <1> QED BY <1>2, <1>4, <1>5, <1>6, <1>7, <1>9, DeliveryMoves DEF GraphTypes

LEMMA AskingKeepsGraph == ASSUME GraphInv, NEW i \in Invocations, AskProvenances(i) PROVE GraphInv'
  <1> USE DEF GraphInv
  <1> DEFINE t == [[todo[i] EXCEPT !.asked = TRUE] EXCEPT !.cite = CitedBy(i)]
  <1>1. todo[i] # Idle /\ todo[i].store = {} /\ todo[i].claim = {} BY DEF AskProvenances
  <1>2. todo[i] \in TodoOf(i) /\ event[i] = "pending" /\ Passed(i) BY <1>1 DEF DeliveryOf
  <1>3. /\ UNCHANGED <<observed, said, event, failed, table, roots, retired, faults>>
        /\ todo' = [todo EXCEPT ![i].asked = TRUE, ![i].cite = CitedBy(i)]
    BY DEF AskProvenances
  <1>4. todo' = [todo EXCEPT ![i] = t] BY <1>3 DEF GraphTypes
  <1>5. TableGrows BY <1>3 DEF TableGrows, table
  <1>6. CitedBy(i) \in SUBSET Cites[i] /\ (~retired => CitedBy(i) = ProvenanceForInvocation(i))
    BY DEF CitedBy, Consumes, ProvenanceForInvocation
  <1>7. /\ t \in TodoOf(i)
        /\ todo'[i].store = {} /\ todo'[i].claim = {} /\ todo'[i].cite = CitedBy(i)
    BY <1>1, <1>2, <1>4, <1>6 DEF TodoOf, GraphTypes
  <1> HIDE DEF t
  <1>8. SubjectsOf(i)' = SubjectsOf(i) /\ ProvenanceForInvocation(i)' = ProvenanceForInvocation(i)
    BY <1>3 DEF SubjectsOf, ForInvocation, ProvenanceForInvocation
  <1>9. Passed(i)' BY <1>1, <1>2, <1>3, <1>6, <1>7, <1>8 DEF Passed, MayClaim, table
  <1> QED BY <1>2, <1>3, <1>4, <1>5, <1>7, <1>9, DeliveryMoves DEF GraphTypes, table

\* A citation is only read when the fragments it may speak of are there.
LEMMA DerivationsKeepGraph ==
    ASSUME GraphInv, NEW i \in Invocations, NEW c \in Cites[i], Derive(i, c) PROVE GraphInv'
  <1> USE DEF GraphInv
  <1> DEFINE t == [todo[i] EXCEPT !.cite = @ \ {c}]
  <1>1. todo[i] # Idle /\ c \in todo[i].cite BY DEF Derive
  <1>2. todo[i] \in TodoOf(i) /\ event[i] = "pending" /\ Passed(i) BY <1>1 DEF DeliveryOf
  <1>3. /\ UNCHANGED <<observed, said, event, failed, fragment, assets, roots, retired, faults>>
        /\ todo' = [todo EXCEPT ![i].cite = @ \ {c}]
    BY DEF Derive
  <1>4. c \in Subjects \X Subjects BY GraphAssumption
  <1>5. /\ edges \subseteq edges' /\ missing \subseteq missing'
        /\ edges' \subseteq edges \cup {<<c[2], c[1], i>>}
        /\ missing' \subseteq missing \cup {<<c[1], c[2], i>>}
        /\ fragment[c[1]] > 0 /\ Drawable(c) => <<c[2], c[1], i>> \in edges' \/ <<c[1], c[2], i>> \in missing'
    BY DEF Derive, FragmentFor, Draw, RecordUnresolved, NewUnresolved
  <1>6. /\ edges' \subseteq Subjects \X Subjects \X Invocations
        /\ missing' \subseteq Subjects \X Subjects \X Invocations
    BY <1>4, <1>5 DEF GraphTypes
  <1>7. todo' = [todo EXCEPT ![i] = t] BY <1>3 DEF GraphTypes
  <1>8. TableGrows BY <1>3, <1>5 DEF TableGrows
  <1>9. /\ t \in TodoOf(i)
        /\ todo'[i].store = todo[i].store /\ todo'[i].claim = todo[i].claim
        /\ todo'[i].asked = todo[i].asked /\ todo'[i].cite = todo[i].cite \ {c}
    BY <1>2, <1>7 DEF TodoOf, GraphTypes
  <1> HIDE DEF t
  <1> DEFINE n == todo'[i]
  <1>10. /\ SubjectsOf(i)' = SubjectsOf(i)
         /\ ProvenanceForInvocation(i)' = ProvenanceForInvocation(i)
    BY <1>3 DEF SubjectsOf, ForInvocation, ProvenanceForInvocation
  <1>11. /\ \A s \in SubjectsOf(i) \ Unfit :
              s \in n.store \/ (fragment'[s] > 0 /\ (MayClaim(s) => s \in assets' \/ s \in n.claim))
         /\ \A s, q \in n.claim : s = q
         /\ n.asked => n.store = {} /\ n.claim = {}
    BY <1>2, <1>3, <1>9 DEF Passed
  <1>12. ASSUME n.asked, ~retired', NEW d \in ProvenanceForInvocation(i),
                d[1] \in SubjectsOf(i) \ Unfit, Drawable(d)
         PROVE  d \in n.cite \/ <<d[2], d[1], i>> \in edges' \/ <<d[1], d[2], i>> \in missing'
    <2>1. CASE d = c
      <3>1. fragment[c[1]] > 0 BY <1>2, <1>9, <1>12, <2>1 DEF Passed
      <3> QED BY <1>5, <1>12, <2>1, <3>1
    <2>2. CASE d # c
      <3>1. d \in todo[i].cite \/ <<d[2], d[1], i>> \in edges \/ <<d[1], d[2], i>> \in missing
        BY <1>2, <1>3, <1>9, <1>12 DEF Passed
      <3> QED BY <1>5, <1>9, <2>2, <3>1
    <2> QED BY <2>1, <2>2
  <1>13. Passed(i)' BY <1>10, <1>11, <1>12 DEF Passed, MayClaim, Drawable
  <1> QED BY <1>2, <1>3, <1>6, <1>7, <1>8, <1>9, <1>13, DeliveryMoves DEF GraphTypes

\* The last statement is made: what was to be passed is done.
LEMMA DrainsKeepGraph == ASSUME GraphInv, NEW i \in Invocations, Drained(i) PROVE GraphInv'
  <1> USE DEF GraphInv
  <1> DEFINE t == [store |-> {}, claim |-> {}, asked |-> TRUE, cite |-> {}]
  <1>1. /\ UNCHANGED <<observed, said, failed, table, roots, retired, faults>>
        /\ event' = [event EXCEPT ![i] = "drained"] /\ todo' = [todo EXCEPT ![i] = Idle]
        /\ todo[i] = t
    BY DEF Drained
  <1>2. t # Idle /\ t.store = {} /\ t.claim = {} /\ t.asked /\ t.cite = {}
    <2>1. \A x : x = Idle => DOMAIN x = {"idle"} BY DEF Idle
    <2>2. DOMAIN t = {"store", "claim", "asked", "cite"} OBVIOUS
    <2> QED BY <2>1, <2>2
  <1> HIDE DEF t
  <1>3. event[i] = "pending" /\ Passed(i) BY <1>1, <1>2 DEF DeliveryOf
  <1>4. Assembled(i) BY <1>1, <1>2, <1>3 DEF Passed, Assembled, Accounted
  <1>5. TableGrows BY <1>1 DEF TableGrows, table
  <1>6. Assembled(i)' BY <1>1, <1>4, <1>5, AssembledStays DEF DeliveryOf
  <1>7. OthersRest(i) BY <1>1 DEF OthersRest, Rests, GraphTypes
  <1>8. GraphTypes' BY <1>1 DEF GraphTypes, table
  <1>9. todo'[i] = Idle /\ event'[i] = "drained" /\ said[i] = "done"
    BY <1>1, <1>3 DEF GraphTypes, DeliveryOf
  <1>10. DeliveryOf(i)' BY <1>1, <1>6, <1>9 DEF DeliveryOf
  <1> QED BY <1>1, <1>5, <1>7, <1>8, <1>10, OneMoves

LEMMA GraphStep == ASSUME GraphInv, Next PROVE GraphInv'
  BY RootsKeepGraph, ExtractionKeepsGraph, BeginsKeepGraph, FailuresKeepGraph, StoresKeepGraph,
     AttributionsKeepGraph, AskingKeepsGraph, DerivationsKeepGraph, DrainsKeepGraph DEF Next

LEMMA GraphStutters == ASSUME GraphInv, UNCHANGED vars PROVE GraphInv'
  <1> USE DEF GraphInv, vars
  <1>1. TableGrows BY DEF TableGrows, table
  <1>2. GraphTypes' BY DEF GraphTypes, table
  <1>3. RootIsOne' BY DEF RootIsOne, roots
  <1>4. \A i \in Invocations : DeliveryOf(i)' BY <1>1, RestingStays DEF Rests
  <1> QED BY <1>2, <1>3, <1>4

LEMMA GraphLasts == GraphInv /\ [KnowingNext]_all => GraphInv'
  <1> SUFFICES ASSUME GraphInv, [KnowingNext]_all PROVE GraphInv' OBVIOUS
  <1>1. Next \/ UNCHANGED vars BY DEF KnowingNext, all
  <1> QED BY <1>1, GraphStep, GraphStutters

LEMMA GraphIsTrue == GraphInv => TypeOK /\ DrainedIsAssembled /\ TargetNamesItsRoot
  <1> SUFFICES ASSUME GraphInv PROVE TypeOK /\ DrainedIsAssembled /\ TargetNamesItsRoot OBVIOUS
  <1> USE DEF GraphInv
  <1>1. TypeOK BY DEF TypeOK, GraphTypes, RootIsOne, DeliveryOf, TodoOf
  <1>2. DrainedIsAssembled BY DEF DrainedIsAssembled, DeliveryOf, Assembled
  <1>3. TargetNamesItsRoot BY DEF TargetNamesItsRoot, RootIsOne
  <1> QED BY <1>1, <1>2, <1>3

\* Once the event of an extraction is drained, however often its delivery was cut, what
\* was observed is a fragment, what scope covers an asset, and what was cited an edge or
\* a row that says why not; and a target names the one root it has.
THEOREM GraphHolds == KnowingSpec => []GraphIsWhole
  <1>1. GraphInv => GraphIsWhole BY GraphIsTrue DEF GraphIsWhole
  <1>2. KnowingInit => GraphInv BY GraphBegins DEF KnowingInit
  <1> QED BY <1>1, <1>2, GraphLasts, PTL DEF KnowingSpec
=============================================================================
