---------------------------- MODULE OutboxProofs ----------------------------
(***************************************************************************)
(* Proofs about Outbox, for any number of events, dispatchers and          *)
(* handlers, any lease, batch size and backoff, and any number of faults.  *)
(*                                                                         *)
(* The safety properties are not inductive alone: that a drained event was *)
(* handled by all rests on what each dispatcher knows of the events it has *)
(* in hand, and that a buried one was tried often enough rests on every    *)
(* attempt count in memory being no later than the one in the table.  That *)
(* leases exclude rests on what is held being due after its lease is over. *)
(***************************************************************************)
EXTENDS OutboxLease, FiniteSetTheorems, TLAPS

USE DEF Handlers

\* What a dispatcher holds was committed before it claimed it.
HeldIsPublished ==
    \A d \in Dispatchers :
        /\ \A e \in todo[d] \cup done[d] : row[e] # "none"
        /\ cur[d] # NoEvent => row[cur[d]] # "none"

\* The handlers before the next one have accepted the event in hand, and a
\* dispatcher with none in hand begins with the first handler.
HandedOn ==
    \A d \in Dispatchers :
        /\ cur[d] = NoEvent => next[d] = 1
        /\ cur[d] # NoEvent =>
              \A g \in Handlers : g < next[d] => cur[d] \in handled[g]

\* An event waiting to be drained was accepted by all.
DoneIsHandled ==
    \A d \in Dispatchers : \A e \in done[d] : HandledByAll(e)

\* An attempt count in memory is never ahead of the table.
ReadIsPast ==
    \A d \in Dispatchers, e \in Events :
        row[e] # "drained" => read[d][e] <= attempts[e]

IInv ==
    /\ TypeOK
    /\ HeldIsPublished
    /\ HandedOn
    /\ DoneIsHandled
    /\ ReadIsPast
    /\ NothingLost
    /\ ChainOrder
    /\ BuriedIsExhausted

-----------------------------------------------------------------------------
\* The number of events published so far, the written_at of the next one.
LEMMA PublishedCount == Cardinality(Published) \in Nat
  <1>1. Published \subseteq Events BY DEF Published
  <1>2. IsFiniteSet(Published) BY <1>1, EventsAssumption, FS_Subset
  <1> QED BY <1>2, FS_CardinalityType

\* What a recorded failure may do to its row.
LEMMA RecordedFailure ==
    ASSUME TypeOK, NEW d \in Dispatchers, cur[d] \in Events,
           IF row[cur[d]] = "drained" THEN UNCHANGED <<row, attempts, dueIn>>
           ELSE IF Exhausted(read[d][cur[d]] + 1) THEN BuryRow(cur[d])
           ELSE DeferRow(cur[d], Backoff[read[d][cur[d]] + 1])
    PROVE  /\ row' \in [Events -> RowState]
           /\ attempts' \in [Events -> Nat]
           /\ dueIn' \in [Events -> Nat]
  <1> DEFINE e == cur[d]
             tried == read[d][e] + 1
  <1>1. tried \in Nat \ {0} BY DEF TypeOK
  <1>2. ASSUME ~Exhausted(tried) PROVE Backoff[tried] \in Nat
    <2>1. tried \in 1..MaxAttempts BY <1>1, <1>2, ConfigAssumption DEF Exhausted
    <2> QED BY <2>1, ConfigAssumption
  <1>3. CASE row[e] = "drained" BY <1>3 DEF TypeOK
  <1>4. CASE row[e] # "drained" /\ Exhausted(tried)
    <2>1. BuryRow(e) BY <1>4
    <2> QED BY <2>1 DEF TypeOK, BuryRow, RowState
  <1>5. CASE row[e] # "drained" /\ ~Exhausted(tried)
    <2>1. DeferRow(e, Backoff[tried]) BY <1>5
    <2> QED BY <2>1, <1>5, <1>2 DEF TypeOK, DeferRow
  <1> QED BY <1>3, <1>4, <1>5

-----------------------------------------------------------------------------
\* The type invariant is inductive.
LEMMA TypeStep == TypeOK /\ [Next]_vars => TypeOK'
  <1> SUFFICES ASSUME TypeOK, [Next]_vars PROVE TypeOK'
    OBVIOUS
  <1>1. ASSUME NEW e \in Events, Publish(e) PROVE TypeOK'
    BY <1>1, PublishedCount DEF TypeOK, Publish, RowState, local
  <1>2. ASSUME NEW d \in Dispatchers, Claim(d) PROVE TypeOK'
    <2>1. PICK S \in SUBSET Due :
            /\ LeaseOut(S)
            /\ todo' = [todo EXCEPT ![d] = S]
            /\ read' = [read EXCEPT ![d] =
                          [e \in Events |-> IF e \in S THEN attempts[e] ELSE 0]]
      BY <1>2 DEF Claim
    <2>2. S \subseteq Events BY DEF Due
    <2>3. dueIn' \in [Events -> Nat]
      BY <2>1, ConfigAssumption DEF TypeOK, LeaseOut
    <2> QED BY <1>2, <2>1, <2>2, <2>3 DEF TypeOK, Claim
  <1>3. ASSUME NEW d \in Dispatchers, ClaimLost(d) PROVE TypeOK'
    BY <1>3, ConfigAssumption DEF TypeOK, ClaimLost, LeaseOut, local
  <1>4. ASSUME NEW d \in Dispatchers, Take(d) PROVE TypeOK'
    BY <1>4 DEF TypeOK, Take, table
  <1>5. ASSUME NEW d \in Dispatchers, HandlerReturns(d) PROVE TypeOK'
    <2>1. next[d] \in Handlers BY <1>5, HandlersAssumption DEF TypeOK, HandlerReturns
    <2>2. cur[d] \in Events BY <1>5 DEF TypeOK, HandlerReturns
    <2>3. next' \in [Dispatchers -> 1..(NHandlers + 1)]
      BY <1>5, <2>1, HandlersAssumption DEF TypeOK, HandlerReturns
    <2> QED BY <1>5, <2>1, <2>2, <2>3 DEF TypeOK, HandlerReturns, table
  <1>6. ASSUME NEW d \in Dispatchers, PutDown(d)
        PROVE  /\ cur' \in [Dispatchers -> Events \cup {NoEvent}]
               /\ next' \in [Dispatchers -> 1..(NHandlers + 1)]
               /\ read' \in [Dispatchers -> [Events -> Nat]]
    BY <1>6, HandlersAssumption DEF TypeOK, PutDown
  <1>7. ASSUME NEW d \in Dispatchers, Accepted(d) PROVE TypeOK'
    BY <1>7, <1>6 DEF TypeOK, Accepted, table
  <1>8. ASSUME NEW d \in Dispatchers, HandlerFails(d) PROVE TypeOK'
    <2>1. cur[d] \in Events BY <1>8 DEF TypeOK, HandlerFails
    <2>2. /\ row' \in [Events -> RowState]
          /\ attempts' \in [Events -> Nat]
          /\ dueIn' \in [Events -> Nat]
      BY <1>8, <2>1, RecordedFailure DEF HandlerFails
    <2> QED BY <1>8, <1>6, <2>2 DEF TypeOK, HandlerFails
  <1>9. ASSUME NEW d \in Dispatchers, FailureUnrecorded(d) PROVE TypeOK'
    BY <1>9, <1>6, ConfigAssumption DEF TypeOK, FailureUnrecorded, table
  <1>10. ASSUME NEW d \in Dispatchers, Delivered(d) PROVE TypeOK'
    BY <1>10 DEF TypeOK, Delivered, RowState
  <1>11. ASSUME NEW d \in Dispatchers, Crash(d) PROVE TypeOK'
    BY <1>11, HandlersAssumption, ConfigAssumption DEF TypeOK, Crash, table
  <1>12. ASSUME Tick PROVE TypeOK'
    BY <1>12 DEF TypeOK, Tick, local
  <1>13. CASE UNCHANGED vars BY <1>13 DEF TypeOK, vars
  <1> QED
    BY <1>1, <1>2, <1>3, <1>4, <1>5, <1>7, <1>8, <1>9, <1>10, <1>11, <1>12, <1>13
    DEF Next, Work, Fault

LEMMA TypeInit == Init => TypeOK
  BY HandlersAssumption, ConfigAssumption DEF Init, TypeOK, RowState

\* Every variable keeps its type in every reachable state.
THEOREM TypeCorrect == Spec => []TypeOK
  BY TypeInit, TypeStep, PTL DEF Spec

-----------------------------------------------------------------------------
\* The conjuncts beyond the types.
Safety ==
    /\ HeldIsPublished
    /\ HandedOn
    /\ DoneIsHandled
    /\ ReadIsPast
    /\ NothingLost
    /\ ChainOrder
    /\ BuriedIsExhausted

LEMMA SafetyInit == Init => Safety
  BY DEF Init, Safety, HeldIsPublished, HandedOn, DoneIsHandled, ReadIsPast,
         NothingLost, ChainOrder, BuriedIsExhausted, HandledByAll

\* A row that exists is never unpublished, and a drained one stays drained.
LEMMA RowsAdvance ==
    ASSUME TypeOK, [Next]_vars
    PROVE  \A e \in Events : /\ row[e] # "none" => row'[e] # "none"
                             /\ row[e] = "drained" => row'[e] = "drained"
  <1>1. CASE UNCHANGED <<row>> BY <1>1
  <1>2. ASSUME NEW e \in Events, Publish(e) PROVE row' = [row EXCEPT ![e] = "pending"] /\ row[e] = "none"
    BY <1>2 DEF Publish
  <1>3. ASSUME NEW d \in Dispatchers, HandlerFails(d)
        PROVE  \/ row' = row
               \/ row' = [row EXCEPT ![cur[d]] = "buried"] /\ row[cur[d]] # "drained"
    BY <1>3 DEF HandlerFails, BuryRow, DeferRow
  <1>4. ASSUME NEW d \in Dispatchers, Delivered(d)
        PROVE  row' = [e \in Events |-> IF e \in done[d] THEN "drained" ELSE row[e]]
    BY <1>4 DEF Delivered
  <1> QED
    BY <1>1, <1>2, <1>3, <1>4
    DEF Next, Work, Fault, TypeOK, vars, table, Claim, ClaimLost, Take, HandlerReturns,
        Accepted, FailureUnrecorded, Crash, Tick

\* handled only grows.
LEMMA HandledGrows ==
    ASSUME TypeOK, [Next]_vars
    PROVE  \A h \in Handlers : handled[h] \subseteq handled'[h]
  <1>1. CASE UNCHANGED handled BY <1>1
  <1>2. ASSUME NEW d \in Dispatchers, HandlerReturns(d)
        PROVE  handled' = [handled EXCEPT ![next[d]] = @ \cup {cur[d]}]
    BY <1>2 DEF HandlerReturns
  <1>3. ASSUME NEW d \in Dispatchers, HandlerReturns(d)
        PROVE  \A h \in Handlers : handled[h] \subseteq handled'[h]
    <2>1. handled' = [handled EXCEPT ![next[d]] = @ \cup {cur[d]}]
      BY <1>2, <1>3
    <2> TAKE h \in Handlers
    <2>2. handled'[h] = handled[h] \/ handled'[h] = handled[h] \cup {cur[d]}
      BY <2>1 DEF TypeOK
    <2> QED BY <2>2
  <1> QED
    BY <1>1, <1>3
    DEF Next, Work, Fault, vars, table, Publish, Claim, ClaimLost, Take,
        Accepted, HandlerFails, FailureUnrecorded, Delivered, Crash, Tick

\* Every step preserves the safety conjuncts.
LEMMA SafetyStep == TypeOK /\ Safety /\ [Next]_vars => Safety'
  <1> SUFFICES ASSUME TypeOK, Safety, [Next]_vars PROVE Safety'
    OBVIOUS
  <1> USE DEF Safety
  <1>a. TypeOK' BY TypeStep
  <1>b. \A e \in Events : /\ row[e] # "none" => row'[e] # "none"
                          /\ row[e] = "drained" => row'[e] = "drained"
    BY RowsAdvance
  <1>c. \A h \in Handlers : handled[h] \subseteq handled'[h]
    BY HandledGrows
  <1>1. ASSUME NEW e \in Events, Publish(e) PROVE Safety'
    BY <1>1 DEF TypeOK, Publish, local, HeldIsPublished, HandedOn, DoneIsHandled,
                ReadIsPast, NothingLost, ChainOrder, BuriedIsExhausted, HandledByAll
  <1>2. ASSUME NEW d \in Dispatchers, Claim(d) PROVE Safety'
    <2>1. PICK S \in SUBSET Due :
            /\ todo' = [todo EXCEPT ![d] = S]
            /\ read' = [read EXCEPT ![d] =
                          [e \in Events |-> IF e \in S THEN attempts[e] ELSE 0]]
      BY <1>2 DEF Claim
    <2>2. UNCHANGED <<row, attempts, handled, cur, next, done>> BY <1>2 DEF Claim
    <2>3. HeldIsPublished' BY <2>1, <2>2 DEF TypeOK, HeldIsPublished, Due
    <2>4. ReadIsPast' BY <2>1, <2>2 DEF TypeOK, ReadIsPast
    <2>5. HandedOn' /\ DoneIsHandled' /\ NothingLost' /\ ChainOrder' /\ BuriedIsExhausted'
      BY <2>2 DEF HandedOn, DoneIsHandled, NothingLost, ChainOrder, BuriedIsExhausted,
                  HandledByAll
    <2> QED BY <2>3, <2>4, <2>5
  <1>3. ASSUME NEW d \in Dispatchers, ClaimLost(d) PROVE Safety'
    BY <1>3 DEF ClaimLost, local, HeldIsPublished, HandedOn, DoneIsHandled, ReadIsPast,
                NothingLost, ChainOrder, BuriedIsExhausted, HandledByAll
  <1>4. ASSUME NEW d \in Dispatchers, Take(d) PROVE Safety'
    BY <1>4 DEF TypeOK, Take, table, HeldIsPublished, HandedOn, DoneIsHandled, ReadIsPast,
                NothingLost, ChainOrder, BuriedIsExhausted, HandledByAll
  <1>5. ASSUME NEW d \in Dispatchers, HandlerReturns(d) PROVE Safety'
    <2> DEFINE e == cur[d]
               h == next[d]
    <2>1. e \in Events /\ h \in Handlers
      BY <1>5, HandlersAssumption DEF TypeOK, HandlerReturns
    <2>2. /\ handled' = [handled EXCEPT ![h] = @ \cup {e}]
          /\ next' = [next EXCEPT ![d] = @ + 1]
          /\ UNCHANGED <<row, attempts, todo, read, cur, done>>
      BY <1>5 DEF HandlerReturns, table
    <2>3. \A g \in Handlers : g < h => e \in handled[g]
      BY <2>1, NoEventAssumption DEF HandedOn
    <2>4. HandedOn'
      BY <2>1, <2>2, <2>3, <1>c, NoEventAssumption DEF TypeOK, HandedOn
    <2>5. DoneIsHandled' /\ NothingLost'
      BY <2>2, <1>c DEF TypeOK, DoneIsHandled, NothingLost, HandledByAll
    <2>6. ChainOrder'
      <3> SUFFICES ASSUME NEW f \in Events, NEW k \in Handlers, f \in handled'[k]
                   PROVE  row[f] # "none" /\ \A g \in 1..k : f \in handled'[g]
        BY <2>2 DEF ChainOrder
      <3>1. \A g \in 1..k : g \in Handlers BY HandlersAssumption
      <3>2. CASE f \in handled[k] BY <3>1, <3>2, <1>c DEF ChainOrder
      <3>3. CASE f \notin handled[k]
        <4>1. f = e /\ k = h BY <3>3, <2>1, <2>2 DEF TypeOK
        <4>2. e \in handled'[h] BY <2>1, <2>2 DEF TypeOK
        <4>3. row[e] # "none" BY <2>1, NoEventAssumption DEF HeldIsPublished
        <4>4. \A g \in 1..k : e \in handled'[g]
          BY <4>1, <4>2, <3>1, <2>1, <2>3, <1>c
        <4> QED BY <4>1, <4>3, <4>4
      <3> QED BY <3>2, <3>3
    <2>7. HeldIsPublished' /\ ReadIsPast' /\ BuriedIsExhausted'
      BY <2>2 DEF HeldIsPublished, ReadIsPast, BuriedIsExhausted
    <2> QED BY <2>4, <2>5, <2>6, <2>7
  <1>6. ASSUME NEW d \in Dispatchers, PutDown(d), UNCHANGED <<handled, todo>>
        PROVE  /\ HandedOn'
               /\ \A d1 \in Dispatchers : cur'[d1] # NoEvent => cur'[d1] = cur[d1]
               /\ \A d1 \in Dispatchers, e \in Events : read'[d1][e] <= read[d1][e]
    BY <1>6, NoEventAssumption DEF TypeOK, PutDown, HandedOn
  <1>d. ASSUME NEW d \in Dispatchers, PutDown(d), UNCHANGED <<row, attempts, handled, todo>>
        PROVE  ReadIsPast'
    <2> SUFFICES ASSUME NEW d1 \in Dispatchers, NEW e \in Events, row[e] # "drained"
                 PROVE  read'[d1][e] <= attempts[e]
      BY <1>d DEF ReadIsPast
    <2>1. read'[d1][e] <= read[d1][e] BY <1>d, <1>6
    <2>2. read[d1][e] <= attempts[e] BY DEF ReadIsPast
    <2>3. read[d1][e] \in Nat /\ read'[d1][e] \in Nat /\ attempts[e] \in Nat
      BY <1>a DEF TypeOK
    <2> QED BY <2>1, <2>2, <2>3
  <1>7. ASSUME NEW d \in Dispatchers, Accepted(d) PROVE Safety'
    <2>1. /\ PutDown(d)
          /\ UNCHANGED <<row, attempts, handled, todo>>
          /\ done' = [done EXCEPT ![d] = @ \cup {cur[d]}]
      BY <1>7 DEF Accepted, table
    <2>2. cur[d] \in Events /\ HandledByAll(cur[d])
      BY <1>7, NoEventAssumption, HandlersAssumption DEF TypeOK, Accepted, HandedOn, HandledByAll
    <2>3. HandedOn' BY <2>1, <1>6
    <2>4. DoneIsHandled' BY <2>1, <2>2 DEF TypeOK, DoneIsHandled, HandledByAll
    <2>5. HeldIsPublished'
      BY <2>1, <2>2, <1>6, <1>7, NoEventAssumption DEF TypeOK, HeldIsPublished, Accepted
    <2>6. ReadIsPast' BY <2>1, <1>d
    <2>7. NothingLost' /\ ChainOrder' /\ BuriedIsExhausted'
      BY <2>1 DEF NothingLost, ChainOrder, BuriedIsExhausted, HandledByAll
    <2> QED BY <2>3, <2>4, <2>5, <2>6, <2>7
  <1>8. ASSUME NEW d \in Dispatchers, HandlerFails(d) PROVE Safety'
    <2> DEFINE e == cur[d]
               tried == read[d][e] + 1
    <2>1. /\ PutDown(d)
          /\ UNCHANGED <<handled, todo, done>>
          /\ IF row[e] = "drained" THEN UNCHANGED <<row, attempts, dueIn>>
             ELSE IF Exhausted(tried) THEN BuryRow(e)
             ELSE DeferRow(e, Backoff[tried])
      BY <1>8 DEF HandlerFails
    <2>2. e \in Events /\ e # NoEvent BY <1>8 DEF TypeOK, HandlerFails
    <2>3. HandedOn' BY <2>1, <1>6
    <2>4. HeldIsPublished' BY <2>1, <1>6, <1>a, <1>b DEF TypeOK, HeldIsPublished
    <2>5. /\ \A f \in Events : attempts[f] <= attempts'[f]
          /\ \A f \in Events : row'[f] = "drained" => row[f] = "drained"
          /\ row'[e] = "buried" /\ row[e] # "buried" => attempts'[e] >= MaxAttempts
          /\ \A f \in Events : f # e => row'[f] = row[f]
      <3>1. CASE row[e] = "drained" BY <3>1, <2>1 DEF TypeOK
      <3>2. CASE row[e] # "drained" /\ Exhausted(tried)
        <4>1. BuryRow(e) BY <3>2, <2>1
        <4>2. read[d][e] <= attempts[e] BY <3>2, <2>2 DEF ReadIsPast
        <4> QED
          BY <4>1, <4>2, <3>2, <2>2, ConfigAssumption DEF TypeOK, BuryRow, Exhausted
      <3>3. CASE row[e] # "drained" /\ ~Exhausted(tried)
        <4>1. DeferRow(e, Backoff[tried]) BY <3>3, <2>1
        <4> QED BY <4>1, <2>2 DEF TypeOK, DeferRow
      <3> QED BY <3>1, <3>2, <3>3
    <2>6. ReadIsPast'
      <3> SUFFICES ASSUME NEW d1 \in Dispatchers, NEW f \in Events, row'[f] # "drained"
                   PROVE  read'[d1][f] <= attempts'[f]
        BY DEF ReadIsPast
      <3>1. read'[d1][f] <= read[d1][f] BY <2>1, <1>6
      <3>2. attempts[f] <= attempts'[f] BY <2>5
      <3>3. read[d1][f] <= attempts[f] BY <1>b DEF ReadIsPast
      <3>4. /\ read[d1][f] \in Nat /\ read'[d1][f] \in Nat
            /\ attempts[f] \in Nat /\ attempts'[f] \in Nat
        BY <1>a DEF TypeOK
      <3> QED BY <3>1, <3>2, <3>3, <3>4
    <2>7. DoneIsHandled' BY <2>1 DEF DoneIsHandled, HandledByAll
    <2>8. NothingLost' BY <2>1, <2>5 DEF NothingLost, HandledByAll
    <2>9. ChainOrder' BY <2>1, <1>b DEF ChainOrder
    <2>10. BuriedIsExhausted'
      <3> SUFFICES ASSUME NEW f \in Events, row'[f] = "buried"
                   PROVE  attempts'[f] >= MaxAttempts
        BY DEF BuriedIsExhausted
      <3>1. CASE row[f] = "buried"
        <4>1. attempts[f] >= MaxAttempts BY <3>1 DEF BuriedIsExhausted
        <4>2. attempts[f] <= attempts'[f] BY <2>5
        <4>3. attempts[f] \in Nat /\ attempts'[f] \in Nat BY <1>a DEF TypeOK
        <4> QED BY <4>1, <4>2, <4>3, ConfigAssumption
      <3>2. CASE row[f] # "buried" BY <3>2, <2>5
      <3> QED BY <3>1, <3>2
    <2> QED BY <2>3, <2>4, <2>6, <2>7, <2>8, <2>9, <2>10
  <1>9. ASSUME NEW d \in Dispatchers, FailureUnrecorded(d) PROVE Safety'
    <2>1. /\ PutDown(d)
          /\ UNCHANGED <<row, attempts, handled, todo, done>>
      BY <1>9 DEF FailureUnrecorded, table
    <2>2. HandedOn' BY <2>1, <1>6
    <2>3. HeldIsPublished' BY <2>1, <1>6, <1>a DEF TypeOK, HeldIsPublished
    <2>4. ReadIsPast' BY <2>1, <1>d
    <2>5. DoneIsHandled' /\ NothingLost' /\ ChainOrder' /\ BuriedIsExhausted'
      BY <2>1 DEF DoneIsHandled, NothingLost, ChainOrder, BuriedIsExhausted, HandledByAll
    <2> QED BY <2>2, <2>3, <2>4, <2>5
  <1>10. ASSUME NEW d \in Dispatchers, Delivered(d) PROVE Safety'
    <2>1. /\ row' = [e \in Events |-> IF e \in done[d] THEN "drained" ELSE row[e]]
          /\ attempts' = [e \in Events |-> IF e \in done[d] THEN 0 ELSE attempts[e]]
          /\ done' = [done EXCEPT ![d] = {}]
          /\ UNCHANGED <<handled, todo, read, cur, next>>
      BY <1>10 DEF Delivered
    <2>2. NothingLost' BY <2>1 DEF NothingLost, DoneIsHandled, HandledByAll
    <2>3. HeldIsPublished' BY <2>1, <1>a, <1>b, NoEventAssumption DEF TypeOK, HeldIsPublished
    <2>4. HandedOn' BY <2>1 DEF HandedOn
    <2>5. DoneIsHandled' BY <2>1 DEF TypeOK, DoneIsHandled, HandledByAll
    <2>6. ReadIsPast' /\ BuriedIsExhausted' BY <2>1 DEF TypeOK, ReadIsPast, BuriedIsExhausted
    <2>7. ChainOrder' BY <2>1, <1>b DEF ChainOrder
    <2> QED BY <2>2, <2>3, <2>4, <2>5, <2>6, <2>7
  <1>11. ASSUME NEW d \in Dispatchers, Crash(d) PROVE Safety'
    BY <1>11 DEF TypeOK, Crash, table, HeldIsPublished, HandedOn, DoneIsHandled, ReadIsPast,
                 NothingLost, ChainOrder, BuriedIsExhausted, HandledByAll
  <1>12. ASSUME Tick \/ UNCHANGED vars PROVE Safety'
    <2>1. UNCHANGED <<row, attempts, handled, todo, read, cur, next, done>>
      BY <1>12 DEF Tick, local, vars
    <2> QED
      BY <2>1 DEF HeldIsPublished, HandedOn, DoneIsHandled, ReadIsPast,
                  NothingLost, ChainOrder, BuriedIsExhausted, HandledByAll
  <1> QED
    BY <1>1, <1>2, <1>3, <1>4, <1>5, <1>7, <1>8, <1>9, <1>10, <1>11, <1>12
    DEF Next, Work, Fault

-----------------------------------------------------------------------------
\* The inductive invariant holds in every reachable state.
THEOREM Invariant == Spec => []IInv
  <1>1. Init => TypeOK /\ Safety BY TypeInit, SafetyInit
  <1>2. TypeOK /\ Safety /\ [Next]_vars => (TypeOK /\ Safety)'
    BY TypeStep, SafetyStep
  <1>3. TypeOK /\ Safety <=> IInv BY DEF IInv, Safety
  <1> QED BY <1>1, <1>2, <1>3, PTL DEF Spec

\* A drained event was accepted by every handler: nothing is lost.
THEOREM NothingLostAlways == Spec => []NothingLost
  <1>1. IInv => NothingLost BY DEF IInv
  <1> QED BY <1>1, Invariant, PTL

\* A buried event was tried MaxAttempts times.
THEOREM BuriedIsExhaustedAlways == Spec => []BuriedIsExhausted
  <1>1. IInv => BuriedIsExhausted BY DEF IInv
  <1> QED BY <1>1, Invariant, PTL

\* Handlers accept committed events only, in their listed order.
THEOREM ChainOrderAlways == Spec => []ChainOrder
  <1>1. IInv => ChainOrder BY DEF IInv
  <1> QED BY <1>1, Invariant, PTL


-----------------------------------------------------------------------------
(* Outbox implements Delivery. *)

LEMMA AbstractStep == IInv /\ [Next]_vars => [Abstract!Next]_(Abstract!vars)
  <1> SUFFICES ASSUME IInv, [Next]_vars
               PROVE  Abstract!Next \/ UNCHANGED <<row, handled>>
    BY DEF Abstract!vars
  <1> USE DEF IInv
  <1>1. ASSUME NEW e \in Events, Publish(e) PROVE Abstract!Next
    <2>1. Abstract!Publish(e)
      BY <1>1 DEF Publish, local, TypeOK, Abstract!Publish
    <2> QED BY <2>1 DEF Abstract!Next
  <1>2. ASSUME NEW d \in Dispatchers, HandlerReturns(d) PROVE Abstract!Next
    <2>1. cur[d] \in Events /\ next[d] \in Handlers
      BY <1>2, HandlersAssumption DEF TypeOK, HandlerReturns
    <2>2. row[cur[d]] # "none" BY <1>2 DEF HandlerReturns, HeldIsPublished
    <2>3. Abstract!Handle(next[d], cur[d])
      BY <1>2, <2>1, <2>2 DEF HandlerReturns, table, TypeOK, RowState, Abstract!Handle
    <2> QED BY <2>1, <2>3 DEF Abstract!Next
  <1>3. ASSUME NEW d \in Dispatchers, HandlerFails(d)
        PROVE  Abstract!Next \/ UNCHANGED <<row, handled>>
    <2> DEFINE e == cur[d]
               tried == read[d][e] + 1
    <2>1. /\ e \in Events
          /\ UNCHANGED handled
          /\ IF row[e] = "drained" THEN UNCHANGED <<row, attempts, dueIn>>
             ELSE IF Exhausted(tried) THEN BuryRow(e)
             ELSE DeferRow(e, Backoff[tried])
      BY <1>3 DEF HandlerFails, TypeOK
    <2>2. row[e] # "none" BY <1>3 DEF HandlerFails, HeldIsPublished
    <2>3. CASE row' = row BY <2>3, <2>1
    <2>4. CASE row' # row
      <3>1. row' = [row EXCEPT ![e] = "buried"] /\ row[e] # "drained"
        BY <2>1, <2>4 DEF BuryRow, DeferRow
      <3>2. row[e] = "pending"
        BY <3>1, <2>1, <2>2, <2>4 DEF TypeOK, RowState
      <3>3. Abstract!Bury(e)
        BY <3>1, <3>2, <2>1 DEF TypeOK, Abstract!Bury
      <3> QED BY <3>3, <2>1 DEF Abstract!Next
    <2> QED BY <2>3, <2>4
  <1>4. ASSUME NEW d \in Dispatchers, Delivered(d) PROVE Abstract!Next
    <2>1. done[d] \in SUBSET Events BY DEF TypeOK
    <2>2. \A e \in done[d] : row[e] # "none" /\ HandledByAll(e)
      BY DEF HeldIsPublished, DoneIsHandled
    <2>3. /\ row' = [e \in Events |-> IF e \in done[d] THEN "drained" ELSE row[e]]
          /\ UNCHANGED handled
          /\ \A e \in done[d] : /\ row[e] # "none"
                               /\ \A h \in Handlers : e \in handled[h]
      BY <1>4, <2>2 DEF Delivered, HandledByAll
    <2>4. \E S \in SUBSET Events : Abstract!Settle(S)
      BY <2>1, <2>3 DEF Abstract!Settle
    <2> QED BY <2>4 DEF Abstract!Next
  <1> QED
    BY <1>1, <1>2, <1>3, <1>4
    DEF Next, Work, Fault, vars, table, Claim, ClaimLost, Take, Accepted,
        FailureUnrecorded, Crash, Tick

\* The table with its dispatchers, crashes and leases is at-least-once delivery.
THEOREM DeliversAtLeastOnceAlways == Spec => DeliversAtLeastOnce
  <1>1. Init => Abstract!Init BY DEF Init, Abstract!Init
  <1> QED
    BY <1>1, AbstractStep, Invariant, PTL DEF Spec, DeliversAtLeastOnce, Abstract!Spec

-----------------------------------------------------------------------------
(* Leases: what a dispatcher holds is pending and not due before its lease *)
(* is over, so nobody claims it meanwhile.                                 *)

\* An event moves from what is to be tried, by the hand, to what is accepted.
HeldOnce ==
    \A d \in Dispatchers : /\ cur[d] \notin todo[d] \cup done[d]
                           /\ todo[d] \cap done[d] = {}

\* Until a lease is overrun, whatever is held is pending and leased for longer
\* than its holder's batch.
WithinLease ==
    ~overrun => \A d \in Dispatchers : \A e \in Holding(d) :
                    row[e] = "pending" /\ left[d] >= 1 /\ dueIn[e] >= left[d]

LeaseInv ==
    /\ TypeOK /\ left \in [Dispatchers -> Nat] /\ overrun \in BOOLEAN
    /\ HeldOnce /\ WithinLease /\ ExclusiveUntilOverrun

LEMMA LeaseBegins == LeaseInit => LeaseInv
  <1> SUFFICES ASSUME LeaseInit PROVE LeaseInv
    OBVIOUS
  <1>1. TypeOK BY TypeInit DEF LeaseInit
  <1>2. \A d \in Dispatchers : Holding(d) = {}
    BY DEF LeaseInit, Init, Holding
  <1>3. HeldOnce BY DEF LeaseInit, Init, HeldOnce
  <1> QED BY <1>1, <1>2, <1>3 DEF LeaseInv, LeaseInit, WithinLease, ExclusiveUntilOverrun

\* A step of the dispatchers other than a claim: everybody holds a part of what
\* they held, and what they still hold is as it was in the table.
LEMMA LessHeld ==
    ASSUME LeaseInv, TypeOK', UNCHANGED <<left, overrun>>, HeldOnce',
           \A d \in Dispatchers : Holding(d)' \subseteq Holding(d),
           ~overrun => \A d \in Dispatchers : \A e \in Holding(d)' :
                          row'[e] = row[e] /\ dueIn'[e] = dueIn[e]
    PROVE  LeaseInv'
  <1>1. WithinLease' BY DEF LeaseInv, WithinLease
  <1>2. ExclusiveUntilOverrun' BY DEF LeaseInv, ExclusiveUntilOverrun
  <1> QED BY <1>1, <1>2 DEF LeaseInv

LEMMA LeaseStep == LeaseInv /\ [LeaseNext]_leaseVars => LeaseInv'
  <1> SUFFICES ASSUME LeaseInv, [LeaseNext]_leaseVars PROVE LeaseInv'
    OBVIOUS
  <1>0. [Next]_vars
    BY DEF LeaseNext, leaseVars, ClaimForLease, TimePasses, Quietly, Next, Work
  <1>1. TypeOK' BY <1>0, TypeStep DEF LeaseInv
  <1> USE DEF Holding
  <1>2. CASE UNCHANGED leaseVars
    <2>1. HeldOnce' BY <1>2 DEF leaseVars, vars, LeaseInv, HeldOnce
    <2> QED BY <1>1, <1>2, <2>1, LessHeld DEF leaseVars, vars
  <1>3. ASSUME NEW e \in Events, Publish(e), UNCHANGED <<left, overrun>> PROVE LeaseInv'
    <2>1. HeldOnce' BY <1>3 DEF Publish, local, LeaseInv, HeldOnce
    <2>2. ~overrun => \A d \in Dispatchers : \A f \in Holding(d) : f # e
      BY <1>3 DEF Publish, LeaseInv, WithinLease
    <2>3. row' = [row EXCEPT ![e] = "pending"] /\ UNCHANGED <<dueIn, todo, cur, done>>
      BY <1>3 DEF Publish, local
    <2>4. ~overrun => \A d \in Dispatchers : \A f \in Holding(d)' :
                          row'[f] = row[f] /\ dueIn'[f] = dueIn[f]
      BY <2>2, <2>3 DEF LeaseInv, TypeOK
    <2> QED BY <1>1, <1>3, <2>1, <2>3, <2>4, LessHeld
  <1>4. ASSUME NEW d \in Dispatchers, ClaimForLease(d) PROVE LeaseInv'
    <2>1. PICK S \in SUBSET Due : /\ LeaseOut(S) /\ todo' = [todo EXCEPT ![d] = S]
      BY <1>4 DEF ClaimForLease, Claim
    <2>2. /\ Idle(d) /\ UNCHANGED <<row, cur, next, done, overrun>>
          /\ left' = [left EXCEPT ![d] = Lease]
      BY <1>4 DEF ClaimForLease, Claim
    <2>3. S \subseteq Events /\ \A e \in S : row[e] = "pending" /\ dueIn[e] = 0
      BY DEF Due
    <2>4. Holding(d)' = S
      BY <2>1, <2>2 DEF Idle, LeaseInv, TypeOK
    <2>5. \A c \in Dispatchers \ {d} : Holding(c)' = Holding(c) /\ left'[c] = left[c]
      BY <2>1, <2>2 DEF LeaseInv, TypeOK
    <2>6. ~overrun => \A c \in Dispatchers : Holding(c) \cap S = {}
      BY <2>3 DEF LeaseInv, WithinLease, TypeOK
    <2>7. HeldOnce'
      BY <2>1, <2>2, <2>3, NoEventAssumption DEF Idle, LeaseInv, HeldOnce, TypeOK
    <2>8. left' \in [Dispatchers -> Nat] /\ left'[d] = Lease /\ Lease \in Nat /\ Lease >= 1
      BY <2>2, ConfigAssumption DEF LeaseInv
    <2>9. ASSUME ~overrun, NEW c \in Dispatchers, NEW e \in Holding(c)'
          PROVE  row'[e] = "pending" /\ left'[c] >= 1 /\ dueIn'[e] >= left'[c]
      <3>1. dueIn' = [f \in Events |-> IF f \in S THEN Lease ELSE dueIn[f]]
        BY <2>1 DEF LeaseOut
      <3>2. CASE c = d BY <2>2, <2>3, <2>4, <2>8, <2>9, <3>1, <3>2
      <3>3. CASE c # d
        <4>1. e \in Holding(c) /\ e \notin S BY <2>5, <2>6, <2>9, <3>3
        <4>2. row[e] = "pending" /\ left[c] >= 1 /\ dueIn[e] >= left[c]
          BY <2>9, <4>1 DEF LeaseInv, WithinLease
        <4>3. e \in Events
          BY <4>1, <4>2 DEF LeaseInv, TypeOK
        <4> QED BY <2>2, <2>5, <3>1, <3>3, <4>1, <4>2, <4>3
      <3> QED BY <3>2, <3>3
    <2>10. WithinLease' BY <2>2, <2>9 DEF WithinLease
    <2>11. ExclusiveUntilOverrun'
      BY <2>2, <2>4, <2>5, <2>6 DEF LeaseInv, ExclusiveUntilOverrun
    <2> QED BY <1>1, <2>2, <2>7, <2>8, <2>10, <2>11 DEF LeaseInv
  <1>5. CASE TimePasses
    <2>1. /\ UNCHANGED <<row, todo, cur, done>>
          /\ dueIn' = [e \in Events |-> IF dueIn[e] > 0 THEN dueIn[e] - 1 ELSE 0]
          /\ left' = [d \in Dispatchers |-> IF left[d] > 0 THEN left[d] - 1 ELSE 0]
          /\ overrun' = (overrun \/ \E d \in Dispatchers : ~Idle(d) /\ left[d] <= 1)
      BY <1>5 DEF TimePasses, Tick, local
    <2>2. left' \in [Dispatchers -> Nat] BY <2>1 DEF LeaseInv
    <2>3. overrun' \in BOOLEAN BY <2>1 DEF LeaseInv
    <2>4. HeldOnce' BY <2>1 DEF LeaseInv, HeldOnce
    <2>5. ExclusiveUntilOverrun' BY <2>1 DEF LeaseInv, ExclusiveUntilOverrun
    <2>6. ASSUME ~overrun', NEW d \in Dispatchers, NEW e \in Holding(d)'
          PROVE  row'[e] = "pending" /\ left'[d] >= 1 /\ dueIn'[e] >= left'[d]
      <3>1. ~overrun /\ e \in Holding(d) BY <2>1, <2>6
      <3>2. ~Idle(d) BY <3>1 DEF Idle
      <3>3. left[d] \in Nat /\ left[d] > 1
        <4>1. ~(left[d] <= 1) BY <2>1, <2>6, <3>2, Zenon
        <4> QED BY <4>1 DEF LeaseInv
      <3>4. row[e] = "pending" /\ dueIn[e] >= left[d]
        BY <3>1 DEF LeaseInv, WithinLease
      <3>5. e \in Events BY <3>1, <3>4 DEF LeaseInv, TypeOK
      <3>6. dueIn[e] \in Nat BY <3>5 DEF LeaseInv, TypeOK
      <3>7. dueIn'[e] = dueIn[e] - 1 /\ left'[d] = left[d] - 1
        BY <2>1, <3>3, <3>4, <3>5, <3>6
      <3> QED BY <2>1, <3>3, <3>4, <3>6, <3>7
    <2>7. WithinLease' BY <2>6 DEF WithinLease
    <2> QED BY <1>1, <2>2, <2>3, <2>4, <2>5, <2>7 DEF LeaseInv
  <1>6. ASSUME NEW d \in Dispatchers, UNCHANGED <<left, overrun>>,
               Take(d) \/ HandlerReturns(d) \/ Accepted(d) \/ FailureUnrecorded(d) \/ Crash(d)
        PROVE  LeaseInv'
    <2>1. UNCHANGED <<row, dueIn>>
      BY <1>6 DEF Take, HandlerReturns, Accepted, FailureUnrecorded, Crash, table
    <2>2. Holding(d)' \subseteq Holding(d) /\ HeldOnce'
      <3>1. CASE Take(d) BY <3>1, NoEventAssumption DEF Take, LeaseInv, TypeOK, HeldOnce
      <3>2. CASE HandlerReturns(d) BY <3>2 DEF HandlerReturns, LeaseInv, HeldOnce
      <3>3. CASE Accepted(d)
        BY <3>3, NoEventAssumption DEF Accepted, PutDown, LeaseInv, TypeOK, HeldOnce
      <3>4. CASE FailureUnrecorded(d)
        BY <3>4, NoEventAssumption DEF FailureUnrecorded, PutDown, LeaseInv, TypeOK, HeldOnce
      <3>5. CASE Crash(d)
        BY <3>5, NoEventAssumption DEF Crash, LeaseInv, TypeOK, HeldOnce
      <3> QED BY <1>6, <3>1, <3>2, <3>3, <3>4, <3>5
    <2>3. ASSUME NEW c \in Dispatchers \ {d} PROVE Holding(c)' = Holding(c)
      <3>1. cur'[c] = cur[c] /\ todo'[c] = todo[c] /\ done'[c] = done[c]
        BY <1>6 DEF Take, HandlerReturns, Accepted, FailureUnrecorded, PutDown, Crash,
                    LeaseInv, TypeOK
      <3> QED BY <3>1
    <2> HIDE DEF Holding
    <2> QED BY <1>1, <1>6, <2>1, <2>2, <2>3, LessHeld
  <1>7. ASSUME NEW d \in Dispatchers, UNCHANGED <<left, overrun>>, HandlerFails(d)
        PROVE  LeaseInv'
    <2> DEFINE e == cur[d]
    <2>1. /\ PutDown(d) /\ UNCHANGED <<todo, done>> /\ e # NoEvent
          /\ \A f \in Events \ {e} : row'[f] = row[f] /\ dueIn'[f] = dueIn[f]
      <3>1. \/ UNCHANGED <<row, attempts, dueIn>> \/ BuryRow(e)
            \/ \E delay : DeferRow(e, delay)
        BY <1>7 DEF HandlerFails
      <3> QED BY <1>7, <3>1 DEF HandlerFails, BuryRow, DeferRow, LeaseInv, TypeOK
    <2>2. cur' = [cur EXCEPT ![d] = NoEvent] BY <2>1 DEF PutDown
    <2>3. HeldOnce' BY <2>1, <2>2, NoEventAssumption DEF LeaseInv, TypeOK, HeldOnce
    <2>4. Holding(d)' \subseteq Holding(d) \ {e}
      BY <2>1, <2>2 DEF LeaseInv, TypeOK, HeldOnce
    <2>5. \A c \in Dispatchers \ {d} : Holding(c)' = Holding(c)
      BY <2>1, <2>2 DEF LeaseInv, TypeOK
    <2>6. ~overrun => \A c \in Dispatchers \ {d} : e \notin Holding(c)
      BY <2>1 DEF LeaseInv, ExclusiveUntilOverrun
    <2>7. \A c \in Dispatchers : Holding(c) \subseteq Events
      BY DEF LeaseInv, TypeOK
    <2> HIDE DEF Holding
    <2>8. ~overrun => \A c \in Dispatchers : \A f \in Holding(c)' :
                          row'[f] = row[f] /\ dueIn'[f] = dueIn[f]
      BY <2>1, <2>4, <2>5, <2>6, <2>7
    <2> QED BY <1>1, <1>7, <2>3, <2>4, <2>5, <2>8, LessHeld
  <1>8. ASSUME NEW d \in Dispatchers, UNCHANGED <<left, overrun>>, Delivered(d)
        PROVE  LeaseInv'
    <2>1. /\ Tried(d) /\ UNCHANGED <<todo, cur>> /\ done' = [done EXCEPT ![d] = {}]
          /\ \A f \in Events \ done[d] : row'[f] = row[f] /\ dueIn'[f] = dueIn[f]
      BY <1>8 DEF Delivered, LeaseInv, TypeOK
    <2>2. HeldOnce' BY <2>1 DEF LeaseInv, TypeOK, HeldOnce
    <2>3. Holding(d)' = {} BY <2>1 DEF Tried, LeaseInv, TypeOK
    <2>4. \A c \in Dispatchers \ {d} : Holding(c)' = Holding(c)
      BY <2>1 DEF LeaseInv, TypeOK
    <2>5. ~overrun => \A c \in Dispatchers \ {d} : done[d] \cap Holding(c) = {}
      BY DEF LeaseInv, ExclusiveUntilOverrun
    <2>6. \A c \in Dispatchers : Holding(c) \subseteq Events
      BY DEF LeaseInv, TypeOK
    <2> HIDE DEF Holding
    <2>7. ~overrun => \A c \in Dispatchers : \A f \in Holding(c)' :
                          row'[f] = row[f] /\ dueIn'[f] = dueIn[f]
      BY <2>1, <2>3, <2>4, <2>5, <2>6
    <2> QED BY <1>1, <1>8, <2>2, <2>3, <2>4, <2>7, LessHeld
  <1>9. ASSUME NEW d \in Dispatchers, UNCHANGED <<left, overrun>>, ClaimLost(d)
        PROVE  LeaseInv'
    <2>1. PICK S \in SUBSET Due : LeaseOut(S)
      BY <1>9 DEF ClaimLost
    <2>2. UNCHANGED <<row, todo, cur, done>> BY <1>9 DEF ClaimLost, local
    <2>3. HeldOnce' BY <2>2 DEF LeaseInv, HeldOnce
    <2>4. \A c \in Dispatchers : Holding(c)' = Holding(c) BY <2>2
    <2>5. \A c \in Dispatchers : Holding(c) \subseteq Events
      BY DEF LeaseInv, TypeOK
    <2> HIDE DEF Holding
    <2>6. ASSUME ~overrun, NEW c \in Dispatchers, NEW f \in Holding(c)
          PROVE  dueIn'[f] = dueIn[f]
      <3>1. left[c] >= 1 /\ dueIn[f] >= left[c] /\ f \in Events
        BY <2>5, <2>6 DEF LeaseInv, WithinLease
      <3>2. left[c] \in Nat /\ dueIn[f] \in Nat BY <3>1 DEF LeaseInv, TypeOK
      <3>3. f \notin S BY <3>1, <3>2 DEF Due
      <3> QED BY <2>1, <3>1, <3>3 DEF LeaseOut
    <2> QED BY <1>1, <1>9, <2>2, <2>3, <2>4, <2>6, LessHeld
  <1> QED BY <1>2, <1>3, <1>4, <1>5, <1>6, <1>7, <1>8, <1>9 DEF LeaseNext, Quietly, Fault

\* Until some dispatcher outlives its lease no event is in two hands: the lease
\* is the only exclusion between dispatchers, through crashes, lost claims,
\* retries and unrecorded failures.
THEOREM ExclusiveAlways == LeaseSpec => []ExclusiveUntilOverrun
  <1>1. LeaseInv => ExclusiveUntilOverrun BY DEF LeaseInv
  <1> QED BY <1>1, LeaseBegins, LeaseStep, PTL DEF LeaseSpec
=============================================================================
