------------------------------ MODULE Delivery ------------------------------
(***************************************************************************)
(* What the outbox promises the rest of the server, with no dispatcher, no *)
(* lease and no clock in it: an event that was published is owed to every  *)
(* handler until all of them have run on it (it is then settled), or until *)
(* the dispatcher has given up on it and buried it.  A buried event may    *)
(* still be settled by a delivery that was already under way, and handlers *)
(* may run again on anything ever published: delivery is at least once.    *)
(***************************************************************************)
CONSTANTS Events, Handlers

VARIABLES
    status,   \* status[e]: how far the event has come
    handled   \* handled[h]: the events handler h has run on successfully

vars == <<status, handled>>

Status == {"none", "pending", "buried", "drained"}

Init ==
    /\ status = [e \in Events |-> "none"]
    /\ handled = [h \in Handlers |-> {}]

Publish(e) ==
    /\ status[e] = "none"
    /\ status' = [status EXCEPT ![e] = "pending"]
    /\ UNCHANGED handled

Handle(h, e) ==
    /\ status[e] # "none"
    /\ handled' = [handled EXCEPT ![h] = @ \cup {e}]
    /\ UNCHANGED status

Bury(e) ==
    /\ status[e] = "pending"
    /\ status' = [status EXCEPT ![e] = "buried"]
    /\ UNCHANGED handled

\* A set of events is settled at once: the dispatcher drains a whole batch.
Settle(S) ==
    /\ \A e \in S : /\ status[e] # "none"
                    /\ \A h \in Handlers : e \in handled[h]
    /\ status' = [e \in Events |-> IF e \in S THEN "drained" ELSE status[e]]
    /\ UNCHANGED handled

Next ==
    \/ \E e \in Events : Publish(e) \/ Bury(e)
    \/ \E h \in Handlers, e \in Events : Handle(h, e)
    \/ \E S \in SUBSET Events : Settle(S)

Spec == Init /\ [][Next]_vars
=============================================================================
