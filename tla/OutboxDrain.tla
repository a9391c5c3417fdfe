---------------------------- MODULE OutboxDrain ----------------------------
(***************************************************************************)
(* Shutdown: the listener has stopped, so nothing more is published; the   *)
(* poll loops return and each dispatcher calls Drain, which dispatches     *)
(* until a batch delivers nothing and then returns nil.                    *)
(***************************************************************************)
EXTENDS Outbox

VARIABLE mode  \* mode[d]: "polling", "draining", "empty" (nil) or "error"

drainVars == <<vars, mode>>

DrainInit == Init /\ mode = [d \in Dispatchers |-> "polling"]

Running(d) == mode[d] \in {"polling", "draining"}

\* Requests have stopped before any dispatcher begins to drain.
Serving == \A d \in Dispatchers : mode[d] = "polling"

PublishWhileServing ==
    /\ Serving
    /\ \E e \in Events : Publish(e)
    /\ UNCHANGED mode

BeginDrain(d) ==
    /\ mode[d] = "polling"
    /\ Idle(d)
    /\ mode' = [mode EXCEPT ![d] = "draining"]
    /\ UNCHANGED vars

\* Mutant: Drain waits until the table is empty, buried rows included.
NothingDueButBuried(d) ==
    /\ mode[d] = "draining"
    /\ Idle(d)
    /\ \A e \in Events : row[e] \in {"none", "drained"}
    /\ mode' = [mode EXCEPT ![d] = "empty"]
    /\ UNCHANGED vars

\* A dispatch that claims nothing delivers nothing: Drain returns nil.
NothingDue(d) ==
    /\ mode[d] = "draining"
    /\ Idle(d)
    /\ Due = {}
    /\ mode' = [mode EXCEPT ![d] = "empty"]
    /\ UNCHANGED vars

\* So does a dispatch whose every event failed.
LastOfBatchFails(d) ==
    /\ todo[d] = {} /\ done[d] = {}
    /\ HandlerFails(d) \/ FailureUnrecorded(d)
    /\ mode' = [mode EXCEPT ![d] = IF @ = "draining" THEN "empty" ELSE @]

MoreOfBatch(d) ==
    /\ todo[d] # {} \/ done[d] # {}
    /\ HandlerFails(d) \/ FailureUnrecorded(d)
    /\ UNCHANGED mode

\* A store error ends Drain, and the process with it.
StoreFails(d) ==
    /\ ClaimLost(d) \/ Crash(d)
    /\ mode' = [mode EXCEPT ![d] = IF @ = "draining" THEN "error" ELSE @]

Delivering(d) ==
    /\ Claim(d) \/ Take(d) \/ HandlerReturns(d) \/ Accepted(d) \/ Delivered(d)
    /\ UNCHANGED mode

DrainStep(d) ==
    /\ Running(d)
    /\ \/ BeginDrain(d) \/ NothingDue(d) \/ LastOfBatchFails(d)
       \/ MoreOfBatch(d) \/ StoreFails(d) \/ Delivering(d)

DrainNext ==
    \/ PublishWhileServing
    \/ \E d \in Dispatchers : DrainStep(d)
    \/ Tick /\ UNCHANGED mode

Polls(d) == Running(d) /\ (NothingDue(d) \/ LastOfBatchFails(d) \/ MoreOfBatch(d) \/ Delivering(d))

DrainSpec == DrainInit /\ [][DrainNext]_drainVars

\* A live dispatcher polls on its ticker whatever happens to the wake channel,
\* and time passes.  Neither that a handler succeeds nor that a drain ever
\* begins is assumed.
DrainFairSpec ==
    /\ DrainSpec
    /\ WF_drainVars(Tick /\ UNCHANGED mode)
    /\ \A d \in Dispatchers : WF_drainVars(Polls(d))

-----------------------------------------------------------------------------
\* A drain ends, also when a handler fails every time it is called: shutdown
\* never waits for a poisoned event.
DrainReturns ==
    \A d \in Dispatchers : (mode[d] = "draining") ~> (mode[d] \in {"empty", "error"})

\* While a dispatcher is left to serve it, no event stays owed: however often its
\* handlers fail it is drained or buried, so a poisoned event cannot be retried
\* for ever and cannot hold the others back.
Settles ==
    \A e \in Events :
        row[e] = "pending" ~>
            row[e] \in {"drained", "buried"} \/ \A d \in Dispatchers : ~Running(d)
=============================================================================
