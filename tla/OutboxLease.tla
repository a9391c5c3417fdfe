---------------------------- MODULE OutboxLease ----------------------------
(***************************************************************************)
(* Outbox with the history needed to speak of leases: how much of its      *)
(* lease each dispatcher's batch has left, and whether any dispatcher ever *)
(* outlived one.  The history never constrains the program's steps.        *)
(***************************************************************************)
EXTENDS Outbox

\* The delays the checked instance gives Backoff: doubled each time, up to a cap
\* below the lease.
CONSTANT BackoffCap
DefaultBackoff == [n \in 1..MaxAttempts |-> IF 2^n < BackoffCap THEN 2^n ELSE BackoffCap]

VARIABLES
    left,     \* left[d]: units until the lease on d's batch runs out
    overrun   \* some dispatcher was still working when its lease ran out

leaseVars == <<vars, left, overrun>>

LeaseInit ==
    /\ Init
    /\ left = [d \in Dispatchers |-> 0]
    /\ overrun = FALSE

ClaimForLease(d) ==
    /\ Claim(d)
    /\ left' = [left EXCEPT ![d] = Lease]
    /\ UNCHANGED overrun

TimePasses ==
    /\ Tick
    /\ left' = [d \in Dispatchers |-> IF left[d] > 0 THEN left[d] - 1 ELSE 0]
    /\ overrun' = (overrun \/ \E d \in Dispatchers : ~Idle(d) /\ left[d] <= 1)

Quietly ==
    /\ \/ \E e \in Events : Publish(e)
       \/ \E d \in Dispatchers :
            \/ Take(d) \/ HandlerReturns(d) \/ Accepted(d)
            \/ HandlerFails(d) \/ Delivered(d) \/ Fault(d)
    /\ UNCHANGED <<left, overrun>>

LeaseNext ==
    \/ \E d \in Dispatchers : ClaimForLease(d)
    \/ TimePasses
    \/ Quietly

LeaseSpec == LeaseInit /\ [][LeaseNext]_leaseVars

-----------------------------------------------------------------------------
Holding(d) == todo[d] \cup done[d] \cup ({cur[d]} \ {NoEvent})

\* Until some dispatcher takes longer over a batch than its lease, no event is
\* in the hands of two dispatchers at once, whatever fails, crashes or is
\* retried: the lease is all the mutual exclusion there is, and it suffices.
ExclusiveUntilOverrun ==
    ~overrun => \A d1, d2 \in Dispatchers :
                    d1 # d2 => Holding(d1) \cap Holding(d2) = {}

=============================================================================
