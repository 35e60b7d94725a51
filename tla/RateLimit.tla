------------------------------- MODULE RateLimit -------------------------------
(***************************************************************************)
(* The rate limit of safety operations for one identifier:                 *)
(* check_rate_limit of backend/services/security_audit_service.py, which   *)
(* SafetyService.validate_safety_operation calls with the categories       *)
(* "emergency", "safety" and "pin_auth" for the same identifier.           *)
(*                                                                         *)
(* Its repository is a dictionary in memory: the awaited calls do not      *)
(* suspend, so a check is one step.  One entry serves all categories; the  *)
(* limit and the window are those of the category of the request at hand.  *)
(***************************************************************************)
EXTENDS Integers, Sequences, FiniteSets

CONSTANTS
    Categories,      \* the categories in use
    RateLimits,      \* category -> requests per window
    TimeWindows,     \* category -> its window, in ticks
    InactiveAfter,   \* inactivity after which an entry is deleted, in ticks
    MaxRequestTime,  \* bound on the clock
    MaxRequests      \* bound on the allowed requests

ASSUME RateLimitAssumption ==
    /\ IsFiniteSet(Categories)
    /\ RateLimits \in [Categories -> Nat \ {0}]
    /\ TimeWindows \in [Categories -> Nat \ {0}]
    /\ InactiveAfter \in Nat
    /\ \A c \in Categories : TimeWindows[c] <= InactiveAfter
    /\ MaxRequestTime \in Nat /\ MaxRequests \in Nat

VARIABLES
    requestTime,   \* the clock
    entry,         \* the identifier's RateLimitEntry
    allowed        \* the requests let through, with category and time (history)

rlVars == <<requestTime, entry, allowed>>

NoEntry == [requests |-> <<>>, blockedUntil |-> 0]

\* _cleanup_rate_limits, which a check runs first when the last one is long
\* ago, deletes an entry neither blocked nor recently used.
Inactive ==
    /\ entry.blockedUntil < requestTime
    /\ \/ entry.requests = <<>>
       \/ entry.requests[Len(entry.requests)] < requestTime - InactiveAfter

\* The entry a check finds.
Found == {entry} \cup (IF Inactive THEN {NoEntry} ELSE {})

\* How many times a request of category c takes off the front of the deque q,
\* up to the first that its window still holds.
Outdated(q, c) ==
    CHOOSE n \in 0..Len(q) :
        /\ \A i \in 1..n : q[i] < requestTime - TimeWindows[c]
        /\ n < Len(q) => q[n + 1] >= requestTime - TimeWindows[c]

Kept(q, c) == SubSeq(q, Outdated(q, c) + 1, Len(q))

\* Mutant: one request too many fits.
OverLimitLate(kept, c) == Len(kept) > RateLimits[c]

OverLimit(kept, c) == Len(kept) >= RateLimits[c]

\* check_rate_limit finding e: refused while e is blocked; over the limit e is
\* blocked for the window of c, whatever categories filled it; else allowed.
CheckRateLimit(c) ==
    \E e \in Found :
        \/ e.blockedUntil > requestTime /\ entry' = e /\ UNCHANGED allowed
        \/ /\ e.blockedUntil <= requestTime
           /\ OverLimit(Kept(e.requests, c), c)
           /\ entry' = [requests |-> Kept(e.requests, c),
                         blockedUntil |-> requestTime + TimeWindows[c]]
           /\ UNCHANGED allowed
        \/ /\ e.blockedUntil <= requestTime
           /\ ~OverLimit(Kept(e.requests, c), c)
           /\ Len(allowed) < MaxRequests
           /\ entry' = [e EXCEPT !.requests = Append(Kept(@, c), requestTime)]
           /\ allowed' = Append(allowed, [category |-> c, at |-> requestTime])

SafetyRequest(c) == CheckRateLimit(c) /\ UNCHANGED requestTime

RLTick ==
    /\ requestTime < MaxRequestTime
    /\ requestTime' = requestTime + 1
    /\ UNCHANGED <<entry, allowed>>

RLInit ==
    /\ requestTime = 0
    /\ entry = NoEntry
    /\ allowed = <<>>

RLNext ==
    \/ \E c \in Categories : SafetyRequest(c)
    \/ RLTick

RLSpec == RLInit /\ [][RLNext]_rlVars

-----------------------------------------------------------------------------
(* Properties.                                                             *)

ShortestWindow == CHOOSE w \in {TimeWindows[c] : c \in Categories} :
    \A c \in Categories : w <= TimeWindows[c]

AllowedWithin(c, i, window) ==
    Cardinality({j \in 1..i : /\ allowed[j].category = c
                              /\ allowed[j].at > allowed[i].at - window})

\* Within the shortest of the windows no category exceeds its limit, whatever
\* the mix of categories, blocks and clean-ups.
BurstWithinLimit ==
    \A i \in DOMAIN allowed :
        AllowedWithin(allowed[i].category, i, ShortestWindow) <= RateLimits[allowed[i].category]

\* The description of emergency_operations_per_hour: no more emergency
\* operations than the limit within the hour.  A request of a category with a
\* shorter window drops the older ones from the deque they share.
EmergencyOperationsPerHour ==
    \A i \in DOMAIN allowed :
        allowed[i].category = "emergency" =>
            AllowedWithin("emergency", i, TimeWindows["emergency"]) <= RateLimits["emergency"]

===============================================================================
