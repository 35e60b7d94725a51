-------------------------- MODULE MessageDeduplicator --------------------------
(***************************************************************************)
(* CANMessageDeduplicator                                                  *)
(* (src/backend/integrations/can/message_deduplicator.py): messages that   *)
(* arrive over two bridged interfaces within a window are handed on once.  *)
(* is_duplicate does not suspend.  A hash is a member of Hashes; the clock *)
(* moves between calls, possibly by a fraction of the window.              *)
(***************************************************************************)
EXTENDS Naturals, Sequences, FiniteSets

CONSTANTS
    Hashes,          \* message signatures
    WindowMs,        \* window_ms
    MaxCacheSize,    \* max_cache_size
    MaxDedupTime     \* the clock's bound

ASSUME DeduplicatorAssumption ==
    WindowMs \in Nat /\ MaxCacheSize \in Nat /\ MaxDedupTime \in Nat

VARIABLES
    dedupTime,       \* the clock
    message_cache,   \* hash |-> the time it was last accepted
    cache_order,     \* queue of <<hash, time>>
    accepted,        \* hash |-> when it was last handed on (history); 0 for never
    lost             \* hashes whose entry left the cache, since, for want of room or
                     \* with an older entry of the same hash (history)

mdVars == <<dedupTime, message_cache, cache_order, accepted, lost>>

Without(cache, hs) == [h \in DOMAIN cache \ hs |-> cache[h]]

\* _clean_expired_entries: how many entries at the front are too old; the hash
\* of each leaves the cache, also when the cache has a newer time for it.
Expired(n) == \A i \in 1..n : cache_order[i][2] + WindowMs < dedupTime
ExpiredCount == CHOOSE n \in 0..Len(cache_order) :
                    Expired(n) /\ (n < Len(cache_order) => ~Expired(n + 1))
CleanedOrder == SubSeq(cache_order, ExpiredCount + 1, Len(cache_order))
CleanedCache == Without(message_cache, {cache_order[i][1] : i \in 1..ExpiredCount})

\* The queue holds h twice: it came again exactly at the end of the window,
\* when an entry is neither a duplicate's nor expired.
QueuedTwice(h) == Cardinality({i \in DOMAIN cache_order : cache_order[i][1] = h}) > 1

LostNow == {h \in DOMAIN message_cache \ DOMAIN CleanedCache : QueuedTwice(h)}

SeenRecently(h) ==
    h \in DOMAIN CleanedCache /\ dedupTime < CleanedCache[h] + WindowMs

\* Mutant: a duplicate counts as the message's latest sight.
DuplicateRefreshes(h) ==
    /\ SeenRecently(h)
    /\ cache_order' = CleanedOrder
    /\ message_cache' = [CleanedCache EXCEPT ![h] = dedupTime]
    /\ lost' = lost \cup LostNow
    /\ UNCHANGED <<dedupTime, accepted>>

\* is_duplicate returns True.
Duplicate(h) ==
    /\ SeenRecently(h)
    /\ cache_order' = CleanedOrder
    /\ message_cache' = CleanedCache
    /\ lost' = lost \cup LostNow
    /\ UNCHANGED <<dedupTime, accepted>>

\* It returns False, after the message was stored and the oldest entry,
\* over the size limit, removed.
Accept(h) ==
    /\ ~SeenRecently(h)
    /\ LET order == Append(CleanedOrder, <<h, dedupTime>>)
           cache == [x \in DOMAIN CleanedCache \cup {h} |->
                        IF x = h THEN dedupTime ELSE CleanedCache[x]]
           full == Len(order) > MaxCacheSize
           oldest == IF full THEN {order[1][1]} ELSE {}
       IN /\ cache_order' = IF full THEN Tail(order) ELSE order
          /\ message_cache' = Without(cache, oldest)
          /\ lost' = ((lost \cup LostNow) \ {h}) \cup oldest
    /\ accepted' = [accepted EXCEPT ![h] = dedupTime]
    /\ UNCHANGED dedupTime

MDTick ==
    /\ dedupTime < MaxDedupTime
    /\ dedupTime' = dedupTime + 1
    /\ UNCHANGED <<message_cache, cache_order, accepted, lost>>

MDInit ==
    /\ dedupTime = WindowMs + 1
    /\ message_cache = << >>
    /\ cache_order = <<>>
    /\ accepted = [h \in Hashes |-> 0]
    /\ lost = {}

MDNext ==
    \/ \E h \in Hashes : Duplicate(h) \/ Accept(h)
    \/ MDTick

MDSpec == MDInit /\ [][MDNext]_mdVars

-----------------------------------------------------------------------------
(* Properties.                                                             *)

\* h was handed on within the window before now.
Recent(h) == accepted[h] > 0 /\ dedupTime < accepted[h] + WindowMs

\* What is called a duplicate was handed on within the window, and what comes
\* again within the window is called one - unless its entry went for want of
\* room or, after it came exactly at the end of a window, with the older entry.
DuplicatesAreRepeats ==
    [][\A h \in Hashes :
         /\ Duplicate(h) => Recent(h)
         /\ Accept(h) /\ Recent(h) => h \in lost \cup LostNow]_mdVars

===============================================================================
