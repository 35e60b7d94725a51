----------------------------- MODULE DurableState -----------------------------
(***************************************************************************)
(* What saving entity states promises, whatever way it is done: each       *)
(* entity has a latest state and a saved one; the saved state only moves   *)
(* forward, and only to a state the entity has already had.  Several       *)
(* entities may be saved at once.  The latest state may be lost at any     *)
(* time (the process stops, an entity is removed or restored); the saved   *)
(* one may not.                                                            *)
(***************************************************************************)
EXTENDS Integers

CONSTANTS Entities, MaxChanges

VARIABLES
    latest,   \* id -> when its state in memory was written (0: never)
    saved     \* id -> when its saved state was written (0: nothing saved)

Moments == 0..MaxChanges

DSInit ==
    /\ latest = [e \in Entities |-> 0]
    /\ saved = [e \in Entities |-> 0]

\* A moment later than everything so far.
Later(m) == \A e \in Entities : m > latest[e] /\ m > saved[e]

Change(e) ==
    /\ \E m \in Moments : Later(m) /\ latest' = [latest EXCEPT ![e] = m]
    /\ UNCHANGED saved

\* Some entities are saved, each in a state at or before its latest one.
Save ==
    /\ saved' \in [Entities -> Moments]
    /\ \A e \in Entities :
         \/ saved'[e] = saved[e]
         \/ saved'[e] > saved[e] /\ saved'[e] <= latest[e]
    /\ UNCHANGED latest

\* The state in memory is dropped, or replaced by the saved one.
Forget ==
    /\ latest' \in [Entities -> Moments]
    /\ \A e \in Entities : latest'[e] \in {0, saved[e], latest[e]}
    /\ UNCHANGED saved

\* A crash in the middle of saving.
SaveAndForget ==
    /\ saved' \in [Entities -> Moments]
    /\ \A e \in Entities :
         \/ saved'[e] = saved[e]
         \/ saved'[e] > saved[e] /\ saved'[e] <= latest[e]
    /\ latest' = [e \in Entities |-> 0]

DSNext == (\E e \in Entities : Change(e)) \/ Save \/ Forget \/ SaveAndForget

DSSpec == DSInit /\ [][DSNext]_<<latest, saved>>

=============================================================================
