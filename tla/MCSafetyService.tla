-------------------------- MODULE MCSafetyService --------------------------
(* TLC instances of SafetyService: the three default interlocks.           *)
EXTENDS SafetyService, TLC

\* _setup_default_interlocks; the two conditions that all three require
\* (vehicle_not_moving, parking_brake_engaged) are one, `stationary'.  A
\* condition that is not in Conditions is met throughout the run.
AllConditions ==
    [slide    |-> {"stationary", "jacks", "park"},
     awning   |-> {"stationary"},
     leveling |-> {"stationary", "park", "engine_off"}]

DefaultConditions == [i \in DOMAIN AllConditions |-> AllConditions[i] \cap Conditions]

Symmetry == Permutations(Requests)
============================================================================
