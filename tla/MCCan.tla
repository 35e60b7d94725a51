-------------------------------- MODULE MCCan --------------------------------
(***************************************************************************)
(* TLC instances of the services on the receiving side of the CAN buses.   *)
(* The facade, the recorder's own operations and the deduplicator share no *)
(* variable: `focus' picks, once, the component whose steps a behaviour    *)
(* takes, and the run explores every behaviour of each.                    *)
(***************************************************************************)
EXTENDS CANFacade, CANBusRecorder, MessageDeduplicator, TLC

VARIABLE focus

mcVars == <<focus, cfVars, cbVars, mdVars>>

\* One order of the listeners, for the behaviours of the other components.
MCOrder == CHOOSE s \in [1..2 -> Interfaces] : s[1] # s[2]

\* The calls of one kind are alike.
MCSymmetry == Permutations(RecordingStops) \cup Permutations(FacadeStops)

MCInit ==
    /\ focus \in {"facade", "recorder", "dedup"}
    /\ CFInit /\ CBInit /\ MDInit
    /\ focus # "facade" => monitored /\ listed = MCOrder
    /\ focus # "recorder" => recRunning

MCNext ==
    \/ focus = "facade" /\ CFNext /\ UNCHANGED <<focus, cbVars, mdVars>>
    \/ focus = "recorder" /\ CBNext /\ UNCHANGED <<focus, cfVars, mdVars>>
    \/ focus = "dedup" /\ MDNext /\ UNCHANGED <<focus, cfVars, cbVars>>

MCSpec == MCInit /\ [][MCNext]_mcVars

===============================================================================
