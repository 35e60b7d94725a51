------------------------------ MODULE MCPlatform ------------------------------
(***************************************************************************)
(* TLC instances of the services the others stand on: the start-up of the  *)
(* services, database migrations, the notification queue and the deadline  *)
(* monitor of brake operations.  They share no variable: `focus' picks,    *)
(* once, the one whose steps a behaviour takes, and the run explores every *)
(* behaviour of each.                                                      *)
(***************************************************************************)
EXTENDS ServiceRegistry, DatabaseUpdate, NotificationQueue, BrakeSafetyMonitor, TLC

VARIABLE focus

mcVars == <<focus, srVars, duVars, nqVars, bsVars>>

\* The calls of start_migration are alike, and those of track_critical_operation.
MCSymmetry == Permutations(Migrations) \cup Permutations(Operations)

MCInit ==
    /\ focus \in {"registry", "update", "queue", "brake"}
    /\ SRInit /\ DUInit /\ NQInit /\ BSInit
    /\ undefined \/ focus # "registry" => requires = [s \in Services |-> {}]
    /\ focus # "registry" => undefined

MCNext ==
    \/ focus = "registry" /\ SRNext /\ UNCHANGED <<focus, duVars, nqVars, bsVars>>
    \/ focus = "update" /\ DUNext /\ UNCHANGED <<focus, srVars, nqVars, bsVars>>
    \/ focus = "queue" /\ NQNext /\ UNCHANGED <<focus, srVars, duVars, bsVars>>
    \/ focus = "brake" /\ BSNext /\ UNCHANGED <<focus, srVars, duVars, nqVars>>

MCSpec == MCInit /\ [][MCNext]_mcVars

===============================================================================
