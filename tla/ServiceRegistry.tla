---------------------------- MODULE ServiceRegistry ----------------------------
(***************************************************************************)
(* EnhancedServiceRegistry and ServiceDependencyResolver                   *)
(* (src/backend/core/service_registry.py, service_dependency_resolver.py): *)
(* the services' required dependencies become stages, the services of a    *)
(* stage start in parallel, and what was created is shut down when one     *)
(* fails.                                                                  *)
(*                                                                         *)
(* Any graph of required dependencies is possible.  Optional dependencies  *)
(* change what a service is given, not when it starts; fallbacks, restart  *)
(* and stop of a single service are used by nobody and left out.  A task   *)
(* that is cancelled while it starts the services cleans up nothing; the   *)
(* start-up modelled here is not cancelled.                                *)
(***************************************************************************)
EXTENDS Integers, Sequences, FiniteSets, FiniteSetsExt

CONSTANT Services

ASSUME ServiceRegistryAssumption == IsFiniteSet(Services)

VARIABLES
    requires,        \* service |-> the services it requires
    undefined,       \* some service requires one that is not registered
    phase,           \* of startup_all: "new", "starting", "cleaning", "failed",
                     \* "started", and "closed" after shutdown()
    stage,           \* the stage being started
    serviceStatus,   \* "none", "starting" (its init runs), "created" (its startup runs),
                     \* "healthy" or "failed"
    created,         \* _services: the instances in the order of their creation
    toClean,         \* what _emergency_cleanup still has to shut down
    shutDown,        \* services the clean-up has come to: those that have a method
                     \* shutdown() have been asked (history)
    raised           \* services whose own init or startup raised (history)

srVars == <<requires, undefined, phase, stage, serviceStatus, created, toClean, shutDown, raised>>

-----------------------------------------------------------------------------
(* The resolver.                                                           *)

N == Cardinality(Services)

\* TopologicalSorter: the services ready after n rounds.
Ready[n \in 0..N] ==
    IF n = 0 THEN {} ELSE {s \in Services : requires[s] \subseteq Ready[n - 1]}

\* The depth-first search finds no cycle.
Acyclic == Ready[N] = Services

\* _calculate_stages: the round in which a service becomes ready.
Layer(s) == Min({n \in 1..N : s \in Ready[n]}) - 1

\* Mutant: a service shares the stage of the last of its dependencies.
StageOfLast(s) == Max({0} \cup {Layer(d) : d \in requires[s]})

\* _optimize_stages: one more than the latest stage of its dependencies.
StageOf(s) == Max({-1} \cup {Layer(d) : d \in requires[s]}) + 1

InStage == {s \in Services : StageOf(s) = stage}

-----------------------------------------------------------------------------
(* startup_all.                                                            *)

Resolve ==
    /\ phase = "new"
    /\ phase' = IF undefined \/ ~Acyclic THEN "cleaning" ELSE "starting"
    /\ UNCHANGED <<requires, undefined, stage, serviceStatus, created, toClean, shutDown, raised>>

HasService(s) == serviceStatus[s] = "healthy"

\* A service starts, or fails for want of a dependency.
BeginService(s) ==
    /\ phase = "starting" /\ s \in InStage /\ serviceStatus[s] = "none"
    /\ serviceStatus' = [serviceStatus EXCEPT ![s] =
           IF \A d \in requires[s] : HasService(d) THEN "starting" ELSE "failed"]
    /\ UNCHANGED <<requires, undefined, phase, stage, created, toClean, shutDown, raised>>

\* Its init function returns; its background tasks start.
CreateService(s) ==
    /\ serviceStatus[s] = "starting"
    /\ serviceStatus' = [serviceStatus EXCEPT ![s] = "created"]
    /\ created' = Append(created, s)
    /\ UNCHANGED <<requires, undefined, phase, stage, toClean, shutDown, raised>>

\* Its startup method, if any, returns.
ServiceUp(s) ==
    /\ serviceStatus[s] = "created"
    /\ serviceStatus' = [serviceStatus EXCEPT ![s] = "healthy"]
    /\ UNCHANGED <<requires, undefined, phase, stage, created, toClean, shutDown, raised>>

\* One of the two raises.
ServiceRaises(s) ==
    /\ serviceStatus[s] \in {"starting", "created"}
    /\ serviceStatus' = [serviceStatus EXCEPT ![s] = "failed"]
    /\ raised' = raised \cup {s}
    /\ UNCHANGED <<requires, undefined, phase, stage, created, toClean, shutDown>>

\* Mutant: the stage is over as soon as one of its services has failed.
DoneOrFailed ==
    \/ \A s \in InStage : serviceStatus[s] \in {"healthy", "failed"}
    \/ \E s \in InStage : serviceStatus[s] = "failed"

\* gather with return_exceptions waits for all of the stage.
StageDone == \A s \in InStage : serviceStatus[s] \in {"healthy", "failed"}

NextStage ==
    /\ phase = "starting" /\ StageDone
    /\ IF \E s \in InStage : serviceStatus[s] = "failed"
       THEN phase' = "cleaning" /\ toClean' = created /\ stage' = stage
       ELSE /\ phase' = IF \A s \in Services : StageOf(s) <= stage THEN "started" ELSE phase
            /\ stage' = stage + 1 /\ toClean' = toClean
    /\ UNCHANGED <<requires, undefined, serviceStatus, created, shutDown, raised>>

\* _emergency_cleanup, in the order of creation; what a shutdown raises is ignored,
\* and so is a service without one.
CleanUpNext ==
    /\ phase = "cleaning" /\ toClean # <<>>
    /\ shutDown' = shutDown \cup {Head(toClean)}
    /\ toClean' = Tail(toClean)
    /\ UNCHANGED <<requires, undefined, phase, stage, serviceStatus, created, raised>>

StartupRaises ==
    /\ phase = "cleaning" /\ toClean = <<>>
    /\ phase' = "failed"
    /\ UNCHANGED <<requires, undefined, stage, serviceStatus, created, toClean, shutDown, raised>>

\* shutdown() cancels the background tasks and goes through _startup_stages,
\* which only the basic registry fills: no service is shut down.
Shutdown ==
    /\ phase \in {"failed", "started"}
    /\ phase' = "closed"
    /\ UNCHANGED <<requires, undefined, stage, serviceStatus, created, toClean, shutDown, raised>>

SRInit ==
    /\ requires \in [Services -> SUBSET Services]
    /\ undefined \in BOOLEAN
    /\ phase = "new" /\ stage = 0
    /\ serviceStatus = [s \in Services |-> "none"]
    /\ created = <<>> /\ toClean = <<>> /\ shutDown = {} /\ raised = {}

SRNext ==
    \/ Resolve \/ NextStage \/ CleanUpNext \/ StartupRaises \/ Shutdown
    \/ \E s \in Services : BeginService(s) \/ CreateService(s) \/ ServiceUp(s) \/ ServiceRaises(s)

SRSpec == SRInit /\ [][SRNext]_srVars

-----------------------------------------------------------------------------
(* Properties.                                                             *)

\* Whatever the graph, the stages never start a service before what it requires:
\* a service fails only because its own code raised, and a start-up that was
\* resolved and in which nothing raised brings every service up.
FailsOnlyByItself ==
    /\ \A s \in Services : serviceStatus[s] = "failed" => s \in raised
    /\ phase = "started" => \A s \in Services : serviceStatus[s] = "healthy"

\* When startup_all has raised because a service or the resolution failed, the
\* clean-up has come to every service that was created, to ask it to shut down if
\* it can, and none is being started any more.
FailedStartupCleansUp ==
    phase = "failed" =>
        \A s \in Services :
            /\ serviceStatus[s] \notin {"starting", "created"}
            /\ serviceStatus[s] = "healthy" => s \in shutDown
            /\ (\E i \in DOMAIN created : created[i] = s) => s \in shutDown

===============================================================================
