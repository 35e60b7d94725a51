------------------------------ MODULE MCEntities ------------------------------
(***************************************************************************)
(* TLC instances of the entity components.  EntityControl and              *)
(* EntityPersistence share no state here, so interleaving them would show  *)
(* nothing: `focus' picks, once, the component whose steps a behaviour     *)
(* takes, and the run explores every behaviour of each.                    *)
(***************************************************************************)
EXTENDS EntityControl, EntityPersistence

VARIABLE focus

mcVars == <<focus, ecVars, epVars>>

\* A step of the component c, with the variables of the others at rest.
Step(c, action, rest) == focus = c /\ action /\ UNCHANGED <<focus, rest>>

MCInit == focus \in {"control", "persistence"} /\ ECInit /\ EPInit

MCNext ==
    \/ focus = "control" /\ ECNext /\ UNCHANGED <<focus, epVars>>
    \/ focus = "persistence" /\ EPNext /\ UNCHANGED <<focus, ecVars>>

\* The steps of the event loop and the bus that need no new request, stop or
\* failing send: there are finitely many of them, so that it is enough that one
\* is taken while one is possible.
ControlGoesOn ==
    \/ \E o \in Operations : Advance(o)
    \/ WriterTakes \/ WriterSendsAgain
    \/ \E l \in Lights : StatusMessage(l)

MCSpec ==
    /\ MCInit
    /\ [][MCNext]_mcVars
    /\ WF_mcVars(Step("persistence", EPWorker \/ FinishLoad, ecVars))
    /\ WF_mcVars(Step("control", ControlGoesOn, epVars))

===============================================================================
