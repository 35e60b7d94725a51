------------------------------- MODULE MCAccess -------------------------------
(***************************************************************************)
(* TLC instances of the components that decide who may do what.  They      *)
(* share no state here, so interleaving them would show nothing: `focus'   *)
(* picks, once, the component whose steps a behaviour takes, and the run   *)
(* explores every behaviour of each.                                       *)
(***************************************************************************)
EXTENDS PINManager, AccountLockout, BackupCodes, RefreshTokens, RateLimit,
        UserInvitations, WebSocketService

VARIABLE focus

mcVars == <<focus, pmVars, alVars, bcVars, rtVars, rlVars, uiVars, wsVars>>

\* Emergency operations are limited over a longer window than the others.
MCCategories == {"emergency", "safety"}
MCRateLimits == [emergency |-> 2, safety |-> 3]
MCTimeWindows == [emergency |-> 3, safety |-> 1]

\* Two looks at the WebSocket connections.  In the first every caster broadcasts
\* once, the connections are made in order and the last one stays; in the second
\* tokens expire and stop() is called, with two connections and no service.
MCBroadcasts ==
    /\ UNCHANGED <<expired, expiry_task, stopping>>
    /\ \A b \in Casters : cast[b].outcome = "none" \/ cast'[b] = cast[b]
    /\ handler["c2"] = "none" => handler'["c3"] = "none"
    /\ handler["c1"] = "none" => handler'["c2"] = "none"
    /\ link' \in [Connections -> {"up", "lost"}] /\ link'["c3"] = "up"
MCExpiry == handler'["c3"] = "none" /\ \A b \in Services : cast'[b] = NoCast
MCSockets ==
    /\ (focus = "broadcasts" /\ MCBroadcasts) \/ (focus = "sockets" /\ MCExpiry)
    /\ UNCHANGED <<focus, pmVars, alVars, bcVars, rtVars, rlVars, uiVars>>

MCInit ==
    /\ focus \in {"pin", "lockout", "mfa", "tokens", "rate", "invitations", "broadcasts", "sockets"}
    /\ PMInit /\ ALInit /\ BCInit /\ RTInit /\ RLInit /\ UIInit /\ WSInit

MCNext ==
    \/ focus = "pin" /\ PMNext
       /\ UNCHANGED <<focus, alVars, bcVars, rtVars, rlVars, uiVars, wsVars>>
    \/ focus = "lockout" /\ ALNext
       /\ UNCHANGED <<focus, pmVars, bcVars, rtVars, rlVars, uiVars, wsVars>>
    \/ focus = "mfa" /\ BCNext
       /\ UNCHANGED <<focus, pmVars, alVars, rtVars, rlVars, uiVars, wsVars>>
    \/ focus = "tokens" /\ RTNext
       /\ UNCHANGED <<focus, pmVars, alVars, bcVars, rlVars, uiVars, wsVars>>
    \/ focus = "rate" /\ RLNext
       /\ UNCHANGED <<focus, pmVars, alVars, bcVars, rtVars, uiVars, wsVars>>
    \/ focus = "invitations" /\ UINext
       /\ UNCHANGED <<focus, pmVars, alVars, bcVars, rtVars, rlVars, wsVars>>
    \/ focus \in {"broadcasts", "sockets"} /\ WSNext /\ MCSockets

\* The event loop: sends and closings end, the expiry task comes round again and a
\* handler whose connection is gone notices when it receives.
MCFairness ==
    /\ WF_mcVars(CheckExpiry /\ MCSockets)
    /\ WF_mcVars(CloseReturns /\ MCSockets)
    /\ \A b \in Casters : WF_mcVars(SendReturns(b) /\ MCSockets)
    /\ \A c \in Connections : WF_mcVars(Disconnect(c) /\ MCSockets)

MCSpec == MCInit /\ [][MCNext]_mcVars /\ MCFairness

===============================================================================
