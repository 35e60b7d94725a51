--------------------------- MODULE WebSocketService ---------------------------
(***************************************************************************)
(* The data stream of WebSocketService                                     *)
(* (src/backend/services/websocket_service.py), with the authenticated     *)
(* connections of src/backend/websocket/auth_handler.py: handlers that add *)
(* and remove their connection, broadcasts that iterate over the set of    *)
(* connections itself and await each send, the task that closes            *)
(* connections whose token has expired, and stop().  The other seven       *)
(* streams have sets and broadcasts of the same form.                      *)
(*                                                                         *)
(* A Python set raises at the next element when its size has changed since *)
(* the loop began.  When as many have left as have joined by then it does  *)
(* not; but the places of the elements may have changed with the set, so   *)
(* that some are skipped and others met again, at most once more here.     *)
(***************************************************************************)
EXTENDS Naturals, Sequences, FiniteSets, FiniteSetsExt, SequencesExt

CONSTANTS
    Connections,     \* the connections made; none comes back
    Services,        \* services that broadcast: the entity service, the domain service
    Echoing          \* the connections that ask to have a message broadcast

Casters == Services \cup Echoing

VARIABLES
    data_clients,
    authenticated_connections,  \* the keys of the dictionary, in order
    handler,         \* "none", "accepting", "receiving", "echoing", "ended"
    link,            \* "up", "lost" (the client is gone) or "closed" (by us)
    expired,         \* connections whose token has expired
    cast,            \* per caster: its latest broadcast
    expiry_task,          \* _check_token_expiry_task: its place and what is left of its round
    stopping         \* stop(): "no", "closing", "stopped"; and what is left to close

wsVars == <<data_clients, authenticated_connections, handler, link, expired, cast,
            expiry_task, stopping>>

\* A broadcast has the connections at its start, the one it sends to, those whose
\* send failed, those it has met, once and twice, and whether the set has changed
\* under it; afterwards its outcome and whom it missed (history).
NoCast == [pc |-> "idle", members |-> {}, to |-> {}, failed |-> {}, met |-> {}, twice |-> {},
           disturbed |-> FALSE, outcome |-> "none", missed |-> {}]

\* The set becomes `clients', under the broadcasts that are under way.
ClientsBecome(clients, casts) ==
    /\ data_clients' = clients
    /\ cast' = [b \in Casters |->
           IF casts[b].pc = "sending" /\ clients # data_clients
           THEN [casts[b] EXCEPT !.disturbed = TRUE] ELSE casts[b]]

-----------------------------------------------------------------------------
(* The handler of a connection.                                            *)

\* authenticate_connection with a valid token, up to the accept.
Authenticate(c) ==
    /\ handler[c] = "none"
    /\ handler' = [handler EXCEPT ![c] = "accepting"]
    /\ authenticated_connections' = Append(authenticated_connections, c)
    /\ UNCHANGED <<data_clients, link, expired, cast, expiry_task, stopping>>

\* It is accepted, and may control entities: it joins.
Join(c) ==
    /\ handler[c] = "accepting"
    /\ handler' = [handler EXCEPT ![c] = "receiving"]
    /\ ClientsBecome(data_clients \cup {c}, cast)
    /\ UNCHANGED <<authenticated_connections, link, expired, expiry_task, stopping>>

\* The accept raises, or the role has no such permission: the connection is
\* closed and its entry stays.
Refuse(c) ==
    /\ handler[c] = "accepting"
    /\ handler' = [handler EXCEPT ![c] = "ended"]
    /\ link' = [link EXCEPT ![c] = "closed"]
    /\ UNCHANGED <<data_clients, authenticated_connections, expired, cast, expiry_task, stopping>>

\* receive_text raises; the finally clause.
Disconnect(c) ==
    /\ handler[c] = "receiving" /\ link[c] # "up"
    /\ handler' = [handler EXCEPT ![c] = "ended"]
    /\ ClientsBecome(data_clients \ {c}, cast)
    /\ authenticated_connections' = Remove(authenticated_connections, c)
    /\ UNCHANGED <<link, expired, expiry_task, stopping>>

LinkLost(c) ==
    /\ handler[c] \in {"receiving", "echoing"} /\ link[c] = "up"
    /\ link' = [link EXCEPT ![c] = "lost"]
    /\ UNCHANGED <<data_clients, authenticated_connections, handler, expired, cast,
                   expiry_task, stopping>>

TokenExpires(c) ==
    /\ handler[c] \in {"receiving", "echoing"} /\ c \notin expired
    /\ expired' = expired \cup {c}
    /\ UNCHANGED <<data_clients, authenticated_connections, handler, link, cast,
                   expiry_task, stopping>>

-----------------------------------------------------------------------------
(* broadcast_to_data_clients.                                              *)

\* Mutant: the set is rebuilt from those the loop has met.
Rebuilt(r) == r.met \ r.failed

\* What is left after the loop.
Pruned(r) == data_clients \ r.failed

\* The elements the loop may meet next.
Ahead(r) == data_clients \ IF r.disturbed THEN r.twice ELSE r.met

MaySkip(r) == r.disturbed

\* The broadcast is over, and the set is as given.
Ended(b, r, outcome, clients) ==
    /\ ClientsBecome(clients, [cast EXCEPT ![b] =
           [NoCast EXCEPT !.disturbed = r.disturbed, !.outcome = outcome,
                          !.missed = r.members \ r.met]])
    /\ handler' = IF b \in Connections THEN [handler EXCEPT ![b] = "receiving"] ELSE handler

\* The head of the loop: it raises, sends to the next client or is over.
Loop(b, r) ==
    IF Cardinality(data_clients) # Cardinality(r.members)
    THEN Ended(b, r, "raised", data_clients)
    ELSE \/ \E c \in Ahead(r) :
              /\ cast' = [cast EXCEPT ![b] =
                     [r EXCEPT !.pc = "sending", !.to = {c}, !.met = @ \cup {c},
                               !.twice = @ \cup (r.met \cap {c})]]
              /\ handler' = IF b \in Connections THEN [handler EXCEPT ![b] = "echoing"] ELSE handler
              /\ UNCHANGED data_clients
         \/ /\ Ahead(r) = {} \/ MaySkip(r)
            /\ Ended(b, r, "returned", Pruned(r))

\* A service broadcasts, or a handler has received a message to echo.
Broadcast(b) ==
    /\ cast[b].pc = "idle"
    /\ b \in Connections => handler[b] = "receiving" /\ link[b] = "up"
    /\ data_clients # {}
    /\ Loop(b, [NoCast EXCEPT !.members = data_clients])
    /\ UNCHANGED <<authenticated_connections, link, expired, expiry_task, stopping>>

\* send_json returns or raises; to a client that is gone it may do either.
SendReturns(b) ==
    /\ cast[b].pc = "sending"
    /\ \E failed \in SUBSET cast[b].to :
         /\ \A c \in cast[b].to : (link[c] = "up" => c \notin failed) /\ (link[c] = "closed" => c \in failed)
         /\ Loop(b, [cast[b] EXCEPT !.failed = @ \cup failed])
    /\ UNCHANGED <<authenticated_connections, link, expired, expiry_task, stopping>>

-----------------------------------------------------------------------------
(* _check_token_expiry_task.                                               *)

\* Mutant: the exception handler is outside the loop.
AfterErrorEnd == "ended"
AfterError == "sleeping"

\* Closing raises when the connection has been closed already, and may raise
\* when the client is gone.
CloseOutcomes(c) ==
    CASE link[c] = "up" -> {"closed"}
      [] link[c] = "lost" -> {"closed", "raised"}
      [] OTHER -> {"raised"}

\* The round goes on with the connections q: to the next one that is listed and
\* has expired.
Round(q) ==
    LET due == {i \in DOMAIN q : q[i] \in data_clients \cap expired}
    IN IF due = {}
       THEN expiry_task' = [pc |-> "sleeping", left |-> <<>>] /\ UNCHANGED link
       ELSE LET i == Min(due)
            IN \/ /\ "closed" \in CloseOutcomes(q[i])
                  /\ link' = [link EXCEPT ![q[i]] = "closed"]
                  /\ expiry_task' = [pc |-> "closing", left |-> SubSeq(q, i + 1, Len(q))]
               \/ /\ "raised" \in CloseOutcomes(q[i])
                  /\ expiry_task' = [pc |-> AfterError, left |-> <<>>]
                  /\ UNCHANGED link

CheckExpiry ==
    /\ expiry_task.pc = "sleeping"
    /\ Round(authenticated_connections)
    /\ UNCHANGED <<data_clients, authenticated_connections, handler, expired, cast, stopping>>

CloseReturns ==
    /\ expiry_task.pc = "closing"
    /\ Round(expiry_task.left)
    /\ UNCHANGED <<data_clients, authenticated_connections, handler, expired, cast, stopping>>

-----------------------------------------------------------------------------
(* stop().                                                                 *)

\* The task is cancelled; a copy of the set is gone through ...
Stop ==
    /\ stopping.pc = "no"
    /\ expiry_task' = [pc |-> "ended", left |-> <<>>]
    /\ stopping' = [pc |-> "closing", left |-> data_clients]
    /\ UNCHANGED <<data_clients, authenticated_connections, handler, link, expired, cast>>

StopCloses(c) ==
    /\ stopping.pc = "closing" /\ c \in stopping.left
    /\ stopping' = [stopping EXCEPT !.left = @ \ {c}]
    /\ link' = [link EXCEPT ![c] = "closed"]
    /\ UNCHANGED <<data_clients, authenticated_connections, handler, expired, cast, expiry_task>>

\* ... and the set is emptied, of those that joined meanwhile too.
StopClears ==
    /\ stopping.pc = "closing" /\ stopping.left = {}
    /\ stopping' = [stopping EXCEPT !.pc = "stopped"]
    /\ ClientsBecome({}, cast)
    /\ UNCHANGED <<authenticated_connections, handler, link, expired, expiry_task>>

WSInit ==
    /\ data_clients = {} /\ authenticated_connections = <<>>
    /\ handler = [c \in Connections |-> "none"]
    /\ link = [c \in Connections |-> "up"]
    /\ expired = {}
    /\ cast = [b \in Casters |-> NoCast]
    /\ expiry_task = [pc |-> "sleeping", left |-> <<>>]
    /\ stopping = [pc |-> "no", left |-> {}]

WSNext ==
    \/ \E c \in Connections :
         \/ Authenticate(c) \/ Join(c) \/ Refuse(c) \/ Disconnect(c)
         \/ LinkLost(c) \/ TokenExpires(c) \/ StopCloses(c)
    \/ \E b \in Casters : Broadcast(b) \/ SendReturns(b)
    \/ CheckExpiry \/ CloseReturns
    \/ Stop \/ StopClears

WSSpec == WSInit /\ [][WSNext]_wsVars

-----------------------------------------------------------------------------
(* Properties.                                                             *)

\* Who listens is served.  A connection that is up and has its handler receiving
\* stays in the set until stop() empties it, whatever broadcasts prune the set at
\* the end of a loop that began before it joined.  A broadcast has been to every
\* client it began with, and does not raise, unless the set changed under it; a
\* change loses messages even if the set is the same again afterwards.
ListeningClientsServed ==
    /\ \A c \in Connections :
         handler[c] \in {"receiving", "echoing"} /\ link[c] = "up" /\ stopping.pc # "stopped"
           => c \in data_clients
    /\ \A b \in Casters :
         cast[b].pc = "idle" /\ ~cast[b].disturbed
           => cast[b].outcome # "raised" /\ cast[b].missed = {}

\* A connection whose token has expired does not stay: also when closing another
\* one raises in every round until that one's handler, which may be awaiting its
\* own broadcast, has noticed.
ExpiredConnectionCloses ==
    \A c \in Connections :
        (c \in data_clients /\ c \in expired)
            ~> (link[c] # "up" \/ c \notin data_clients \/ stopping.pc # "no")

===============================================================================
