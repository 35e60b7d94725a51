----------------------------- MODULE BAMHandler -----------------------------
(***************************************************************************)
(* Reassembly of multi-packet (Broadcast Announce Message) transfers:      *)
(* backend/integrations/rvc/bam_handler.py, as CANBusService drives it.    *)
(*                                                                         *)
(* process_frame() is synchronous, so one received frame is one atomic     *)
(* step.  The senders on the bus are the environment: each source sends    *)
(* one transfer at a time (an announcement, then its packets in order) and *)
(* on a Lossy bus a frame may disappear, arrive twice, or the sender may   *)
(* drop a transfer and announce another.  A payload carries the transfer   *)
(* and the packet it was cut from, so a delivered message shows where each *)
(* of its pieces came from.                                                *)
(*                                                                         *)
(* Data abstraction: sizes count packets instead of bytes; a session's     *)
(* `complete' flag is not kept, because the code sets it only on a session *)
(* it removes in the same step.                                            *)
(***************************************************************************)
EXTENDS Integers, Sequences, FiniteSets

CONSTANTS
    Sources,           \* source addresses seen on the bus
    PGNs,              \* PGNs that transfers announce
    MaxPackets,        \* bound on total_packets (255 on the wire)
    Headers,           \* the (total_size, total_packets) pairs announced
    Gens,              \* tells successive transfers of one PGN apart
    MaxSessions,       \* max_concurrent_sessions
    SessionTimeout,    \* session_timeout, in clock ticks
    CleanupInterval,   \* _cleanup_interval, in clock ticks
    MaxTime,           \* bound on the clock
    Lossy              \* whether the bus may lose or repeat frames

ASSUME BAMAssumption ==
    /\ MaxPackets \in Nat \ {0}
    /\ Headers \subseteq (0..MaxPackets) \X (0..MaxPackets)
    /\ MaxSessions \in Nat \ {0}
    /\ SessionTimeout \in Nat
    /\ CleanupInterval \in Nat
    /\ MaxTime \in Nat
    /\ Lossy \in BOOLEAN
    /\ IsFiniteSet(Sources)
    /\ IsFiniteSet(PGNs)

VARIABLES
    now,           \* time.time()
    sessions,      \* self.sessions: (source, pgn) -> BAMSession
    source_to_sessions, \* source -> list of announced PGNs (<<>>: no entry)
    last_cleanup,  \* self._last_cleanup
    sending,       \* environment: the transfer each source is sending
    out            \* what the last process_frame() returned

vars == <<now, sessions, source_to_sessions, last_cleanup, sending, out>>

Key == Sources \X PGNs

Payload == [pgn : PGNs, gen : Gens, seq : 1..MaxPackets]

Session == [total_size : 0..MaxPackets,
            total_packets : 0..MaxPackets,
            received_packets : UNION {[S -> Payload] : S \in SUBSET (1..MaxPackets)},
            timestamp : Nat]

Idle == [pgn |-> "none"]

None == [pgn |-> "none"]

-----------------------------------------------------------------------------
(* The handler's helpers, on a pair st of the two dictionaries.            *)

State == [sessions |-> sessions, index |-> source_to_sessions]

\* Mutant: the source's list keeps the PGNs of removed sessions.
RemoveSessionsKeepsList(st, K) ==
    [st EXCEPT !.sessions = [k \in DOMAIN st.sessions \ K |-> st.sessions[k]]]

\* The list without the PGNs that are gone.
Remaining(list, gone) ==
    LET upto[n \in 0..Len(list)] ==
          IF n = 0 THEN <<>>
          ELSE IF list[n] \in gone THEN upto[n - 1] ELSE Append(upto[n - 1], list[n])
    IN upto[Len(list)]

\* _remove_session, for every key of K.
RemoveSessions(st, K) ==
    [sessions |-> [k \in DOMAIN st.sessions \ K |-> st.sessions[k]],
     index |-> [s \in Sources |-> Remaining(st.index[s], {p \in PGNs : <<s, p>> \in K})]]

\* _cleanup_stale_sessions: the sessions whose age exceeds the timeout.
StaleKeys(st) ==
    {k \in DOMAIN st.sessions : now - st.sessions[k].timestamp > SessionTimeout}

\* Mutant: the periodic cleanup is never due.
CleanupNeverDue == FALSE

\* The periodic cleanup at the head of process_frame.
CleanupDue == now - last_cleanup > CleanupInterval

AfterCleanup ==
    IF CleanupDue THEN RemoveSessions(State, StaleKeys(State)) ELSE State

\* _cleanup_oldest_session: the keys it may pick.  Sessions announced within
\* one tick of the model's clock may be of either order.
OldestKeys(st) ==
    {k \in DOMAIN st.sessions :
        \A j \in DOMAIN st.sessions :
            st.sessions[k].timestamp <= st.sessions[j].timestamp}

\* Mutant: eviction starts one session too late.
EvictionsLate(st) ==
    IF Cardinality(DOMAIN st.sessions) > MaxSessions
    THEN {{k} : k \in OldestKeys(st)}
    ELSE {{}}

\* What has to be evicted before a new session is stored: the oldest one
\* at capacity, even when the new session replaces one that is present.
Evictions(st) ==
    IF Cardinality(DOMAIN st.sessions) >= MaxSessions
    THEN {{k} : k \in OldestKeys(st)}
    ELSE {{}}

\* The list of PGNs of a source after an announcement of p.
Listed(list, p) ==
    IF \E i \in 1..Len(list) : list[i] = p THEN list ELSE Append(list, p)

StoreSession(st, s, p, size, n) ==
    [sessions |-> [k \in DOMAIN st.sessions \cup {<<s, p>>} |->
                     IF k = <<s, p>>
                     THEN [total_size |-> size, total_packets |-> n,
                           received_packets |-> [i \in {} |-> 0],
                           timestamp |-> now]
                     ELSE st.sessions[k]],
     index |-> [st.index EXCEPT ![s] = Listed(@, p)]]

\* Mutant: the lookup ignores the source of the frame.
ActiveKeysAnySource(st, s) == DOMAIN st.sessions

\* The session a data packet of source s goes to: the first PGN of the
\* source's list that has a session.  The frame does not name its PGN.
ActiveKeys(st, s) ==
    {<<s, p>> : p \in {q \in PGNs :
        \E i \in 1..Len(st.index[s]) :
            /\ st.index[s][i] = q
            /\ <<s, q>> \in DOMAIN st.sessions
            /\ \A j \in 1..(i - 1) :
                 <<s, st.index[s][j]>> \notin DOMAIN st.sessions}}

\* Mutant: packets are stored in the order of arrival.
StorePacketAppended(st, k, i, payload) ==
    [st EXCEPT !.sessions[k].received_packets =
        LET n == Cardinality(DOMAIN @) + 1
        IN [j \in DOMAIN @ \cup {n} |-> IF j = n THEN payload ELSE @[j]]]

StorePacket(st, k, i, payload) ==
    [st EXCEPT !.sessions[k].received_packets =
        [j \in DOMAIN @ \cup {i} |-> IF j = i THEN payload ELSE @[j]]]

\* _reassemble_message: the packets in sequence order, trimmed to size.
Reassemble(ses) ==
    SubSeq([i \in 1..ses.total_packets |-> ses.received_packets[i]],
           1, IF ses.total_size < ses.total_packets
              THEN ses.total_size ELSE ses.total_packets)

Full(ses) == Cardinality(DOMAIN ses.received_packets) >= ses.total_packets

-----------------------------------------------------------------------------
(* process_frame, for each kind of frame.                                  *)

Become(st) ==
    /\ sessions' = st.sessions
    /\ source_to_sessions' = st.index
    /\ last_cleanup' = IF CleanupDue THEN now ELSE last_cleanup

\* _handle_control_message on a BAM announcement.
HandleControl(s, p, size, n) ==
    /\ \E K \in Evictions(AfterCleanup) :
         Become(StoreSession(RemoveSessions(AfterCleanup, K), s, p, size, n))
    /\ out' = None

\* _handle_data_transfer on packet i of source s.
HandleData(s, i, payload) ==
    IF ActiveKeys(AfterCleanup, s) = {}
    THEN Become(AfterCleanup) /\ out' = None
    ELSE \E k \in ActiveKeys(AfterCleanup, s) :
           IF i < 1 \/ i > AfterCleanup.sessions[k].total_packets
           THEN Become(AfterCleanup) /\ out' = None
           ELSE LET st == StorePacket(AfterCleanup, k, i, payload)
                    ses == st.sessions[k]
                IN IF Full(ses) /\ ses.total_size > 0
                   THEN /\ Become(RemoveSessions(st, {k}))
                        /\ out' = [source |-> s, pgn |-> k[2],
                                   data |-> Reassemble(ses)]
                   ELSE Become(st) /\ out' = None

\* Any other transport frame (RTS/CTS, or too short): only the cleanup runs.
HandleOther == Become(AfterCleanup) /\ out' = None

Unheard == UNCHANGED <<sessions, source_to_sessions, last_cleanup>> /\ out' = None

-----------------------------------------------------------------------------
(* The bus.                                                                *)

\* Source s announces a transfer of n packets.  On a lossy bus it may drop
\* the transfer it was sending, announce sizes that do not fit, and the
\* announcement may be lost.
Announce(s, p, g, size, n) ==
    /\ Lossy \/ (sending[s] = Idle /\ n > 0 /\ size = n)
    /\ sending' = [sending EXCEPT ![s] = [pgn |-> p, gen |-> g, total |-> n, next |-> 1]]
    /\ \/ HandleControl(s, p, size, n)
       \/ Lossy /\ Unheard
    /\ UNCHANGED now

\* Source s sends the next packet of its transfer.
SendPacket(s) ==
    /\ sending[s] # Idle
    /\ sending[s].next <= sending[s].total
    /\ LET t == sending[s]
           i == t.next
       IN /\ sending' = [sending EXCEPT ![s] =
                 IF i = t.total /\ ~Lossy THEN Idle ELSE [t EXCEPT !.next = i + 1]]
          /\ \/ HandleData(s, i, [pgn |-> t.pgn, gen |-> t.gen, seq |-> i])
             \/ Lossy /\ Unheard
    /\ UNCHANGED now

\* A packet the source already sent arrives again.
RepeatPacket(s) ==
    /\ Lossy
    /\ sending[s] # Idle
    /\ \E i \in 1..(sending[s].next - 1) :
         HandleData(s, i, [pgn |-> sending[s].pgn, gen |-> sending[s].gen, seq |-> i])
    /\ UNCHANGED <<now, sending>>

OtherFrame == HandleOther /\ UNCHANGED <<now, sending>>

Tick ==
    /\ now < MaxTime
    /\ now' = now + 1
    /\ out' = None
    /\ UNCHANGED <<sessions, source_to_sessions, last_cleanup, sending>>

Init ==
    /\ now = 0
    /\ sessions = [k \in {} |-> 0]
    /\ source_to_sessions = [s \in Sources |-> <<>>]
    /\ last_cleanup = 0
    /\ sending = [s \in Sources |-> Idle]
    /\ out = None

Next ==
    \/ \E s \in Sources, p \in PGNs, g \in Gens, h \in Headers :
         Announce(s, p, g, h[1], h[2])
    \/ \E s \in Sources : SendPacket(s)
    \/ \E s \in Sources : RepeatPacket(s)
    \/ OtherFrame
    \/ Tick

Spec == Init /\ [][Next]_vars

-----------------------------------------------------------------------------
(* Properties.                                                             *)

\* Every variable keeps its type.
TypeOK ==
    /\ now \in 0..MaxTime
    /\ DOMAIN sessions \subseteq Key
    /\ \A k \in DOMAIN sessions : sessions[k] \in Session
    /\ source_to_sessions \in [Sources -> Seq(PGNs)]
    /\ last_cleanup \in 0..MaxTime
    /\ \A s \in Sources :
         sending[s] = Idle \/ sending[s] \in [pgn : PGNs, gen : Gens,
                              total : 0..MaxPackets, next : 1..(MaxPackets + 1)]
    /\ out = None \/ out \in [source : Sources, pgn : PGNs, data : Seq(Payload)]

\* The per-source list and the session dictionary describe the same sessions
\* and a PGN is listed once: _handle_control_message, the two cleanups and
\* completion each update both dictionaries.
IndexMatchesSessions ==
    \A s \in Sources :
        LET list == source_to_sessions[s]
        IN /\ {<<s, list[i]>> : i \in 1..Len(list)} = {k \in DOMAIN sessions : k[1] = s}
           /\ \A i, j \in 1..Len(list) : list[i] = list[j] => i = j

\* There are never more than max_concurrent_sessions sessions.
SessionsBounded == Cardinality(DOMAIN sessions) <= MaxSessions

\* A message handed on has its packets in their places: position i holds a
\* packet that carried sequence number i, whatever was lost or repeated.
PacketsInPlace ==
    out # None => /\ Len(out.data) > 0
                  /\ \A i \in 1..Len(out.data) : out.data[i].seq = i

\* A session is only fed, or completed, while it is younger than the timeout
\* plus the cleanup interval: cleanup runs only when frames arrive, but it
\* runs before the frame is used.
StaleNeverFed ==
    [][\A k \in DOMAIN sessions :
         \/ /\ k \in DOMAIN sessions'
            /\ sessions'[k].timestamp = sessions[k].timestamp
            /\ sessions'[k].received_packets # sessions[k].received_packets
         \/ out' # None /\ k = <<out'.source, out'.pgn>>
         => now - sessions[k].timestamp <= SessionTimeout + CleanupInterval]_vars

\* The message handed on is one that was sent: all its packets belong to one
\* transfer, of the PGN it is handed on under.
DeliversOneTransfer ==
    out # None => \A i \in 1..Len(out.data) :
                     /\ out.data[i].pgn = out.pgn
                     /\ out.data[i].gen = out.data[1].gen

=============================================================================
