-------------------------- MODULE BAMHandlerProofs --------------------------
(***************************************************************************)
(* Proofs about BAMHandler, for every set of sources and PGNs, every       *)
(* capacity, timeout and cleanup interval, on a lossy or a lossless bus.   *)
(***************************************************************************)
EXTENDS BAMHandler, SequenceLemmas

\* The sessions are a finite part of Key, within capacity.
CapacityInv ==
    /\ DOMAIN sessions \subseteq Key
    /\ IsFiniteSet(DOMAIN sessions)
    /\ Cardinality(DOMAIN sessions) <= MaxSessions

\* Removing keys leaves a part of the sessions there were.
LEMMA RemoveSessionsDomain ==
    ASSUME NEW st, NEW K
    PROVE  DOMAIN RemoveSessions(st, K).sessions = DOMAIN st.sessions \ K
BY DEF RemoveSessions

\* The periodic cleanup leaves a part of the sessions there were.
LEMMA AfterCleanupDomain == DOMAIN AfterCleanup.sessions \subseteq DOMAIN sessions
BY RemoveSessionsDomain DEF AfterCleanup, State

\* Storing a packet neither adds nor removes a session.
LEMMA StorePacketDomain ==
    ASSUME NEW st, NEW k, NEW i, NEW payload,
           st = [sessions |-> st.sessions, index |-> st.index]
    PROVE  DOMAIN StorePacket(st, k, i, payload).sessions = DOMAIN st.sessions
BY DEF StorePacket

\* A smaller set of sessions is within capacity too.
LEMMA SmallerWithinCapacity ==
    ASSUME CapacityInv, NEW D, D \subseteq DOMAIN sessions
    PROVE  /\ D \subseteq Key
           /\ IsFiniteSet(D)
           /\ Cardinality(D) <= MaxSessions
           /\ Cardinality(D) \in Nat
<1>1. IsFiniteSet(D) /\ Cardinality(D) <= Cardinality(DOMAIN sessions)
  BY FS_Subset DEF CapacityInv
<1>2. Cardinality(D) \in Nat /\ Cardinality(DOMAIN sessions) \in Nat
  BY <1>1, FS_CardinalityType DEF CapacityInv
<1> QED
  BY <1>1, <1>2, BAMAssumption DEF CapacityInv

\* A set of fewer than MaxSessions keys has room for one more.
LEMMA RoomForOne ==
    ASSUME NEW E, IsFiniteSet(E), Cardinality(E) < MaxSessions, NEW x
    PROVE  IsFiniteSet(E \cup {x}) /\ Cardinality(E \cup {x}) <= MaxSessions
<1>1. Cardinality(E) \in Nat
  BY FS_CardinalityType
<1>2. /\ IsFiniteSet(E \cup {x})
      /\ Cardinality(E \cup {x}) = IF x \in E THEN Cardinality(E) ELSE Cardinality(E) + 1
  BY FS_AddElement
<1> QED
  BY <1>1, <1>2, BAMAssumption

\* An announcement keeps the sessions within capacity: _cleanup_oldest_session
\* makes room whenever there is none.
LEMMA AnnouncementWithinCapacity ==
    ASSUME CapacityInv,
           NEW s \in Sources, NEW p \in PGNs, NEW size, NEW n,
           HandleControl(s, p, size, n)
    PROVE  CapacityInv'
<1> DEFINE D == DOMAIN AfterCleanup.sessions
<1>1. PICK K \in Evictions(AfterCleanup) :
        Become(StoreSession(RemoveSessions(AfterCleanup, K), s, p, size, n))
  BY DEF HandleControl
<1>2. DOMAIN sessions' = (D \ K) \cup {<<s, p>>}
  BY <1>1, RemoveSessionsDomain DEF Become, StoreSession
<1>3. /\ D \subseteq Key /\ IsFiniteSet(D)
      /\ Cardinality(D) <= MaxSessions /\ Cardinality(D) \in Nat
  BY AfterCleanupDomain, SmallerWithinCapacity
<1>4. PICK E : E = D \ K
  OBVIOUS
<1>5. IsFiniteSet(E) /\ Cardinality(E) < MaxSessions
  <2>1. CASE Cardinality(D) >= MaxSessions
    <3>1. PICK k \in D : K = {k}
      BY <1>1, <2>1 DEF Evictions, OldestKeys
    <3>2. E = D \ {k}
      BY <1>4, <3>1
    <3>3. Cardinality(E) = Cardinality(D) - 1 /\ IsFiniteSet(E)
      BY <1>3, <3>1, <3>2, FS_RemoveElement
    <3> HIDE DEF D
    <3> QED
      BY <1>3, <2>1, <3>3, BAMAssumption
  <2>2. CASE ~(Cardinality(D) >= MaxSessions)
    <3>1. K = {}
      BY <1>1, <2>2 DEF Evictions
    <3>2. E = D
      BY <1>4, <3>1
    <3> HIDE DEF D
    <3> QED
      BY <1>3, <2>2, <3>2, BAMAssumption
  <2> QED
    BY <2>1, <2>2
<1>6. DOMAIN sessions' = E \cup {<<s, p>>}
  BY <1>2, <1>4
<1>7. E \cup {<<s, p>>} \subseteq Key
  BY <1>3, <1>4 DEF Key
<1> QED
  BY <1>5, <1>6, <1>7, RoomForOne DEF CapacityInv

\* AfterCleanup is a pair of dictionaries, as State is.
LEMMA AfterCleanupRecord ==
    AfterCleanup = [sessions |-> AfterCleanup.sessions, index |-> AfterCleanup.index]
BY DEF AfterCleanup, RemoveSessions, State

\* A data packet never adds a session.
LEMMA DataShrinks ==
    ASSUME NEW s, NEW i, NEW payload, HandleData(s, i, payload)
    PROVE  DOMAIN sessions' \subseteq DOMAIN sessions
<1>1. CASE Become(AfterCleanup)
  BY <1>1, AfterCleanupDomain DEF Become
<1>2. ASSUME NEW k, Become(StorePacket(AfterCleanup, k, i, payload))
      PROVE  DOMAIN sessions' \subseteq DOMAIN sessions
  BY <1>2, AfterCleanupDomain, AfterCleanupRecord, StorePacketDomain DEF Become
<1>3. ASSUME NEW k, Become(RemoveSessions(StorePacket(AfterCleanup, k, i, payload), {k}))
      PROVE  DOMAIN sessions' \subseteq DOMAIN sessions
  BY <1>3, AfterCleanupDomain, AfterCleanupRecord, StorePacketDomain, RemoveSessionsDomain
     DEF Become
<1> QED
  BY <1>1, <1>2, <1>3 DEF HandleData

\* There are never more than max_concurrent_sessions sessions, whatever the
\* frames that arrive: __init__, process_frame and the two cleanups.
THEOREM SessionsAlwaysBounded == Spec => []SessionsBounded
<1>1. Init => CapacityInv
  <2>1. DOMAIN [k \in {} |-> 0] = {}
    OBVIOUS
  <2>2. IsFiniteSet({}) /\ Cardinality({}) = 0
    BY FS_EmptySet
  <2> QED
    BY <2>1, <2>2, BAMAssumption DEF Init, CapacityInv
<1>2. CapacityInv /\ [Next]_vars => CapacityInv'
  <2> SUFFICES ASSUME CapacityInv, [Next]_vars PROVE CapacityInv'
    OBVIOUS
  <2>0. ASSUME DOMAIN sessions' \subseteq DOMAIN sessions PROVE CapacityInv'
    BY <2>0, SmallerWithinCapacity DEF CapacityInv
  <2>1. ASSUME NEW s \in Sources, NEW p \in PGNs, NEW g \in Gens, NEW h \in Headers,
               Announce(s, p, g, h[1], h[2])
        PROVE  CapacityInv'
    <3>1. CASE HandleControl(s, p, h[1], h[2])
      BY <3>1, AnnouncementWithinCapacity
    <3>2. CASE Unheard
      BY <2>0, <3>2 DEF Unheard
    <3> QED
      BY <2>1, <3>1, <3>2 DEF Announce
  <2>2. ASSUME NEW s \in Sources, SendPacket(s) PROVE CapacityInv'
    <3>1. CASE Unheard
      BY <2>0, <3>1 DEF Unheard
    <3>2. ASSUME NEW i, NEW payload, HandleData(s, i, payload) PROVE CapacityInv'
      BY <2>0, <3>2, DataShrinks
    <3> QED
      BY <2>2, <3>1, <3>2 DEF SendPacket
  <2>3. ASSUME NEW s \in Sources, RepeatPacket(s) PROVE CapacityInv'
    <3>1. ASSUME NEW i, NEW payload, HandleData(s, i, payload) PROVE CapacityInv'
      BY <2>0, <3>1, DataShrinks
    <3> QED
      BY <2>3, <3>1 DEF RepeatPacket
  <2>4. CASE OtherFrame
    BY <2>0, <2>4, AfterCleanupDomain DEF OtherFrame, HandleOther, Become
  <2>5. CASE Tick
    BY <2>0, <2>5 DEF Tick
  <2>6. CASE UNCHANGED vars
    BY <2>0, <2>6 DEF vars
  <2> QED
    BY <2>1, <2>2, <2>3, <2>4, <2>5, <2>6 DEF Next
<1>3. CapacityInv => SessionsBounded
  BY DEF CapacityInv, SessionsBounded
<1> QED
  BY <1>1, <1>2, <1>3, PTL DEF Spec

-----------------------------------------------------------------------------
(* What the sessions hold: packets in their places, and no session that    *)
(* a past cleanup should have removed.                                     *)

\* A session is a BAMSession record whose packets are filed under their own
\* sequence number, within the announced count.
SessionGood(ses) ==
    /\ ses = [total_size |-> ses.total_size, total_packets |-> ses.total_packets,
              received_packets |-> ses.received_packets, timestamp |-> ses.timestamp]
    /\ ses.total_size \in Nat /\ ses.total_packets \in Nat /\ ses.timestamp \in Nat
    /\ DOMAIN ses.received_packets \subseteq 1..ses.total_packets
    /\ \A i \in DOMAIN ses.received_packets : ses.received_packets[i].seq = i

\* When the last cleanup ran, every session that still exists was young
\* enough to stay.
SessionsInv ==
    /\ now \in Nat /\ last_cleanup \in Nat /\ last_cleanup <= now
    /\ \A k \in DOMAIN sessions :
         /\ SessionGood(sessions[k])
         /\ sessions[k].timestamp <= now
         /\ last_cleanup - sessions[k].timestamp <= SessionTimeout

\* The senders count their packets.
SendersInv ==
    /\ DOMAIN sending = Sources
    /\ \A s \in Sources :
         sending[s] = Idle \/ sending[s] \in [pgn : PGNs, gen : Gens, total : Nat, next : Nat]

ReassemblyInv == SessionsInv /\ SendersInv /\ PacketsInPlace

\* The value process_frame leaves in _last_cleanup.
CleanupTime == IF CleanupDue THEN now ELSE last_cleanup

\* The periodic cleanup leaves sessions as they were, and none that is older
\* than the timeout plus the cleanup interval.
LEMMA AfterCleanupYoung ==
    ASSUME SessionsInv, NEW k \in DOMAIN AfterCleanup.sessions
    PROVE  /\ k \in DOMAIN sessions
           /\ AfterCleanup.sessions[k] = sessions[k]
           /\ now - sessions[k].timestamp <= SessionTimeout + CleanupInterval
           /\ CleanupTime - sessions[k].timestamp <= SessionTimeout
<1>1. k \in DOMAIN sessions
  BY AfterCleanupDomain
<1>2. /\ sessions[k].timestamp \in Nat /\ sessions[k].timestamp <= now
      /\ last_cleanup - sessions[k].timestamp <= SessionTimeout
      /\ now \in Nat /\ last_cleanup \in Nat
      /\ SessionTimeout \in Nat /\ CleanupInterval \in Nat
  BY <1>1, BAMAssumption DEF SessionsInv, SessionGood
<1>3. CASE CleanupDue
  <2>1. k \in DOMAIN sessions \ StaleKeys(State) /\ AfterCleanup.sessions[k] = sessions[k]
    BY <1>3, RemoveSessionsDomain DEF AfterCleanup, RemoveSessions, State
  <2>2. now - sessions[k].timestamp <= SessionTimeout
    BY <2>1, <1>2 DEF StaleKeys, State
  <2> QED
    BY <1>1, <1>2, <1>3, <2>1, <2>2 DEF CleanupTime
<1>4. CASE ~CleanupDue
  <2>1. AfterCleanup.sessions[k] = sessions[k]
    BY <1>4 DEF AfterCleanup, State
  <2> QED
    BY <1>1, <1>2, <1>4, <2>1 DEF CleanupTime, CleanupDue
<1> QED
  BY <1>3, <1>4

\* A frame leaves each session as the cleanup left it, gives it a packet, or
\* starts it now.  Of such a step the invariant of the sessions survives.
LEMMA SessionsInvKept ==
    ASSUME SessionsInv, now' = now, last_cleanup' = CleanupTime,
           \A k \in DOMAIN sessions' :
              /\ SessionGood(sessions'[k])
              /\ \/ /\ k \in DOMAIN AfterCleanup.sessions
                    /\ sessions'[k].timestamp = AfterCleanup.sessions[k].timestamp
                 \/ sessions'[k].timestamp = now
    PROVE  SessionsInv'
<1>1. now \in Nat /\ last_cleanup \in Nat /\ last_cleanup <= now /\ SessionTimeout \in Nat
  BY BAMAssumption DEF SessionsInv
<1>2. CleanupTime \in Nat /\ CleanupTime <= now
  BY <1>1 DEF CleanupTime
<1>3. ASSUME NEW k \in DOMAIN sessions'
      PROVE  /\ sessions'[k].timestamp <= now
             /\ CleanupTime - sessions'[k].timestamp <= SessionTimeout
  <2>1. CASE sessions'[k].timestamp = now
    BY <1>1, <1>2, <2>1
  <2>2. CASE /\ k \in DOMAIN AfterCleanup.sessions
             /\ sessions'[k].timestamp = AfterCleanup.sessions[k].timestamp
    BY <2>2, AfterCleanupYoung DEF SessionsInv
  <2> QED
    BY <1>3, <2>1, <2>2
<1>4. \A k \in DOMAIN sessions' : SessionGood(sessions'[k])
  OBVIOUS
<1> QED
  BY <1>1, <1>2, <1>3, <1>4 DEF SessionsInv, SessionGood

\* What the cleanup leaves is as good as what there was.
LEMMA AfterCleanupGood ==
    ASSUME SessionsInv, NEW k \in DOMAIN AfterCleanup.sessions
    PROVE  SessionGood(AfterCleanup.sessions[k])
BY AfterCleanupYoung DEF SessionsInv

\* When only the cleanup ran.
LEMMA CleanupOnlyKeeps ==
    ASSUME SessionsInv, now' = now, Become(AfterCleanup)
    PROVE  SessionsInv'
<1>1. sessions' = AfterCleanup.sessions /\ last_cleanup' = CleanupTime
  BY DEF Become, CleanupTime
<1> QED
  BY <1>1, SessionsInvKept, AfterCleanupGood

\* An announcement starts a good session, now, and leaves the others alone.
LEMMA AnnouncementSessions ==
    ASSUME SessionsInv,
           NEW s, NEW p, NEW size \in Nat, NEW n \in Nat, HandleControl(s, p, size, n)
    PROVE  /\ last_cleanup' = CleanupTime
           /\ \A k \in DOMAIN sessions' :
                \/ /\ k \in DOMAIN AfterCleanup.sessions
                   /\ sessions'[k] = AfterCleanup.sessions[k]
                \/ SessionGood(sessions'[k]) /\ sessions'[k].timestamp = now
<1>1. PICK K \in Evictions(AfterCleanup) :
        Become(StoreSession(RemoveSessions(AfterCleanup, K), s, p, size, n))
  BY DEF HandleControl
<1>2. last_cleanup' = CleanupTime
  BY <1>1 DEF Become, CleanupTime
<1>3. ASSUME NEW k \in DOMAIN sessions'
      PROVE  \/ /\ k \in DOMAIN AfterCleanup.sessions
                /\ sessions'[k] = AfterCleanup.sessions[k]
             \/ SessionGood(sessions'[k]) /\ sessions'[k].timestamp = now
  <2>1. k \in (DOMAIN AfterCleanup.sessions \ K) \cup {<<s, p>>}
    BY <1>1, <1>3 DEF Become, StoreSession, RemoveSessions
  <2>2. CASE k = <<s, p>>
    <3>1. sessions'[k] = [total_size |-> size, total_packets |-> n,
                          received_packets |-> [i \in {} |-> 0], timestamp |-> now]
      BY <1>1, <2>1, <2>2 DEF Become, StoreSession, RemoveSessions
    <3> QED
      BY <3>1 DEF SessionGood, SessionsInv
  <2>3. CASE k # <<s, p>>
    <3>1. k \in DOMAIN AfterCleanup.sessions \ K
      BY <2>1, <2>3
    <3>2. sessions'[k] = AfterCleanup.sessions[k]
      BY <1>1, <2>3, <3>1 DEF Become, StoreSession, RemoveSessions
    <3> QED
      BY <3>1, <3>2
  <2> QED
    BY <2>2, <2>3
<1> QED
  BY <1>2, <1>3

\* Filing a packet under its own number keeps a session good.
LEMMA StorePacketGood ==
    ASSUME NEW st, st = [sessions |-> st.sessions, index |-> st.index],
           NEW k \in DOMAIN st.sessions, SessionGood(st.sessions[k]),
           NEW i \in 1..st.sessions[k].total_packets, NEW payload, payload.seq = i
    PROVE  /\ SessionGood(StorePacket(st, k, i, payload).sessions[k])
           /\ StorePacket(st, k, i, payload).sessions[k].timestamp = st.sessions[k].timestamp
           /\ StorePacket(st, k, i, payload).sessions[k].total_packets
                = st.sessions[k].total_packets
           /\ \A j \in DOMAIN st.sessions \ {k} :
                StorePacket(st, k, i, payload).sessions[j] = st.sessions[j]
<1> DEFINE ses == st.sessions[k]
           rp == [j \in DOMAIN ses.received_packets \cup {i} |->
                    IF j = i THEN payload ELSE ses.received_packets[j]]
<1>1. StorePacket(st, k, i, payload).sessions[k] = [ses EXCEPT !.received_packets = rp]
  BY DEF StorePacket
<1>2. [ses EXCEPT !.received_packets = rp]
        = [total_size |-> ses.total_size, total_packets |-> ses.total_packets,
           received_packets |-> rp, timestamp |-> ses.timestamp]
  <2>1. ses = [total_size |-> ses.total_size, total_packets |-> ses.total_packets,
               received_packets |-> ses.received_packets, timestamp |-> ses.timestamp]
    BY DEF SessionGood
  <2> HIDE DEF ses, rp
  <2> QED
    BY <2>1
<1>3. /\ DOMAIN rp \subseteq 1..ses.total_packets
      /\ \A j \in DOMAIN rp : rp[j].seq = j
  BY DEF SessionGood
<1>4. ses.total_size \in Nat /\ ses.total_packets \in Nat /\ ses.timestamp \in Nat
  BY DEF SessionGood
<1>5. \A j \in DOMAIN st.sessions \ {k} :
        StorePacket(st, k, i, payload).sessions[j] = st.sessions[j]
  BY DEF StorePacket
<1> HIDE DEF ses, rp
<1>6. /\ SessionGood(StorePacket(st, k, i, payload).sessions[k])
      /\ StorePacket(st, k, i, payload).sessions[k].timestamp = ses.timestamp
      /\ StorePacket(st, k, i, payload).sessions[k].total_packets = ses.total_packets
  BY <1>1, <1>2, <1>3, <1>4 DEF SessionGood
<1> QED
  BY <1>5, <1>6 DEF ses

\* A full session has every packet, so the message is made of them, in order.
LEMMA ReassembledFrom ==
    ASSUME NEW ses, SessionGood(ses), Full(ses), ses.total_size > 0, ses.total_packets > 0
    PROVE  /\ Len(Reassemble(ses)) > 0
           /\ \A i \in 1..Len(Reassemble(ses)) :
                /\ i \in DOMAIN ses.received_packets
                /\ Reassemble(ses)[i] = ses.received_packets[i]
<1> DEFINE n == ses.total_packets
           m == IF ses.total_size < n THEN ses.total_size ELSE n
           f == [i \in 1..n |-> ses.received_packets[i]]
<1>1. n \in Nat /\ m \in 1..n
  BY DEF SessionGood
<1>2. DOMAIN ses.received_packets = 1..n
  <2>1. IsFiniteSet(1..n) /\ Cardinality(1..n) = n
    BY <1>1, FS_Interval
  <2>2. DOMAIN ses.received_packets \subseteq 1..n
    BY DEF SessionGood
  <2>3. Cardinality(DOMAIN ses.received_packets) >= n
    BY DEF Full
  <2>4. /\ IsFiniteSet(DOMAIN ses.received_packets)
        /\ Cardinality(DOMAIN ses.received_packets) <= n
        /\ Cardinality(DOMAIN ses.received_packets) = n
             => DOMAIN ses.received_packets = 1..n
    BY <2>1, <2>2, FS_Subset
  <2>5. Cardinality(DOMAIN ses.received_packets) \in Nat
    BY <2>4, FS_CardinalityType
  <2> HIDE DEF n
  <2> QED
    BY <1>1, <2>3, <2>4, <2>5
<1>3. \A i \in 1..n : i \in DOMAIN ses.received_packets /\ f[i] = ses.received_packets[i]
  BY <1>2
<1> HIDE DEF n, m
<1>4. /\ Len(SubSeq(f, 1, m)) = m
      /\ \A i \in 1..m : SubSeq(f, 1, m)[i] = f[i]
  <2> DEFINE S == {f[i] : i \in 1..n}
  <2>1. \A i \in 1..m : f[i] \in S
    BY <1>1
  <2> HIDE DEF f, S
  <2>2. /\ Len(SubSeq(f, 1, m)) = IF 1 <= m THEN m - 1 + 1 ELSE 0
        /\ \A i \in 1..(m - 1 + 1) : SubSeq(f, 1, m)[i] = f[1 + i - 1]
    BY <1>1, <2>1, SubSeqProperties, 1 \in Int, m \in Int
  <2> QED
    BY <1>1, <2>2
<1>5. Reassemble(ses) = SubSeq(f, 1, m)
  BY DEF Reassemble, m, n
<1> HIDE DEF f
<1> QED
  BY <1>1, <1>3, <1>4, <1>5

\* So it has each packet in its place.
LEMMA ReassembledInPlace ==
    ASSUME NEW ses, SessionGood(ses), Full(ses), ses.total_size > 0, ses.total_packets > 0
    PROVE  /\ Len(Reassemble(ses)) > 0
           /\ \A i \in 1..Len(Reassemble(ses)) : Reassemble(ses)[i].seq = i
BY ReassembledFrom DEF SessionGood

\* A data packet only touches the sessions the cleanup left, and what it
\* hands on is the reassembled message of one of them.
LEMMA DataSessions ==
    ASSUME SessionsInv,
           NEW s, NEW i \in Int, NEW payload, payload.seq = i,
           HandleData(s, i, payload)
    PROVE  /\ last_cleanup' = CleanupTime
           /\ \A k \in DOMAIN sessions' :
                /\ k \in DOMAIN AfterCleanup.sessions
                /\ SessionGood(sessions'[k])
                /\ sessions'[k].timestamp = AfterCleanup.sessions[k].timestamp
           /\ \/ out' = None
              \/ /\ <<out'.source, out'.pgn>> \in DOMAIN AfterCleanup.sessions
                 /\ Len(out'.data) > 0
                 /\ \A j \in 1..Len(out'.data) : out'.data[j].seq = j
<1>1. CASE Become(AfterCleanup) /\ out' = None
  BY <1>1, AfterCleanupGood DEF Become, CleanupTime
<1>2. CASE ~(Become(AfterCleanup) /\ out' = None)
  <2>1. PICK k \in ActiveKeys(AfterCleanup, s) :
          /\ ~(i < 1 \/ i > AfterCleanup.sessions[k].total_packets)
          /\ LET st == StorePacket(AfterCleanup, k, i, payload)
                 ses == st.sessions[k]
             IN IF Full(ses) /\ ses.total_size > 0
                THEN /\ Become(RemoveSessions(st, {k}))
                     /\ out' = [source |-> s, pgn |-> k[2], data |-> Reassemble(ses)]
                ELSE Become(st) /\ out' = None
    BY <1>2 DEF HandleData
  <2> DEFINE A == AfterCleanup.sessions
             st == StorePacket(AfterCleanup, k, i, payload)
             ses == st.sessions[k]
  <2>2. k \in DOMAIN A /\ k = <<s, k[2]>>
    <3>1. PICK q \in PGNs :
            /\ k = <<s, q>>
            /\ \E j \in 1..Len(AfterCleanup.index[s]) :
                 AfterCleanup.index[s][j] = q /\ <<s, q>> \in DOMAIN AfterCleanup.sessions
      BY ONLY k \in ActiveKeys(AfterCleanup, s) DEF ActiveKeys
    <3> HIDE DEF st, ses
    <3> QED
      BY <3>1
  <2>3. SessionGood(A[k])
    BY <2>2, AfterCleanupGood
  <2>4. i \in 1..A[k].total_packets /\ A[k].total_packets > 0
    BY <2>1, <2>3 DEF SessionGood
  <2>5. /\ DOMAIN st.sessions = DOMAIN A
        /\ SessionGood(ses) /\ ses.timestamp = A[k].timestamp
        /\ ses.total_packets = A[k].total_packets
        /\ \A j \in DOMAIN A \ {k} : st.sessions[j] = A[j]
    BY <2>2, <2>3, <2>4, AfterCleanupRecord, StorePacketDomain, StorePacketGood
  <2>6. \A j \in DOMAIN st.sessions :
          /\ j \in DOMAIN A
          /\ SessionGood(st.sessions[j])
          /\ st.sessions[j].timestamp = A[j].timestamp
    BY <2>5, AfterCleanupGood
  <2>7. CASE Full(ses) /\ ses.total_size > 0
    <3>1. /\ Become(RemoveSessions(st, {k}))
          /\ out' = [source |-> s, pgn |-> k[2], data |-> Reassemble(ses)]
      BY <2>1, <2>7
    <3> HIDE DEF st, ses, A
    <3>2. /\ last_cleanup' = CleanupTime
          /\ DOMAIN sessions' = DOMAIN st.sessions \ {k}
          /\ \A j \in DOMAIN sessions' : sessions'[j] = st.sessions[j]
      BY <3>1 DEF Become, RemoveSessions, CleanupTime
    <3>3. /\ Len(Reassemble(ses)) > 0
          /\ \A j \in 1..Len(Reassemble(ses)) : Reassemble(ses)[j].seq = j
      BY <2>4, <2>5, <2>7, ReassembledInPlace
    <3> QED
      BY <2>2, <2>6, <3>1, <3>2, <3>3 DEF A
  <2>8. CASE ~(Full(ses) /\ ses.total_size > 0)
    <3>1. Become(st) /\ out' = None
      BY <2>1, <2>8
    <3> HIDE DEF st
    <3> QED
      BY <2>6, <3>1 DEF Become, CleanupTime
  <2> QED
    BY <2>7, <2>8
<1> QED
  BY <1>1, <1>2

\* A packet, new or repeated, carries the sequence number it is handled with.
LEMMA DataKeeps ==
    ASSUME SessionsInv, now' = now,
           NEW s, NEW i \in Int, NEW payload, payload.seq = i,
           HandleData(s, i, payload)
    PROVE  SessionsInv' /\ PacketsInPlace'
<1>1. SessionsInv'
  BY DataSessions, SessionsInvKept
<1>2. PacketsInPlace'
  BY DataSessions DEF PacketsInPlace
<1> QED
  BY <1>1, <1>2

\* What an unheard frame leaves.
LEMMA NothingKeeps ==
    ASSUME SessionsInv, now' \in Nat, now <= now',
           UNCHANGED <<sessions, last_cleanup>>
    PROVE  SessionsInv'
<1>1. \A k \in DOMAIN sessions : sessions[k].timestamp \in Nat
  BY DEF SessionsInv, SessionGood
<1>2. ASSUME NEW k \in DOMAIN sessions PROVE sessions[k].timestamp <= now'
  BY <1>1 DEF SessionsInv
<1>3. last_cleanup <= now'
  BY DEF SessionsInv
<1> QED
  BY <1>2, <1>3 DEF SessionsInv

LEMMA ReassemblyInit == Init => ReassemblyInv
<1> SUFFICES ASSUME Init PROVE ReassemblyInv
  OBVIOUS
<1>1. SessionsInv
  BY DEF Init, SessionsInv
<1>2. SendersInv
  BY DEF Init, SendersInv
<1> QED
  BY <1>1, <1>2 DEF Init, PacketsInPlace, ReassemblyInv

\* Every action keeps the sessions good and hands on complete messages.
LEMMA ReassemblyStep == ReassemblyInv /\ [Next]_vars => ReassemblyInv'
<1> SUFFICES ASSUME ReassemblyInv, [Next]_vars PROVE ReassemblyInv'
  OBVIOUS
<1> USE DEF ReassemblyInv
<1>0. now \in Nat
  BY DEF SessionsInv
<1>1. ASSUME NEW s \in Sources, NEW p \in PGNs, NEW g \in Gens, NEW h \in Headers,
             Announce(s, p, g, h[1], h[2])
      PROVE  ReassemblyInv'
  <2>1. h[1] \in Nat /\ h[2] \in Nat
    BY BAMAssumption
  <2>2. SendersInv'
    BY <1>1, <2>1 DEF Announce, SendersInv
  <2>3. now' = now /\ out' = None
    BY <1>1 DEF Announce, HandleControl, Unheard
  <2>4. CASE HandleControl(s, p, h[1], h[2])
    <3>1. SessionsInv'
      BY <2>1, <2>3, <2>4, AnnouncementSessions, AfterCleanupGood, SessionsInvKept
    <3> QED
      BY <2>2, <2>3, <3>1 DEF PacketsInPlace
  <2>5. CASE Unheard
    BY <1>0, <2>2, <2>3, <2>5, NothingKeeps DEF Unheard, PacketsInPlace
  <2> QED
    BY <1>1, <2>4, <2>5 DEF Announce
<1>2. ASSUME NEW s \in Sources, SendPacket(s) PROVE ReassemblyInv'
  <2> DEFINE t == sending[s]
  <2>1. t \in [pgn : PGNs, gen : Gens, total : Nat, next : Nat]
    BY <1>2 DEF SendPacket, SendersInv
  <2>2. SendersInv'
    <3>1. [t EXCEPT !.next = t.next + 1] \in [pgn : PGNs, gen : Gens, total : Nat, next : Nat]
      BY <2>1
    <3>2. sending' = [sending EXCEPT ![s] = IF t.next = t.total /\ ~Lossy
                                            THEN Idle
                                            ELSE [t EXCEPT !.next = t.next + 1]]
      BY <1>2 DEF SendPacket
    <3> HIDE DEF t
    <3> QED
      BY <3>1, <3>2 DEF SendersInv
  <2>3. now' = now
    BY <1>2 DEF SendPacket
  <2>4. CASE HandleData(s, t.next, [pgn |-> t.pgn, gen |-> t.gen, seq |-> t.next])
    <3>1. t.next \in Int
      BY <2>1
    <3> HIDE DEF t
    <3> QED
      BY <2>2, <2>3, <2>4, <3>1, DataKeeps
  <2>5. CASE Unheard
    BY <1>0, <2>2, <2>3, <2>5, NothingKeeps DEF Unheard, PacketsInPlace
  <2> QED
    BY <1>2, <2>4, <2>5 DEF SendPacket
<1>3. ASSUME NEW s \in Sources, RepeatPacket(s) PROVE ReassemblyInv'
  <2>1. PICK i \in 1..(sending[s].next - 1) :
          HandleData(s, i, [pgn |-> sending[s].pgn, gen |-> sending[s].gen, seq |-> i])
    BY <1>3 DEF RepeatPacket
  <2>2. now' = now /\ SendersInv'
    BY <1>3 DEF RepeatPacket, SendersInv
  <2> QED
    BY <2>1, <2>2, DataKeeps
<1>4. CASE OtherFrame
  <2>1. SessionsInv'
    BY <1>4, CleanupOnlyKeeps DEF OtherFrame, HandleOther
  <2> QED
    BY <1>4, <2>1 DEF OtherFrame, HandleOther, SendersInv, PacketsInPlace
<1>5. CASE Tick
  <2>1. SessionsInv'
    BY <1>0, <1>5, NothingKeeps DEF Tick
  <2> QED
    BY <1>5, <2>1 DEF Tick, SendersInv, PacketsInPlace
<1>6. CASE UNCHANGED vars
  BY <1>6 DEF vars, SessionsInv, SendersInv, PacketsInPlace
<1> QED
  BY <1>1, <1>2, <1>3, <1>4, <1>5, <1>6 DEF Next

\* Whatever is lost or repeated, a message handed on has each packet in its
\* place: _handle_data_transfer and _reassemble_message.
THEOREM MessagesInPlace == Spec => []PacketsInPlace
<1>1. ReassemblyInv => PacketsInPlace
  BY DEF ReassemblyInv
<1> QED
  BY <1>1, ReassemblyInit, ReassemblyStep, PTL DEF Spec

\* The sessions that a step may feed or complete.
Fed(k) ==
    \/ /\ k \in DOMAIN sessions'
       /\ sessions'[k].timestamp = sessions[k].timestamp
       /\ sessions'[k].received_packets # sessions[k].received_packets
    \/ out' # None /\ k = <<out'.source, out'.pgn>>

\* No session is fed or completed past the timeout and the cleanup interval:
\* process_frame cleans up before it looks a session up.
THEOREM StaleSessionsNeverFed == Spec => StaleNeverFed
<1> DEFINE Young == \A k \in DOMAIN sessions :
                      Fed(k) => now - sessions[k].timestamp
                                  <= SessionTimeout + CleanupInterval
<1>1. ASSUME SessionsInv,
             NEW s, NEW i \in Int, NEW payload, payload.seq = i, HandleData(s, i, payload)
      PROVE  Young
  BY <1>1, DataSessions, AfterCleanupYoung DEF Fed
<1>2. ASSUME SessionsInv, UNCHANGED sessions, out' = None PROVE Young
  BY <1>2 DEF Fed
<1>3. ASSUME SessionsInv, Become(AfterCleanup), out' = None PROVE Young
  BY <1>3, AfterCleanupYoung DEF Fed, Become
<1>4. ReassemblyInv /\ [Next]_vars => [Young]_vars
  <2> SUFFICES ASSUME ReassemblyInv, Next PROVE Young
    OBVIOUS
  <2> HIDE DEF Young
  <2>0. SessionsInv /\ SendersInv
    BY DEF ReassemblyInv
  <2>1. ASSUME NEW s \in Sources, NEW p \in PGNs, NEW g \in Gens, NEW h \in Headers,
               Announce(s, p, g, h[1], h[2])
        PROVE  Young
    <3>1. CASE HandleControl(s, p, h[1], h[2])
      <4>1. h[1] \in Nat /\ h[2] \in Nat /\ SessionTimeout \in Nat /\ CleanupInterval \in Nat
        BY BAMAssumption
      <4>2. ASSUME NEW k \in DOMAIN sessions, Fed(k)
            PROVE  now - sessions[k].timestamp <= SessionTimeout + CleanupInterval
        <5>1. /\ k \in DOMAIN sessions'
              /\ sessions'[k].timestamp = sessions[k].timestamp
          BY <3>1, <4>2 DEF Fed, HandleControl
        <5>2. CASE k \in DOMAIN AfterCleanup.sessions
          BY <2>0, <5>2, AfterCleanupYoung
        <5>3. CASE sessions'[k].timestamp = now
          BY <2>0, <4>1, <5>1, <5>3 DEF SessionsInv
        <5> QED
          BY <2>0, <3>1, <4>1, <5>1, <5>2, <5>3, AnnouncementSessions
      <4> QED
        BY <4>2 DEF Young
    <3>2. CASE Unheard
      BY <1>2, <2>0, <3>2 DEF Unheard
    <3> QED
      BY <2>1, <3>1, <3>2 DEF Announce
  <2>2. ASSUME NEW s \in Sources, SendPacket(s) PROVE Young
    <3> DEFINE t == sending[s]
    <3>1. t.next \in Int
      BY <2>0, <2>2 DEF SendPacket, SendersInv
    <3>2. CASE HandleData(s, t.next, [pgn |-> t.pgn, gen |-> t.gen, seq |-> t.next])
      <4> HIDE DEF t
      <4> QED
        BY <1>1, <2>0, <3>1, <3>2
    <3>3. CASE Unheard
      BY <1>2, <2>0, <3>3 DEF Unheard
    <3> QED
      BY <2>2, <3>2, <3>3 DEF SendPacket
  <2>3. ASSUME NEW s \in Sources, RepeatPacket(s) PROVE Young
    <3>1. PICK i \in 1..(sending[s].next - 1) :
            HandleData(s, i, [pgn |-> sending[s].pgn, gen |-> sending[s].gen, seq |-> i])
      BY <2>3 DEF RepeatPacket
    <3> QED
      BY <1>1, <2>0, <3>1
  <2>4. CASE OtherFrame
    BY <1>3, <2>0, <2>4 DEF OtherFrame, HandleOther
  <2>5. CASE Tick
    BY <1>2, <2>0, <2>5 DEF Tick
  <2> QED
    BY <2>1, <2>2, <2>3, <2>4, <2>5 DEF Next
<1>5. [Young]_vars => [\A k \in DOMAIN sessions :
         \/ /\ k \in DOMAIN sessions'
            /\ sessions'[k].timestamp = sessions[k].timestamp
            /\ sessions'[k].received_packets # sessions[k].received_packets
         \/ out' # None /\ k = <<out'.source, out'.pgn>>
         => now - sessions[k].timestamp <= SessionTimeout + CleanupInterval]_vars
  BY DEF Fed
<1> HIDE DEF Young
<1> QED
  BY <1>4, <1>5, ReassemblyInit, ReassemblyStep, PTL DEF Spec, StaleNeverFed

-----------------------------------------------------------------------------
(* The two dictionaries describe the same sessions.                        *)

RangeOf(list) == {list[i] : i \in 1..Len(list)}

NoneTwice(list) == \A i, j \in 1..Len(list) : list[i] = list[j] => i = j

LEMMA AppendedList ==
    ASSUME NEW X, NEW list \in Seq(X), NEW p \in X
    PROVE  /\ Append(list, p) \in Seq(X)
           /\ RangeOf(Append(list, p)) = RangeOf(list) \cup {p}
           /\ NoneTwice(list) /\ p \notin RangeOf(list) => NoneTwice(Append(list, p))
<1>1. /\ Append(list, p) \in Seq(X) /\ Len(Append(list, p)) = Len(list) + 1 /\ Len(list) \in Nat
      /\ Append(list, p)[Len(list) + 1] = p
      /\ \A i \in 1..Len(list) : Append(list, p)[i] = list[i]
  BY AppendProperties
<1>2. \A i \in 1..(Len(list) + 1) : i \in 1..Len(list) \/ i = Len(list) + 1
  BY <1>1
<1>3. \A i \in 1..Len(list) : i \in 1..(Len(list) + 1) /\ i # Len(list) + 1
  BY <1>1
<1>4. Len(list) + 1 \in 1..(Len(list) + 1)
  BY <1>1
<1>5. RangeOf(Append(list, p)) = RangeOf(list) \cup {p}
  BY <1>1, <1>2, <1>3, <1>4 DEF RangeOf
<1>6. ASSUME NoneTwice(list), p \notin RangeOf(list) PROVE NoneTwice(Append(list, p))
  BY <1>1, <1>2, <1>6 DEF NoneTwice, RangeOf
<1> QED
  BY <1>1, <1>5, <1>6

\* What remains of a list: its other elements, none twice if none was.
LEMMA RemainingList ==
    ASSUME NEW list \in Seq(PGNs), NEW gone
    PROVE  /\ Remaining(list, gone) \in Seq(PGNs)
           /\ RangeOf(Remaining(list, gone)) = RangeOf(list) \ gone
           /\ NoneTwice(list) => NoneTwice(Remaining(list, gone))
<1> DEFINE T == Seq(PGNs)
           g == [x \in (1..Len(list)) \X T |->
                    IF list[x[1]] \in gone THEN x[2] ELSE Append(x[2], list[x[1]])]
           Is(f) == f = [n \in 0..Len(list) |->
                    IF n = 0 THEN <<>>
                    ELSE IF list[n] \in gone THEN f[n - 1] ELSE Append(f[n - 1], list[n])]
<1>1. Len(list) \in Nat /\ \A i \in 1..Len(list) : list[i] \in PGNs
  OBVIOUS
<1>2. g \in Steps(Len(list), T) /\ <<>> \in T
  <2>1. ASSUME NEW x \in (1..Len(list)) \X T PROVE g[x] \in T
    BY <1>1, AppendProperties
  <2> QED
    BY <2>1 DEF Steps
<1>3. PICK f \in [0..Len(list) -> T] : f[0] = <<>> /\ \A i \in 1..Len(list) : f[i] = g[<<i, f[i - 1]>>]
  <2>1. Recursion(Len(list), T, <<>>, g) # {}
    <3> HIDE DEF g, T
    <3> QED
      BY <1>1, <1>2, RecursionExists
  <2> QED
    BY <2>1 DEF Recursion
<1>4. \A i \in 1..Len(list) :
        /\ i - 1 \in 0..Len(list) /\ f[i - 1] \in T
        /\ f[i] = IF list[i] \in gone THEN f[i - 1] ELSE Append(f[i - 1], list[i])
  <2> TAKE i \in 1..Len(list)
  <2>1. i - 1 \in 0..Len(list)
    BY <1>1
  <2>2. <<i, f[i - 1]>> \in (1..Len(list)) \X T
    BY <2>1, <1>3
  <2> QED
    BY <2>1, <2>2, <1>3
<1>5. Is(f)
  <2> DEFINE h == [n \in 0..Len(list) |->
                    IF n = 0 THEN <<>>
                    ELSE IF list[n] \in gone THEN f[n - 1] ELSE Append(f[n - 1], list[n])]
  <2>1. ASSUME NEW n \in 0..Len(list) PROVE f[n] = h[n]
    <3>1. CASE n = 0
      BY <3>1, <1>3
    <3>2. CASE n # 0
      <4>1. n \in 1..Len(list)
        BY <3>2, <1>1
      <4> QED
        BY <3>2, <4>1, <1>4
    <3> QED
      BY <3>1, <3>2
  <2>2. f = [n \in 0..Len(list) |-> f[n]]
    BY <1>3
  <2>3. h = [n \in 0..Len(list) |-> h[n]]
    OBVIOUS
  <2>4. f = h
    <3> HIDE DEF h
    <3> QED
      BY <2>1, <2>2, <2>3
  <2> QED
    BY <2>4
<1>6. Is(CHOOSE h : Is(h))
  <2> HIDE DEF Is
  <2> QED
    BY <1>5
<1> DEFINE F == CHOOSE h : Is(h)
<1>7. /\ Remaining(list, gone) = F[Len(list)]
      /\ F[0] = <<>>
      /\ \A i \in 1..Len(list) :
           F[i] = IF list[i] \in gone THEN F[i - 1] ELSE Append(F[i - 1], list[i])
  <2>1. Remaining(list, gone) = F[Len(list)]
    BY DEF Remaining
  <2>2. 0 \in 0..Len(list) /\ \A n \in 1..Len(list) : n \in 0..Len(list) /\ n # 0
    BY <1>1
  <2> HIDE DEF F
  <2>3. Is(F)
    BY <1>6 DEF F
  <2> QED
    BY <2>1, <2>2, <2>3
<1> HIDE DEF F
<1> DEFINE Good(n) == /\ F[n] \in T
                      /\ RangeOf(F[n]) = {list[i] : i \in 1..n} \ gone
                      /\ NoneTwice(list) => NoneTwice(F[n])
           Bad == {n \in 0..Len(list) : ~Good(n)}
<1>8. Bad = {}
  <2> SUFFICES ASSUME Bad # {} PROVE FALSE
    OBVIOUS
  <2>1. PICK n \in Bad : \A m \in Bad : n <= m
    <3>1. Bad \in SUBSET Nat
      OBVIOUS
    <3> HIDE DEF Bad
    <3> QED
      BY <3>1, LeastElement
  <2>2. CASE n = 0
    <3>1. F[0] \in T /\ RangeOf(F[0]) = {} /\ NoneTwice(F[0])
      BY <1>7 DEF RangeOf, NoneTwice
    <3> QED
      BY <2>1, <2>2, <3>1
  <2>3. CASE n # 0
    <3>1. n \in 1..Len(list) /\ n - 1 \in 0..Len(list) /\ ~(n <= n - 1)
      BY <1>1, <2>1, <2>3
    <3>2. Good(n - 1)
      BY <2>1, <3>1
    <3>3. {list[i] : i \in 1..n} = {list[i] : i \in 1..(n - 1)} \cup {list[n]}
      BY <3>1, <1>1
    <3>4. CASE list[n] \in gone
      BY <2>1, <3>1, <3>2, <3>3, <3>4, <1>7
    <3>5. CASE list[n] \notin gone
      <4>1. F[n] = Append(F[n - 1], list[n]) /\ F[n - 1] \in T /\ list[n] \in PGNs
        BY <3>1, <3>2, <3>5, <1>1, <1>7
      <4>2. /\ F[n] \in T /\ RangeOf(F[n]) = RangeOf(F[n - 1]) \cup {list[n]}
            /\ NoneTwice(F[n - 1]) /\ list[n] \notin RangeOf(F[n - 1]) => NoneTwice(F[n])
        BY <4>1, AppendedList
      <4>3. NoneTwice(list) => list[n] \notin RangeOf(F[n - 1])
        <5> SUFFICES ASSUME NoneTwice(list), list[n] \in RangeOf(F[n - 1]) PROVE FALSE
          OBVIOUS
        <5>1. PICK i \in 1..(n - 1) : list[i] = list[n]
          BY <3>2
        <5>2. i \in 1..Len(list) /\ i # n
          BY <3>1, <1>1
        <5> QED
          BY <3>1, <5>1, <5>2 DEF NoneTwice
      <4> QED
        BY <2>1, <3>2, <3>3, <3>5, <4>2, <4>3
    <3> QED
      BY <3>4, <3>5
  <2> QED
    BY <2>2, <2>3
<1>9. Good(Len(list))
  <2>1. Len(list) \in 0..Len(list)
    BY <1>1
  <2> HIDE DEF Good
  <2> QED
    BY <2>1, <1>8
<1> QED
  BY <1>7, <1>9 DEF RangeOf

\* A pair of dictionaries that match: each source's list has, once each, the PGNs
\* of its sessions.
Matching(st) ==
    /\ DOMAIN st.sessions \subseteq Key
    /\ st.index \in [Sources -> Seq(PGNs)]
    /\ \A s \in Sources :
         /\ NoneTwice(st.index[s])
         /\ \A p \in PGNs : p \in RangeOf(st.index[s]) <=> <<s, p>> \in DOMAIN st.sessions

LEMMA RemovalMatches ==
    ASSUME NEW st, Matching(st), NEW K
    PROVE  Matching(RemoveSessions(st, K))
<1> DEFINE r == RemoveSessions(st, K)
           Gone(s) == {p \in PGNs : <<s, p>> \in K}
<1>1. /\ DOMAIN r.sessions = DOMAIN st.sessions \ K
      /\ r.index = [s \in Sources |-> Remaining(st.index[s], Gone(s))]
  BY DEF RemoveSessions
<1> HIDE DEF r
<1>2. ASSUME NEW s \in Sources
      PROVE  /\ r.index[s] \in Seq(PGNs) /\ NoneTwice(r.index[s])
             /\ \A p \in PGNs : p \in RangeOf(r.index[s]) <=> <<s, p>> \in DOMAIN r.sessions
  <2>1. /\ st.index[s] \in Seq(PGNs) /\ NoneTwice(st.index[s])
        /\ \A p \in PGNs : p \in RangeOf(st.index[s]) <=> <<s, p>> \in DOMAIN st.sessions
    BY DEF Matching
  <2>2. r.index[s] = Remaining(st.index[s], Gone(s))
    BY <1>1
  <2>3. /\ r.index[s] \in Seq(PGNs) /\ NoneTwice(r.index[s])
        /\ RangeOf(r.index[s]) = RangeOf(st.index[s]) \ Gone(s)
    BY <2>1, <2>2, RemainingList
  <2> QED
    BY <1>1, <2>1, <2>3
<1>3. r.index \in [Sources -> Seq(PGNs)]
  BY <1>1, <1>2
<1>4. DOMAIN r.sessions \subseteq Key
  BY <1>1 DEF Matching
<1> QED
  BY <1>2, <1>3, <1>4 DEF Matching, r

LEMMA StoringMatches ==
    ASSUME NEW st, Matching(st), NEW s \in Sources, NEW p \in PGNs, NEW size, NEW n
    PROVE  Matching(StoreSession(st, s, p, size, n))
<1> DEFINE r == StoreSession(st, s, p, size, n)
<1>1. /\ DOMAIN r.sessions = DOMAIN st.sessions \cup {<<s, p>>}
      /\ r.index = [st.index EXCEPT ![s] = Listed(st.index[s], p)]
  BY DEF StoreSession
<1> HIDE DEF r
<1>2. /\ st.index \in [Sources -> Seq(PGNs)] /\ st.index[s] \in Seq(PGNs) /\ NoneTwice(st.index[s])
  BY DEF Matching
<1>3. /\ Listed(st.index[s], p) \in Seq(PGNs) /\ NoneTwice(Listed(st.index[s], p))
      /\ RangeOf(Listed(st.index[s], p)) = RangeOf(st.index[s]) \cup {p}
  <2>1. CASE p \in RangeOf(st.index[s])
    BY <1>2, <2>1 DEF Listed, RangeOf
  <2>2. CASE p \notin RangeOf(st.index[s])
    <3>1. Listed(st.index[s], p) = Append(st.index[s], p)
      BY <2>2 DEF Listed, RangeOf
    <3> QED
      BY <1>2, <2>2, <3>1, AppendedList
  <2> QED
    BY <2>1, <2>2
<1>4. r.index \in [Sources -> Seq(PGNs)]
  BY <1>1, <1>2, <1>3
<1>5. ASSUME NEW x \in Sources
      PROVE  /\ NoneTwice(r.index[x])
             /\ \A q \in PGNs : q \in RangeOf(r.index[x]) <=> <<x, q>> \in DOMAIN r.sessions
  <2>1. CASE x = s
    BY <2>1, <1>1, <1>2, <1>3 DEF Matching
  <2>2. CASE x # s
    BY <2>2, <1>1, <1>2 DEF Matching
  <2> QED
    BY <2>1, <2>2
<1>6. DOMAIN r.sessions \subseteq Key
  BY <1>1 DEF Matching, Key
<1> QED
  BY <1>4, <1>5, <1>6 DEF Matching, r

LEMMA PacketMatches ==
    ASSUME NEW st, Matching(st), st = [sessions |-> st.sessions, index |-> st.index],
           NEW k, NEW i, NEW payload
    PROVE  Matching(StorePacket(st, k, i, payload))
<1> DEFINE r == StorePacket(st, k, i, payload)
<1>1. DOMAIN r.sessions = DOMAIN st.sessions
  BY StorePacketDomain
<1>2. r.index = st.index
  BY DEF StorePacket
<1> HIDE DEF r
<1> QED
  BY <1>1, <1>2 DEF Matching, r

LEMMA AfterCleanupMatches ==
    ASSUME Matching(State)
    PROVE  Matching(AfterCleanup)
BY RemovalMatches DEF AfterCleanup

LEMMA BecomesMatching ==
    ASSUME NEW st, Matching(st), Become(st)
    PROVE  Matching(State)'
BY DEF Matching, Become, State

\* A frame leaves the dictionaries matching.
LEMMA DataMatches ==
    ASSUME Matching(State), NEW s, NEW i, NEW payload, HandleData(s, i, payload)
    PROVE  Matching(State)'
<1>1. CASE Become(AfterCleanup)
  BY <1>1, AfterCleanupMatches, BecomesMatching
<1>2. ASSUME NEW k, Become(StorePacket(AfterCleanup, k, i, payload)) PROVE Matching(State)'
  BY <1>2, AfterCleanupMatches, AfterCleanupRecord, PacketMatches, BecomesMatching
<1>3. ASSUME NEW k, Become(RemoveSessions(StorePacket(AfterCleanup, k, i, payload), {k}))
      PROVE  Matching(State)'
  BY <1>3, AfterCleanupMatches, AfterCleanupRecord, PacketMatches, RemovalMatches, BecomesMatching
<1> QED
  BY <1>1, <1>2, <1>3 DEF HandleData

LEMMA MatchingStep == Matching(State) /\ [Next]_vars => Matching(State)'
<1> SUFFICES ASSUME Matching(State), [Next]_vars PROVE Matching(State)'
  OBVIOUS
<1>0. ASSUME UNCHANGED <<sessions, source_to_sessions>> PROVE Matching(State)'
  BY <1>0 DEF Matching, State
<1>1. ASSUME NEW s \in Sources, NEW p \in PGNs, NEW g \in Gens, NEW h \in Headers,
             Announce(s, p, g, h[1], h[2])
      PROVE  Matching(State)'
  <2>1. CASE Unheard
    BY <1>0, <2>1 DEF Unheard
  <2>2. CASE HandleControl(s, p, h[1], h[2])
    <3>1. PICK K : Become(StoreSession(RemoveSessions(AfterCleanup, K), s, p, h[1], h[2]))
      BY <2>2 DEF HandleControl
    <3> QED
      BY <3>1, AfterCleanupMatches, RemovalMatches, StoringMatches, BecomesMatching
  <2> QED
    BY <1>1, <2>1, <2>2 DEF Announce
<1>2. ASSUME NEW s \in Sources, SendPacket(s) \/ RepeatPacket(s) PROVE Matching(State)'
  <2>1. CASE Unheard
    BY <1>0, <2>1 DEF Unheard
  <2>2. CASE \E i, payload : HandleData(s, i, payload)
    BY <2>2, DataMatches
  <2> QED
    BY <1>2, <2>1, <2>2 DEF SendPacket, RepeatPacket
<1>3. CASE OtherFrame
  BY <1>3, AfterCleanupMatches, BecomesMatching DEF OtherFrame, HandleOther
<1>4. CASE Tick
  BY <1>0, <1>4 DEF Tick
<1>5. CASE UNCHANGED vars
  BY <1>0, <1>5 DEF vars
<1> QED
  BY <1>1, <1>2, <1>3, <1>4, <1>5 DEF Next

LEMMA MatchingInit == Init => Matching(State)
<1> SUFFICES ASSUME Init PROVE Matching(State)
  OBVIOUS
<1>1. State.sessions = [k \in {} |-> 0] /\ State.index = [s \in Sources |-> <<>>]
  BY DEF Init, State
<1>2. <<>> \in Seq(PGNs) /\ NoneTwice(<<>>) /\ RangeOf(<<>>) = {}
  BY DEF NoneTwice, RangeOf
<1> QED
  BY <1>1, <1>2 DEF Matching

\* Whatever frames arrive, get lost or are repeated, and whichever sessions are
\* replaced, evicted, cleaned up or completed: each source's list names its
\* sessions, each once.
THEOREM IndexAlwaysMatches == Spec => []IndexMatchesSessions
<1>1. Matching(State) => IndexMatchesSessions
  <2> SUFFICES ASSUME Matching(State), NEW s \in Sources
               PROVE  /\ {<<s, source_to_sessions[s][i]>> : i \in 1..Len(source_to_sessions[s])}
                           = {k \in DOMAIN sessions : k[1] = s}
                      /\ NoneTwice(source_to_sessions[s])
    BY DEF IndexMatchesSessions, NoneTwice
  <2> DEFINE list == source_to_sessions[s]
  <2>1. /\ list \in Seq(PGNs) /\ NoneTwice(list) /\ DOMAIN sessions \subseteq Sources \X PGNs
        /\ \A p \in PGNs : p \in RangeOf(list) <=> <<s, p>> \in DOMAIN sessions
    BY DEF Matching, State, Key
  <2>2. \A i \in 1..Len(list) : list[i] \in PGNs
    BY <2>1
  <2> HIDE DEF list
  <2>3. ASSUME NEW k \in DOMAIN sessions, k[1] = s PROVE \E i \in 1..Len(list) : k = <<s, list[i]>>
    <3>1. k = <<s, k[2]>> /\ k[2] \in PGNs
      BY <2>1, <2>3
    <3>2. k[2] \in RangeOf(list)
      BY <2>1, <2>3, <3>1
    <3> QED
      BY <3>1, <3>2 DEF RangeOf
  <2>4. \A i \in 1..Len(list) : <<s, list[i]>> \in DOMAIN sessions
    BY <2>1, <2>2 DEF RangeOf
  <2> QED
    BY <2>1, <2>3, <2>4 DEF list
<1> QED
  BY <1>1, MatchingInit, MatchingStep, PTL DEF Spec

-----------------------------------------------------------------------------
(* On a bus that loses and repeats nothing, what is handed on was sent.    *)

\* The session holds what the transfer t has sent so far.
Carries(ses, t) ==
    /\ ses.total_packets = t.total /\ ses.total_size = t.total
    /\ DOMAIN ses.received_packets = 1..(t.next - 1)
    /\ \A i \in 1..(t.next - 1) : ses.received_packets[i].pgn = t.pgn
                               /\ ses.received_packets[i].gen = t.gen

\* The only session of a source, if it has one, is that of its transfer.
TransferOf(s) ==
    /\ sending[s] # Idle =>
         /\ sending[s] \in [pgn : PGNs, gen : Gens, total : Nat, next : Nat \ {0}]
         /\ sending[s].next <= sending[s].total
    /\ \A p \in PGNs : <<s, p>> \in DOMAIN sessions =>
         /\ sending[s] # Idle /\ p = sending[s].pgn
         /\ Carries(sessions[<<s, p>>], sending[s])

LosslessInv ==
    /\ ReassemblyInv /\ Matching(State)
    /\ \A s \in Sources : TransferOf(s)
    /\ DeliversOneTransfer

\* The sessions of a source that a step leaves alone or removes.
LEMMA TransferUndisturbed ==
    ASSUME NEW s, TransferOf(s), sending'[s] = sending[s],
           \A p \in PGNs : <<s, p>> \in DOMAIN sessions' =>
              <<s, p>> \in DOMAIN sessions /\ sessions'[<<s, p>>] = sessions[<<s, p>>]
    PROVE  TransferOf(s)'
BY DEF TransferOf, Carries

\* A source that has a session has an active one.
LEMMA SessionIsActive ==
    ASSUME NEW st, Matching(st), NEW s \in Sources, NEW p \in PGNs, <<s, p>> \in DOMAIN st.sessions
    PROVE  ActiveKeys(st, s) # {}
<1> DEFINE list == st.index[s]
           Live == {i \in 1..Len(list) : <<s, list[i]>> \in DOMAIN st.sessions}
<1>1. list \in Seq(PGNs) /\ p \in RangeOf(list)
  BY DEF Matching
<1>2. Len(list) \in Nat /\ \A i \in 1..Len(list) : list[i] \in PGNs
  BY <1>1
<1>3. Live \in SUBSET Nat /\ Live # {}
  <2>1. PICK i \in 1..Len(list) : list[i] = p
    BY <1>1 DEF RangeOf
  <2>2. i \in Live
    BY <2>1
  <2>3. Live \in SUBSET Nat
    OBVIOUS
  <2> QED
    BY <2>2, <2>3
<1>4. PICK i \in Live : \A j \in Live : i <= j
  <2> HIDE DEF Live
  <2> QED
    BY <1>3, LeastElement
<1>5. \A j \in 1..(i - 1) : <<s, list[j]>> \notin DOMAIN st.sessions
  <2> TAKE j \in 1..(i - 1)
  <2>1. j \in 1..Len(list) /\ ~(i <= j)
    BY <1>2, <1>4
  <2>2. j \notin Live
    BY <1>4, <2>1
  <2> QED
    BY <2>1, <2>2
<1>6. i \in 1..Len(list) /\ list[i] \in PGNs /\ <<s, list[i]>> \in DOMAIN st.sessions
  BY <1>2, <1>4
<1>7. <<s, list[i]>> \in ActiveKeys(st, s)
  BY <1>5, <1>6 DEF ActiveKeys
<1> QED
  BY <1>7

\* What StorePacket makes of a session.
LEMMA StoredPacket ==
    ASSUME NEW st, st = [sessions |-> st.sessions, index |-> st.index],
           NEW k \in DOMAIN st.sessions, SessionGood(st.sessions[k]), NEW i, NEW payload
    PROVE  /\ StorePacket(st, k, i, payload).sessions[k].total_size = st.sessions[k].total_size
           /\ StorePacket(st, k, i, payload).sessions[k].total_packets
                = st.sessions[k].total_packets
           /\ StorePacket(st, k, i, payload).sessions[k].received_packets =
                [j \in DOMAIN st.sessions[k].received_packets \cup {i} |->
                   IF j = i THEN payload ELSE st.sessions[k].received_packets[j]]
<1> DEFINE ses == st.sessions[k]
           rp == [j \in DOMAIN ses.received_packets \cup {i} |->
                    IF j = i THEN payload ELSE ses.received_packets[j]]
<1>1. StorePacket(st, k, i, payload).sessions[k] = [ses EXCEPT !.received_packets = rp]
  BY DEF StorePacket
<1>2. ses = [total_size |-> ses.total_size, total_packets |-> ses.total_packets,
             received_packets |-> ses.received_packets, timestamp |-> ses.timestamp]
  BY DEF SessionGood
<1>3. [ses EXCEPT !.received_packets = rp]
        = [total_size |-> ses.total_size, total_packets |-> ses.total_packets,
           received_packets |-> rp, timestamp |-> ses.timestamp]
  <2> HIDE DEF ses, rp
  <2> QED
    BY <1>2
<1>4. /\ StorePacket(st, k, i, payload).sessions[k].total_size = ses.total_size
      /\ StorePacket(st, k, i, payload).sessions[k].total_packets = ses.total_packets
      /\ StorePacket(st, k, i, payload).sessions[k].received_packets = rp
  <2> HIDE DEF ses, rp
  <2> QED
    BY <1>1, <1>3
<1> QED
  BY <1>4

\* A transfer announced by a source that was sending none.
LEMMA AnnouncedTransfer ==
    ASSUME LosslessInv, ~Lossy, NEW s \in Sources, NEW p \in PGNs, NEW g \in Gens, NEW h \in Headers,
           Announce(s, p, g, h[1], h[2])
    PROVE  (\A x \in Sources : TransferOf(x)') /\ out' = None
<1>1. /\ sending[s] = Idle /\ h[2] \in Nat \ {0} /\ h[1] = h[2] /\ out' = None
      /\ sending' = [sending EXCEPT ![s] = [pgn |-> p, gen |-> g, total |-> h[2], next |-> 1]]
  BY BAMAssumption DEF Announce, HandleControl
<1>2. PICK K : Become(StoreSession(RemoveSessions(AfterCleanup, K), s, p, h[1], h[2]))
  BY DEF Announce, HandleControl
<1>3. /\ DOMAIN sessions' = (DOMAIN AfterCleanup.sessions \ K) \cup {<<s, p>>}
      /\ sessions'[<<s, p>>] = [total_size |-> h[1], total_packets |-> h[2],
                                received_packets |-> [i \in {} |-> 0], timestamp |-> now]
      /\ \A k \in DOMAIN AfterCleanup.sessions \ K :
           k # <<s, p>> => sessions'[k] = AfterCleanup.sessions[k]
  BY <1>2 DEF Become, StoreSession, RemoveSessions
<1>4. \A k \in DOMAIN AfterCleanup.sessions :
        k \in DOMAIN sessions /\ AfterCleanup.sessions[k] = sessions[k]
  BY AfterCleanupYoung DEF LosslessInv, ReassemblyInv
<1>5. DOMAIN sending = Sources
  BY DEF LosslessInv, ReassemblyInv, SendersInv
<1>6. ASSUME NEW x \in Sources, x # s PROVE TransferOf(x)'
  <2>1. TransferOf(x) /\ sending'[x] = sending[x]
    BY <1>1, <1>5, <1>6 DEF LosslessInv
  <2>2. \A q \in PGNs : <<x, q>> \in DOMAIN sessions' =>
           <<x, q>> \in DOMAIN sessions /\ sessions'[<<x, q>>] = sessions[<<x, q>>]
    BY <1>3, <1>4, <1>6
  <2> QED
    BY <2>1, <2>2, TransferUndisturbed
<1>7. TransferOf(s)'
  <2>1. \A q \in PGNs : <<s, q>> \notin DOMAIN sessions
    BY <1>1 DEF LosslessInv, TransferOf
  <2>2. \A q \in PGNs : <<s, q>> \in DOMAIN sessions' => q = p
    BY <2>1, <1>3, <1>4
  <2>3. sending'[s] = [pgn |-> p, gen |-> g, total |-> h[2], next |-> 1]
    BY <1>1, <1>5
  <2>4. /\ sending'[s] \in [pgn : PGNs, gen : Gens, total : Nat, next : Nat \ {0}]
        /\ sending'[s].next = 1 /\ sending'[s].total = h[2] /\ sending'[s].pgn = p
        /\ 1 <= h[2] /\ sending'[s] # Idle
    BY <1>1, <2>3 DEF Idle
  <2>5. Carries(sessions'[<<s, p>>], sending'[s])
    BY <1>1, <1>3, <2>4 DEF Carries
  <2> QED
    BY <2>2, <2>4, <2>5 DEF TransferOf
<1> QED
  BY <1>1, <1>6, <1>7

\* A packet handled by the session of its transfer, or by none.
LEMMA SentPacket ==
    ASSUME LosslessInv, ~Lossy, NEW s \in Sources, SendPacket(s)
    PROVE  (\A x \in Sources : TransferOf(x)') /\ DeliversOneTransfer'
<1>1. PICK t : t = sending[s]
  OBVIOUS
<1>2. /\ t \in [pgn : PGNs, gen : Gens, total : Nat, next : Nat \ {0}]
      /\ t.next <= t.total /\ DOMAIN sending = Sources
  BY <1>1 DEF SendPacket, LosslessInv, TransferOf, ReassemblyInv, SendersInv
<1>3. PICK payload : payload = [pgn |-> t.pgn, gen |-> t.gen, seq |-> t.next]
  OBVIOUS
<1>4. /\ HandleData(s, t.next, payload)
      /\ sending' = [sending EXCEPT ![s] =
                       IF t.next = t.total THEN Idle ELSE [t EXCEPT !.next = t.next + 1]]
  BY <1>1, <1>3 DEF SendPacket
<1> DEFINE A == AfterCleanup.sessions
<1>5. \A k \in DOMAIN A : k \in DOMAIN sessions /\ A[k] = sessions[k] /\ SessionGood(A[k])
  BY AfterCleanupYoung, AfterCleanupGood DEF LosslessInv, ReassemblyInv
<1>6. \A p \in PGNs : <<s, p>> \in DOMAIN A => p = t.pgn /\ Carries(A[<<s, p>>], t)
  BY <1>1, <1>5 DEF LosslessInv, TransferOf
<1>7. Matching(AfterCleanup) /\ DOMAIN A \subseteq Key
  <2>1. Matching(AfterCleanup)
    BY AfterCleanupMatches DEF LosslessInv
  <2> QED
    BY <2>1 DEF Matching
\* The sessions of the other sources are left alone.
<1>8. ASSUME \A k \in DOMAIN sessions' : k[1] # s => k \in DOMAIN A /\ sessions'[k] = A[k],
             NEW x \in Sources, x # s
      PROVE  TransferOf(x)'
  <2>1. TransferOf(x) /\ sending'[x] = sending[x]
    BY <1>2, <1>4, <1>8 DEF LosslessInv
  <2>2. \A q \in PGNs : <<x, q>> \in DOMAIN sessions' =>
           <<x, q>> \in DOMAIN sessions /\ sessions'[<<x, q>>] = sessions[<<x, q>>]
    BY <1>5, <1>8
  <2> QED
    BY <2>1, <2>2, TransferUndisturbed
\* What the source sends next.
<1>9. /\ t.next = t.total => sending'[s] = Idle
      /\ t.next # t.total =>
           /\ sending'[s] \in [pgn : PGNs, gen : Gens, total : Nat, next : Nat \ {0}]
           /\ sending'[s] # Idle /\ sending'[s].next <= sending'[s].total
           /\ sending'[s].pgn = t.pgn /\ sending'[s].gen = t.gen
           /\ sending'[s].total = t.total /\ sending'[s].next = t.next + 1
  <2>1. sending'[s] = IF t.next = t.total THEN Idle ELSE [t EXCEPT !.next = t.next + 1]
    BY <1>2, <1>4
  <2>2. t.next \in Nat /\ t.total \in Nat
    BY <1>2
  <2>3. [t EXCEPT !.next = t.next + 1] \in [pgn : PGNs, gen : Gens, total : Nat, next : Nat \ {0}]
    BY <1>2, <2>2
  <2>4. \A r \in [pgn : PGNs, gen : Gens, total : Nat, next : Nat \ {0}] : r # Idle
    <3> TAKE r \in [pgn : PGNs, gen : Gens, total : Nat, next : Nat \ {0}]
    <3>1. "gen" \in DOMAIN r /\ "gen" \notin DOMAIN Idle
      BY DEF Idle
    <3> QED
      BY <3>1
  <2>5. /\ [t EXCEPT !.next = t.next + 1].pgn = t.pgn /\ [t EXCEPT !.next = t.next + 1].gen = t.gen
        /\ [t EXCEPT !.next = t.next + 1].total = t.total
        /\ [t EXCEPT !.next = t.next + 1].next = t.next + 1
    BY <1>2
  <2>6. t.next # t.total => t.next + 1 <= t.total
    BY <1>2, <2>2
  <2> QED
    BY <2>1, <2>3, <2>4, <2>5, <2>6
<1> HIDE DEF A
<1>10. CASE ActiveKeys(AfterCleanup, s) = {}
  <2>1. sessions' = A /\ out' = None
    BY <1>4, <1>10 DEF HandleData, Become, A
  <2>2. \A p \in PGNs : <<s, p>> \notin DOMAIN A
    BY <1>7, <1>10, SessionIsActive DEF A
  <2>3. TransferOf(s)'
    BY <1>9, <2>1, <2>2 DEF TransferOf
  <2> QED
    BY <1>8, <2>1, <2>3 DEF DeliversOneTransfer
<1>11. CASE ActiveKeys(AfterCleanup, s) # {}
  <2>1. PICK k \in ActiveKeys(AfterCleanup, s) :
          \/ t.next < 1 \/ t.next > A[k].total_packets
          \/ LET st == StorePacket(AfterCleanup, k, t.next, payload)
                 ses == st.sessions[k]
             IN IF Full(ses) /\ ses.total_size > 0
                THEN /\ Become(RemoveSessions(st, {k}))
                     /\ out' = [source |-> s, pgn |-> k[2], data |-> Reassemble(ses)]
                ELSE Become(st) /\ out' = None
    BY <1>4, <1>11 DEF HandleData, A
  <2>2. k \in DOMAIN A /\ k = <<s, t.pgn>> /\ Carries(A[k], t)
    <3>1. PICK q \in PGNs : k = <<s, q>> /\ <<s, q>> \in DOMAIN AfterCleanup.sessions
      BY ONLY k \in ActiveKeys(AfterCleanup, s) DEF ActiveKeys
    <3> QED
      BY <3>1, <1>6 DEF A
  <2> DEFINE st == StorePacket(AfterCleanup, k, t.next, payload)
             ses == st.sessions[k]
  <2>3. /\ t.next \in Nat \ {0} /\ t.total \in Nat /\ t.next <= t.total
        /\ A[k].total_packets = t.total /\ A[k].total_size = t.total
        /\ DOMAIN A[k].received_packets = 1..(t.next - 1)
    BY <1>2, <2>2 DEF Carries
  <2>4. /\ DOMAIN st.sessions = DOMAIN A /\ SessionGood(ses)
        /\ ses.total_packets = t.total /\ ses.total_size = t.total
        /\ ses.received_packets = [j \in DOMAIN A[k].received_packets \cup {t.next} |->
                                     IF j = t.next THEN payload ELSE A[k].received_packets[j]]
        /\ \A j \in DOMAIN A \ {k} : st.sessions[j] = A[j]
    <3>1. t.next \in 1..A[k].total_packets /\ payload.seq = t.next /\ SessionGood(A[k])
      BY <1>3, <1>5, <2>2, <2>3
    <3>2. DOMAIN st.sessions = DOMAIN A
      BY AfterCleanupRecord, StorePacketDomain DEF A
    <3>3. SessionGood(ses) /\ \A j \in DOMAIN A \ {k} : st.sessions[j] = A[j]
      BY <2>2, <3>1, AfterCleanupRecord, StorePacketGood DEF A
    <3>4. /\ ses.total_size = A[k].total_size /\ ses.total_packets = A[k].total_packets
          /\ ses.received_packets = [j \in DOMAIN A[k].received_packets \cup {t.next} |->
                                       IF j = t.next THEN payload ELSE A[k].received_packets[j]]
      <4> HIDE DEF st, ses
      <4>1. k \in DOMAIN AfterCleanup.sessions /\ SessionGood(AfterCleanup.sessions[k])
        BY <2>2, <3>1 DEF A
      <4>2. /\ StorePacket(AfterCleanup, k, t.next, payload).sessions[k].total_size
                 = AfterCleanup.sessions[k].total_size
            /\ StorePacket(AfterCleanup, k, t.next, payload).sessions[k].total_packets
                 = AfterCleanup.sessions[k].total_packets
            /\ StorePacket(AfterCleanup, k, t.next, payload).sessions[k].received_packets =
                 [j \in DOMAIN AfterCleanup.sessions[k].received_packets \cup {t.next} |->
                    IF j = t.next THEN payload
                    ELSE AfterCleanup.sessions[k].received_packets[j]]
        BY <4>1, AfterCleanupRecord, StoredPacket
      <4> QED
        BY <4>2 DEF A, st, ses
    <3> QED
      BY <2>3, <3>2, <3>3, <3>4
  <2> HIDE DEF st, ses
  <2>5. /\ DOMAIN ses.received_packets = 1..t.next
        /\ \A j \in 1..t.next : ses.received_packets[j].pgn = t.pgn
                             /\ ses.received_packets[j].gen = t.gen
    <3>1. 1..(t.next - 1) \cup {t.next} = 1..t.next
      BY <2>3
    <3>2. DOMAIN ses.received_packets = 1..t.next
      BY <2>3, <2>4, <3>1
    <3>3. ASSUME NEW j \in 1..t.next
          PROVE  ses.received_packets[j].pgn = t.pgn /\ ses.received_packets[j].gen = t.gen
      <4>1. CASE j = t.next
        BY <4>1, <1>3, <2>4, <3>2
      <4>2. CASE j # t.next
        <5>1. j \in 1..(t.next - 1)
          BY <2>3, <4>2
        <5>2. ses.received_packets[j] = A[k].received_packets[j]
          BY <2>4, <3>2, <4>2
        <5> QED
          BY <2>2, <5>1, <5>2 DEF Carries
      <4> QED
        BY <4>1, <4>2
    <3> QED
      BY <3>2, <3>3
  <2>6. Full(ses) /\ ses.total_size > 0 <=> t.next = t.total
    <3>1. Cardinality(1..t.next) = t.next
      BY <2>3, FS_Interval
    <3>2. Cardinality(DOMAIN ses.received_packets) = t.next
      BY <2>5, <3>1
    <3>3. Full(ses) <=> t.next >= t.total
      BY <2>4, <3>2 DEF Full
    <3> QED
      BY <2>3, <2>4, <3>3
  <2>7. IF t.next = t.total
        THEN /\ Become(RemoveSessions(st, {k}))
             /\ out' = [source |-> s, pgn |-> k[2], data |-> Reassemble(ses)]
        ELSE Become(st) /\ out' = None
    <3>1. ~(t.next < 1 \/ t.next > A[k].total_packets)
      BY <2>3
    <3> QED
      BY <2>1, <2>6, <3>1 DEF st, ses
  <2>8. CASE t.next = t.total
    <3>1. /\ DOMAIN sessions' = DOMAIN A \ {k}
          /\ \A j \in DOMAIN sessions' : sessions'[j] = A[j]
      BY <2>4, <2>7, <2>8 DEF Become, RemoveSessions
    <3>2. TransferOf(s)'
      BY <1>6, <1>9, <2>2, <2>8, <3>1 DEF TransferOf
    <3>3. /\ out'.pgn = t.pgn /\ out'.data = Reassemble(ses)
          /\ Len(Reassemble(ses)) > 0
          /\ \A j \in 1..Len(Reassemble(ses)) : Reassemble(ses)[j].pgn = t.pgn
                                             /\ Reassemble(ses)[j].gen = t.gen
      <4>1. Full(ses) /\ ses.total_size > 0 /\ ses.total_packets > 0
        BY <2>3, <2>4, <2>6, <2>8
      <4>2. \A j \in 1..Len(Reassemble(ses)) :
              j \in 1..t.next /\ Reassemble(ses)[j] = ses.received_packets[j]
        BY <2>4, <2>5, <4>1, ReassembledFrom
      <4>3. Len(Reassemble(ses)) > 0
        BY <2>4, <4>1, ReassembledFrom
      <4>4. out'.pgn = t.pgn /\ out'.data = Reassemble(ses)
        BY <2>2, <2>7, <2>8
      <4> QED
        BY <2>5, <4>2, <4>3, <4>4
    <3>4. DeliversOneTransfer'
      <4>1. Len(Reassemble(ses)) \in Nat
        <5>1. \A i \in 1..ses.total_packets : ses.received_packets[i] \in {ses.received_packets[j] : j \in 1..t.next}
          BY <2>4, <2>8
        <5> QED
          OBVIOUS
      <4> QED
        BY <3>3, <4>1 DEF DeliversOneTransfer
    <3> QED
      BY <1>8, <3>1, <3>2, <3>4
  <2>9. CASE t.next # t.total
    <3>1. sessions' = st.sessions /\ out' = None
      BY <2>7, <2>9 DEF Become
    <3>2. \A j \in DOMAIN sessions' : j[1] # s => j \in DOMAIN A /\ sessions'[j] = A[j]
      BY <2>2, <2>4, <3>1
    <3>3. Carries(ses, sending'[s])
      <4>1. (t.next + 1) - 1 = t.next
        BY <2>3
      <4> QED
        BY <1>9, <2>4, <2>5, <2>9, <4>1 DEF Carries
    <3>4. \A p \in PGNs : <<s, p>> \in DOMAIN sessions' => p = t.pgn /\ sessions'[<<s, p>>] = ses
      BY <1>6, <2>2, <2>4, <3>1 DEF ses
    <3>5. TransferOf(s)'
      BY <1>9, <2>9, <3>3, <3>4 DEF TransferOf
    <3> QED
      BY <1>8, <3>1, <3>2, <3>5 DEF DeliversOneTransfer
  <2> QED
    BY <2>8, <2>9
<1> QED
  BY <1>10, <1>11

LEMMA LosslessStep ==
    ASSUME ~Lossy
    PROVE  LosslessInv /\ [Next]_vars => LosslessInv'
<1> SUFFICES ASSUME LosslessInv, [Next]_vars PROVE LosslessInv'
  OBVIOUS
<1>1. ReassemblyInv' /\ Matching(State)'
  BY ReassemblyStep, MatchingStep DEF LosslessInv
<1>2. ASSUME sending' = sending, out' = None \/ out' = out,
             \A k \in DOMAIN sessions' : k \in DOMAIN sessions /\ sessions'[k] = sessions[k]
      PROVE  LosslessInv'
  <2>1. \A x \in Sources : TransferOf(x)'
    BY <1>2, TransferUndisturbed DEF LosslessInv
  <2>2. DeliversOneTransfer'
    BY <1>2 DEF LosslessInv, DeliversOneTransfer
  <2> QED
    BY <1>1, <2>1, <2>2 DEF LosslessInv
<1>3. ASSUME NEW s \in Sources, NEW p \in PGNs, NEW g \in Gens, NEW h \in Headers,
             Announce(s, p, g, h[1], h[2])
      PROVE  LosslessInv'
  <2>1. (\A x \in Sources : TransferOf(x)') /\ out' = None
    BY <1>3, AnnouncedTransfer
  <2> QED
    BY <1>1, <2>1 DEF LosslessInv, DeliversOneTransfer
<1>4. ASSUME NEW s \in Sources, SendPacket(s) PROVE LosslessInv'
  BY <1>1, <1>4, SentPacket DEF LosslessInv
<1>5. ASSUME NEW s \in Sources, RepeatPacket(s) PROVE LosslessInv'
  BY <1>5 DEF RepeatPacket
<1>6. CASE OtherFrame
  <2>1. sending' = sending /\ out' = None /\ sessions' = AfterCleanup.sessions
    BY <1>6 DEF OtherFrame, HandleOther, Become
  <2>2. \A k \in DOMAIN AfterCleanup.sessions :
          k \in DOMAIN sessions /\ AfterCleanup.sessions[k] = sessions[k]
    BY AfterCleanupYoung DEF LosslessInv, ReassemblyInv
  <2> QED
    BY <1>2, <2>1, <2>2
<1>7. CASE Tick
  BY <1>2, <1>7 DEF Tick
<1>8. CASE UNCHANGED vars
  BY <1>2, <1>8 DEF vars
<1> QED
  BY <1>3, <1>4, <1>5, <1>6, <1>7, <1>8 DEF Next

\* On a bus that loses and repeats nothing, however the transfers of the sources
\* interleave, are evicted or time out, a message that is handed on is of one
\* transfer, and of the PGN it was announced under.
THEOREM OneTransferDelivered == ~Lossy => (Spec => []DeliversOneTransfer)
<1> SUFFICES ASSUME ~Lossy PROVE Spec => []DeliversOneTransfer
  OBVIOUS
<1>1. Init => LosslessInv
  <2> SUFFICES ASSUME Init PROVE LosslessInv
    OBVIOUS
  <2>1. ReassemblyInv /\ Matching(State)
    BY ReassemblyInit, MatchingInit
  <2>2. \A s \in Sources : TransferOf(s)
    BY DEF Init, TransferOf
  <2>3. DeliversOneTransfer
    BY DEF Init, DeliversOneTransfer
  <2> QED
    BY <2>1, <2>2, <2>3 DEF LosslessInv
<1>2. LosslessInv /\ [Next]_vars => LosslessInv'
  BY LosslessStep
<1>3. LosslessInv => DeliversOneTransfer
  BY DEF LosslessInv
<1> QED
  BY <1>1, <1>2, <1>3, PTL DEF Spec

=============================================================================
