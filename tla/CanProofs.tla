----------------------------- MODULE CanProofs ------------------------------
(***************************************************************************)
(* Proofs about the services on the receiving side of the CAN buses: the   *)
(* facade and the bus service, the recorder and the deduplicator, for every *)
(* set of interfaces, of services, of overlapping calls, and every window and *)
(* size of the cache.                                                      *)
(***************************************************************************)
EXTENDS CANFacade, CANBusRecorder, MessageDeduplicator, SequenceLemmas

-----------------------------------------------------------------------------
(* The stops of the facade and of the bus service.                         *)

Among(t, q) == \E k \in 1..Len(q) : q[k] = t

\* The listeners come before the engine.
ListenersFirst(q) ==
    /\ q \in Seq(Tasks)
    /\ \A k \in 1..Len(q) : q[k] = "engine" => \A j \in k..Len(q) : q[j] \notin Interfaces

\* What has not ended is still on the list q, and so is what still has a notifier.
Covers(q) ==
    /\ \A t \in Tasks : task[t] = "ended" \/ Among(t, q)
    /\ \A i \in notifier : Among(i, q)

CallInv(c) ==
    /\ stop[c].bus \in {"none", "due", "cancelling", "done"}
    /\ stop[c].bus = "cancelling" =>
         ListenersFirst(stop[c].left) /\ Covers(stop[c].left) /\ stop[c].left # <<>>
    /\ stop[c].bus = "done" => Covers(<<>>)
    /\ stop[c].pc \in {"idle", "gathering", "returned"}
    /\ stop[c].pc = "returned" => stop[c].bus = "done" /\ stop[c].tools = {}
    /\ c \in FacadeStops /\ stop[c].pc # "idle" =>
         \A s \in Tools : s \in stop[c].tools \/ tool[s] # "running"

\* A list that has been emptied has no listener left behind.
StopInv ==
    /\ stop \in [Calls -> [pc : {"idle", "gathering", "returned"},
                           bus : {"none", "due", "cancelling", "done"},
                           left : Seq(Tasks), tools : SUBSET Tools]]
    /\ task \in [Tasks -> {"waiting", "handling", "cancelled", "ended"}]
    /\ tool \in [Tools -> {"running", "stopped", "raised"}]
    /\ notifier \subseteq Interfaces
    /\ listed \in Seq(Interfaces)
    /\ Covers(ToCancel)
    /\ \A c \in Calls : CallInv(c)

\* After the facade's stop the status can only be worse than safe.
StatusInv ==
    facadeHalted =>
        /\ facadeStatus \in {"emergency_stop", "unsafe", "degraded"}
        /\ facadeStatus = "degraded" => monitored /\ ~busRunning

-----------------------------------------------------------------------------
(* Lists of tasks to cancel.                                               *)

LEMMA TaskSet ==
    /\ Interfaces \subseteq Tasks /\ "engine" \in Tasks /\ "detector" \in Tasks
    /\ "engine" \notin Interfaces /\ "detector" \notin Interfaces
BY CANFacadeAssumption DEF Tasks

\* Whatever is on a list is its head or on its tail.
LEMMA AmongTail ==
    ASSUME NEW q \in Seq(Tasks), q # <<>>, NEW t, Among(t, q)
    PROVE  t = Head(q) \/ Among(t, Tail(q))
<1>1. PICK k \in 1..Len(q) : q[k] = t
  BY DEF Among
<1>2. CASE k = 1
  BY <1>1, <1>2
<1>3. CASE k # 1
  <2>1. k - 1 \in 1..Len(Tail(q)) /\ Tail(q)[k - 1] = q[k]
    BY <1>1, <1>3
  <2> QED
    BY <1>1, <2>1 DEF Among
<1> QED
  BY <1>2, <1>3

\* The rest of a list is ordered like the list.
LEMMA TailOrdered ==
    ASSUME NEW q, ListenersFirst(q), q # <<>>
    PROVE  ListenersFirst(Tail(q)) /\ Tail(q) \in Seq(Tasks) /\ Head(q) \in Tasks
<1>1. q \in Seq(Tasks) /\ Tail(q) \in Seq(Tasks) /\ Head(q) \in Tasks
  BY DEF ListenersFirst
<1>2. ASSUME NEW k \in 1..Len(Tail(q)), Tail(q)[k] = "engine", NEW j \in k..Len(Tail(q))
      PROVE  Tail(q)[j] \notin Interfaces
  <2>1. /\ k + 1 \in 1..Len(q) /\ q[k + 1] = "engine"
        /\ j + 1 \in (k + 1)..Len(q) /\ Tail(q)[j] = q[j + 1]
    BY <1>1, <1>2
  <2> QED
    BY <2>1 DEF ListenersFirst
<1> QED
  BY <1>1, <1>2 DEF ListenersFirst

\* A list that starts with the engine has no listener.
LEMMA NoListenerAfterEngine ==
    ASSUME NEW q, ListenersFirst(q), q # <<>>, Head(q) = "engine", NEW i \in Interfaces
    PROVE  ~Among(i, q)
<1>1. 1 \in 1..Len(q) /\ q[1] = "engine"
  BY DEF ListenersFirst
<1> QED
  BY <1>1 DEF ListenersFirst, Among

\* What a stop begins with has the listeners it finds, in order, then the others.
LEMMA WholeListOrdered ==
    ASSUME listed \in Seq(Interfaces)
    PROVE  /\ ListenersFirst(ToCancel) /\ ToCancel # <<>>
           /\ Among("engine", ToCancel) /\ Among("detector", ToCancel)
           /\ \A i : Among(i, listed) => Among(i, ToCancel)
<1> DEFINE n == Len(listed)
<1>1. /\ ToCancel \in Seq(Tasks) /\ Len(ToCancel) = n + 2 /\ n \in Nat
      /\ \A k \in 1..n : ToCancel[k] = listed[k] /\ listed[k] \in Interfaces
      /\ ToCancel[n + 1] = "engine" /\ ToCancel[n + 2] = "detector"
  BY TaskSet DEF ToCancel
<1>2. ASSUME NEW k \in 1..Len(ToCancel), ToCancel[k] = "engine", NEW j \in k..Len(ToCancel)
      PROVE  ToCancel[j] \notin Interfaces
  <2>1. k \notin 1..n
    BY <1>1, <1>2, TaskSet
  <2>2. j = n + 1 \/ j = n + 2
    BY <1>1, <2>1
  <2> QED
    BY <1>1, <2>2, TaskSet
<1>3. n + 1 \in 1..Len(ToCancel) /\ n + 2 \in 1..Len(ToCancel)
  BY <1>1
<1>4. \A i : Among(i, listed) => Among(i, ToCancel)
  BY <1>1 DEF Among
<1>5. ToCancel # <<>>
  BY <1>1
<1>6. Among("engine", ToCancel) /\ Among("detector", ToCancel)
  BY <1>1, <1>3 DEF Among
<1> QED
  BY <1>1, <1>2, <1>4, <1>5, <1>6 DEF ListenersFirst

LEMMA NothingAmongEmpty == \A t : ~Among(t, <<>>)
BY DEF Among

-----------------------------------------------------------------------------
(* The stops.                                                              *)

\* Tasks that have ended stay so, notifiers do not start again, and services do
\* not run again.
Forward ==
    /\ \A t \in Tasks : task[t] = "ended" => task'[t] = "ended"
    /\ notifier' \subseteq notifier
    /\ \A s \in Tools : tool[s] # "running" => tool'[s] # "running"

\* A list goes on covering what it covers.
LEMMA StaysCovered ==
    ASSUME NEW q, Covers(q), Forward
    PROVE  /\ \A t \in Tasks : task'[t] = "ended" \/ Among(t, q)
           /\ \A i \in notifier' : Among(i, q)
BY DEF Covers, Forward

\* A call that does not move keeps what it knows.
LEMMA Bystander ==
    ASSUME StopInv, Forward, NEW d \in Calls, stop'[d] = stop[d]
    PROVE  CallInv(d)'
<1>1. CallInv(d)
  BY DEF StopInv
<1>2. stop[d].bus = "cancelling" => Covers(stop[d].left)'
  BY <1>1, StaysCovered DEF CallInv, Covers
<1>3. stop[d].bus = "done" => Covers(<<>>)'
  BY <1>1, StaysCovered DEF CallInv, Covers
<1>4. stop[d].bus = "cancelling" => ListenersFirst(stop[d].left)' /\ stop[d].left # <<>>
  BY <1>1 DEF CallInv, ListenersFirst
<1> QED
  BY <1>1, <1>2, <1>3, <1>4 DEF CallInv, Forward

LEMMA InitialStop == CFInit => StopInv
<1> SUFFICES ASSUME CFInit PROVE StopInv
  OBVIOUS
<1>1. Cardinality(Interfaces) \in Nat
  BY CANFacadeAssumption, FS_CardinalityType
<1>2. listed \in Seq(Interfaces) /\ \A i \in Interfaces : Among(i, listed)
  BY <1>1 DEF CFInit, Among
<1>3. Covers(ToCancel)
  BY <1>2, WholeListOrdered DEF Covers, CFInit, Tasks
<1>4. \A c \in Calls : CallInv(c)
  BY DEF CFInit, CallInv
<1> QED
  BY <1>2, <1>3, <1>4 DEF CFInit, StopInv

\* A task goes on or ends by itself.
LEMMA TaskKeeps ==
    ASSUME StopInv, NEW t \in Tasks,
           task' = [task EXCEPT ![t] = task'[t]],
           task'[t] \in {"waiting", "handling", "cancelled", "ended"},
           task[t] # "ended" \/ task'[t] = "ended",
           UNCHANGED <<stop, tool, notifier, listed>>
    PROVE  StopInv'
<1>1. Forward
  BY DEF Forward, StopInv
<1>2. \A c \in Calls : CallInv(c)'
  BY <1>1, Bystander
<1>3. Covers(ToCancel)'
  BY <1>1, StaysCovered DEF StopInv, Covers, ToCancel
<1>4. task' \in [Tasks -> {"waiting", "handling", "cancelled", "ended"}]
  BY DEF StopInv
<1> QED
  BY <1>2, <1>3, <1>4 DEF StopInv

LEMMA BeginBusStopKeeps ==
    ASSUME StopInv, NEW c \in Calls, BeginBusStop(c)
    PROVE  StopInv'
<1>1. listed \in Seq(Interfaces) /\ ListenersFirst(ToCancel) /\ ToCancel # <<>> /\ ToCancel \in Seq(Tasks)
  BY WholeListOrdered DEF StopInv, ListenersFirst
<1>2. Head(ToCancel) \in Tasks
  BY <1>1
<1>3. /\ Forward /\ task' \in [Tasks -> {"waiting", "handling", "cancelled", "ended"}]
      /\ UNCHANGED <<listed, notifier, tool>>
  BY <1>2 DEF BeginBusStop, CancelTask, Forward, StopInv
<1>4. Covers(ToCancel)'
  BY <1>3, StaysCovered DEF StopInv, Covers, ToCancel
<1>5. stop' = [stop EXCEPT ![c].bus = "cancelling", ![c].left = ToCancel] /\ stop[c].bus = "due"
  BY DEF BeginBusStop
<1>6. /\ stop' \in [Calls -> [pc : {"idle", "gathering", "returned"},
                              bus : {"none", "due", "cancelling", "done"},
                              left : Seq(Tasks), tools : SUBSET Tools]]
      /\ stop'[c] = [stop[c] EXCEPT !.bus = "cancelling", !.left = ToCancel]
  <2> DEFINE Places == [pc : {"idle", "gathering", "returned"},
                        bus : {"none", "due", "cancelling", "done"},
                        left : Seq(Tasks), tools : SUBSET Tools]
             r == [stop[c] EXCEPT !.bus = "cancelling", !.left = ToCancel]
  <2>1. stop \in [Calls -> Places] /\ stop[c] \in Places
    BY DEF StopInv
  <2>2. r \in Places
    BY <2>1, <1>1
  <2>3. stop' = [stop EXCEPT ![c] = r]
    BY <1>5
  <2> HIDE DEF Places, r
  <2>4. stop' \in [Calls -> Places] /\ stop'[c] = r
    BY <2>1, <2>2, <2>3
  <2> QED
    BY <2>4 DEF Places, r
<1>7. CallInv(c)'
  <2>1. stop'[c].bus = "cancelling" /\ stop'[c].left = ToCancel /\ stop'[c].pc = stop[c].pc
        /\ stop'[c].tools = stop[c].tools
    BY <1>6 DEF StopInv
  <2>2. ToCancel' = ToCancel
    BY <1>3 DEF ToCancel
  <2>3. CallInv(c)
    BY DEF StopInv
  <2> QED
    BY <1>1, <1>3, <1>4, <1>5, <2>1, <2>2, <2>3 DEF CallInv, Forward, ListenersFirst
<1>8. ASSUME NEW d \in Calls, d # c PROVE CallInv(d)'
  BY <1>3, <1>5, <1>8, Bystander DEF StopInv
<1> QED
  BY <1>3, <1>4, <1>6, <1>7, <1>8 DEF StopInv

LEMMA BeginStopKeeps ==
    ASSUME StopInv, NEW c \in Calls, BeginStop(c)
    PROVE  StopInv'
<1> DEFINE mine == IF c \in FacadeStops THEN Tools ELSE {}
<1>1. /\ stop[c].pc = "idle"
      /\ stop' = [stop EXCEPT ![c].pc = "gathering", ![c].bus = "due", ![c].tools = mine]
      /\ UNCHANGED <<listed, notifier, tool>>
  BY DEF BeginStop
<1>2. Forward /\ task' \in [Tasks -> {"waiting", "handling", "cancelled", "ended"}]
  <2>1. CASE c \in FacadeStops
    BY <1>1, <2>1, TaskSet DEF BeginStop, CancelTask, Forward, StopInv
  <2>2. CASE c \notin FacadeStops
    BY <1>1, <2>2 DEF BeginStop, Forward, StopInv
  <2> QED
    BY <2>1, <2>2
<1>3. Covers(ToCancel)'
  BY <1>1, <1>2, StaysCovered DEF StopInv, Covers, ToCancel
<1>4. /\ stop' \in [Calls -> [pc : {"idle", "gathering", "returned"},
                              bus : {"none", "due", "cancelling", "done"},
                              left : Seq(Tasks), tools : SUBSET Tools]]
      /\ stop'[c].pc = "gathering" /\ stop'[c].bus = "due" /\ stop'[c].tools = mine
  <2> mine \subseteq Tools
    OBVIOUS
  <2> HIDE DEF mine
  <2> QED
    BY <1>1 DEF StopInv
<1>5. CallInv(c)'
  BY <1>4 DEF CallInv
<1>6. ASSUME NEW d \in Calls, d # c PROVE CallInv(d)'
  BY <1>1, <1>2, <1>6, Bystander DEF StopInv
<1> QED
  BY <1>1, <1>2, <1>3, <1>4, <1>5, <1>6 DEF StopInv

LEMMA ToolStopsKeeps ==
    ASSUME StopInv, NEW c \in Calls, NEW s \in Tools, ToolStops(c, s)
    PROVE  StopInv'
<1>1. /\ stop[c].pc = "gathering"
      /\ stop' = [stop EXCEPT ![c].tools = @ \ {s}]
      /\ tool' \in [Tools -> {"running", "stopped", "raised"}]
      /\ tool'[s] # "running" /\ \A u \in Tools : u # s => tool'[u] = tool[u]
      /\ UNCHANGED <<listed, notifier, task>>
  BY DEF ToolStops, StopInv
<1>2. Forward
  BY <1>1 DEF Forward, StopInv
<1>3. Covers(ToCancel)'
  BY <1>1, <1>2, StaysCovered DEF StopInv, Covers, ToCancel
<1>4. /\ stop' \in [Calls -> [pc : {"idle", "gathering", "returned"},
                              bus : {"none", "due", "cancelling", "done"},
                              left : Seq(Tasks), tools : SUBSET Tools]]
      /\ stop'[c].pc = "gathering" /\ stop'[c].bus = stop[c].bus
      /\ stop'[c].left = stop[c].left /\ stop'[c].tools = stop[c].tools \ {s}
  BY <1>1 DEF StopInv
<1>5. CallInv(c)'
  <2>1. CallInv(c)
    BY DEF StopInv
  <2>2. /\ stop'[c].bus = "cancelling" => Covers(stop[c].left)'
        /\ stop'[c].bus = "done" => Covers(<<>>)'
    BY <1>1, <1>4, <2>1 DEF CallInv, Covers
  <2>3. /\ stop'[c].bus = "cancelling" => ListenersFirst(stop[c].left)' /\ stop[c].left # <<>>
        /\ stop'[c].bus \in {"none", "due", "cancelling", "done"}
    BY <1>4, <2>1 DEF CallInv, ListenersFirst
  <2>4. c \in FacadeStops => \A u \in Tools : u \in stop'[c].tools \/ tool'[u] # "running"
    BY <1>1, <1>4, <2>1 DEF CallInv
  <2> QED
    BY <1>4, <2>2, <2>3, <2>4 DEF CallInv
<1>6. ASSUME NEW d \in Calls, d # c PROVE CallInv(d)'
  BY <1>1, <1>2, <1>6, Bystander DEF StopInv
<1> QED
  BY <1>1, <1>3, <1>4, <1>5, <1>6 DEF StopInv

LEMMA ReturnKeeps ==
    ASSUME StopInv, NEW c \in Calls, Return(c)
    PROVE  StopInv'
<1>1. /\ stop[c].pc = "gathering" /\ stop[c].bus = "done" /\ stop[c].tools = {}
      /\ stop' = [stop EXCEPT ![c].pc = "returned"]
      /\ UNCHANGED <<listed, notifier, task, tool>>
  BY DEF Return, Gathered
<1>2. Forward
  BY <1>1 DEF Forward, StopInv
<1>3. Covers(ToCancel)'
  BY <1>1, <1>2, StaysCovered DEF StopInv, Covers, ToCancel
<1>4. /\ stop' \in [Calls -> [pc : {"idle", "gathering", "returned"},
                              bus : {"none", "due", "cancelling", "done"},
                              left : Seq(Tasks), tools : SUBSET Tools]]
      /\ stop'[c].pc = "returned" /\ stop'[c].bus = "done" /\ stop'[c].tools = {}
  BY <1>1 DEF StopInv
<1>5. CallInv(c)'
  <2>1. CallInv(c)
    BY DEF StopInv
  <2>2. Covers(<<>>)'
    BY <1>1, <2>1 DEF CallInv, Covers
  <2>3. c \in FacadeStops => \A u \in Tools : tool'[u] # "running"
    BY <1>1, <2>1 DEF CallInv
  <2> QED
    BY <1>4, <2>2, <2>3 DEF CallInv
<1>6. ASSUME NEW d \in Calls, d # c PROVE CallInv(d)'
  BY <1>1, <1>2, <1>6, Bystander DEF StopInv
<1> QED
  BY <1>1, <1>3, <1>4, <1>5, <1>6 DEF StopInv

\* The task that has ended can leave the list, and after the last listener
\* nothing of the listeners is left.
LEMMA NextTaskKeeps ==
    ASSUME StopInv, NEW c \in Calls, NextTask(c)
    PROVE  StopInv'
<1>0. PICK q : q = stop[c].left
  OBVIOUS
<1> DEFINE t == Head(q)
           rest == Tail(q)
<1>1. /\ stop[c].bus = "cancelling" /\ task[t] = "ended"
      /\ notifier' = notifier \ {t}
      /\ listed' = IF rest # <<>> /\ Head(rest) = "engine" THEN <<>> ELSE listed
      /\ tool' = tool
  BY <1>0 DEF NextTask
<1>2. /\ CallInv(c) /\ ListenersFirst(q) /\ Covers(q) /\ q # <<>>
      /\ ListenersFirst(rest) /\ rest \in Seq(Tasks) /\ q \in Seq(Tasks)
  BY <1>0, <1>1, TailOrdered DEF StopInv, CallInv, ListenersFirst
<1>3. rest # <<>> => Head(rest) \in Tasks
  BY <1>2
<1>4. /\ Forward /\ task' \in [Tasks -> {"waiting", "handling", "cancelled", "ended"}]
  <2>1. CASE rest = <<>>
    BY <1>0, <1>1, <2>1 DEF NextTask, Forward, StopInv
  <2>2. CASE rest # <<>>
    BY <1>0, <1>1, <1>3, <2>2 DEF NextTask, CancelTask, Forward, StopInv
  <2> QED
    BY <2>1, <2>2
<1>5. /\ \A u \in Tasks : task'[u] = "ended" \/ Among(u, rest)
      /\ \A i \in notifier' : Among(i, rest)
  <2>1. ASSUME NEW u \in Tasks, task'[u] # "ended" PROVE Among(u, rest)
    <3>1. task[u] # "ended" /\ u # t
      BY <1>1, <1>4, <2>1 DEF Forward
    <3>2. Among(u, q)
      BY <1>2, <3>1 DEF Covers
    <3> QED
      BY <1>2, <3>1, <3>2, AmongTail
  <2>2. ASSUME NEW i \in notifier' PROVE Among(i, rest)
    <3>1. i # t /\ Among(i, q)
      BY <1>1, <1>2 DEF Covers
    <3> QED
      BY <1>2, <3>1, AmongTail
  <2> QED
    BY <2>1, <2>2
<1>6. Covers(rest)'
  BY <1>5 DEF Covers, Among
<1>7. listed' \in Seq(Interfaces) /\ Covers(ToCancel)'
  <2>1. CASE rest # <<>> /\ Head(rest) = "engine"
    <3>1. listed' = <<>> /\ listed' \in Seq(Interfaces)
      BY <1>1, <2>1
    <3>2. \A i \in Interfaces : ~Among(i, rest)
      BY <1>2, <2>1, NoListenerAfterEngine
    <3>3. notifier' = {} /\ \A i \in Interfaces : task'[i] = "ended"
      BY <1>1, <1>5, <3>2, TaskSet DEF StopInv
    <3>4. Among("engine", ToCancel') /\ Among("detector", ToCancel')
      <4>1. ToCancel' = <<>> \o <<"engine", "detector">>
        BY <3>1 DEF ToCancel
      <4>2. ToCancel' = <<"engine", "detector">>
        BY <4>1
      <4> QED
        BY <4>2 DEF Among
    <3>5. /\ \A u \in Tasks : task'[u] = "ended" \/ Among(u, ToCancel')
          /\ \A i \in notifier' : Among(i, ToCancel')
      BY <3>3, <3>4 DEF Tasks
    <3> QED
      BY <3>1, <3>5 DEF Covers, Among
  <2>2. CASE ~(rest # <<>> /\ Head(rest) = "engine")
    <3>1. listed' = listed
      BY <1>1, <2>2
    <3>2. ToCancel' = ToCancel
      BY <3>1 DEF ToCancel
    <3>3. /\ \A u \in Tasks : task'[u] = "ended" \/ Among(u, ToCancel)
          /\ \A i \in notifier' : Among(i, ToCancel)
      BY <1>4, StaysCovered DEF StopInv
    <3> QED
      BY <3>1, <3>2, <3>3 DEF StopInv, Covers, Among
  <2> QED
    BY <2>1, <2>2
<1>8. /\ stop' \in [Calls -> [pc : {"idle", "gathering", "returned"},
                              bus : {"none", "due", "cancelling", "done"},
                              left : Seq(Tasks), tools : SUBSET Tools]]
      /\ stop'[c].pc = stop[c].pc /\ stop'[c].left = rest /\ stop'[c].tools = stop[c].tools
      /\ stop'[c].bus = IF rest = <<>> THEN "done" ELSE "cancelling"
      /\ \A d \in Calls : d # c => stop'[d] = stop[d]
  <2>1. CASE rest = <<>>
    <3>1. stop' = [stop EXCEPT ![c].bus = "done", ![c].left = rest]
      BY <1>0, <2>1 DEF NextTask
    <3> QED
      BY <1>1, <1>2, <2>1, <3>1 DEF StopInv
  <2>2. CASE rest # <<>>
    <3>1. stop' = [stop EXCEPT ![c].left = rest]
      BY <1>0, <2>2 DEF NextTask
    <3> QED
      BY <1>0, <1>1, <1>2, <2>2, <3>1 DEF StopInv
  <2> QED
    BY <2>1, <2>2
<1>9. CallInv(c)'
  <2>1. rest = <<>> => Covers(<<>>)'
    BY <1>5 DEF Covers, Among
  <2>2. ListenersFirst(rest)' /\ stop[c].pc # "returned" /\ stop[c].pc \in {"idle", "gathering", "returned"}
    BY <1>0, <1>1, <1>2 DEF ListenersFirst, CallInv
  <2>3. stop'[c].bus \in {"none", "due", "cancelling", "done"}
    BY <1>8
  <2>4. c \in FacadeStops /\ stop'[c].pc # "idle" =>
           \A s \in Tools : s \in stop'[c].tools \/ tool'[s] # "running"
    BY <1>1, <1>2, <1>8 DEF CallInv
  <2>5. stop'[c].bus = "cancelling" =>
           ListenersFirst(stop'[c].left) /\ Covers(stop[c].left)' /\ stop'[c].left # <<>>
    BY <1>6, <1>8, <2>2 DEF ListenersFirst, Covers, Among
  <2>6. stop'[c].bus = "done" => Covers(<<>>)'
    BY <1>8, <2>1
  <2>7. stop'[c].pc \in {"idle", "gathering"}
    BY <1>2, <1>8, <2>2 DEF CallInv
  <2> QED
    BY <2>3, <2>4, <2>5, <2>6, <2>7 DEF CallInv, ListenersFirst
<1>10. ASSUME NEW d \in Calls, d # c PROVE CallInv(d)'
  BY <1>4, <1>8, <1>10, Bystander
<1> QED
  BY <1>1, <1>4, <1>7, <1>8, <1>9, <1>10 DEF StopInv

-----------------------------------------------------------------------------

\* Whichever stops of the facade and of the bus service overlap, whatever order
\* the listeners are cancelled in and whatever raises: a stop that has returned
\* leaves no listener, no notifier and no service running.
THEOREM StopsEndEverything == CFSpec => []StopLeavesNothingRunning
<1>1. StopInv /\ [CFNext]_cfVars => StopInv'
  <2> SUFFICES ASSUME StopInv, [CFNext]_cfVars PROVE StopInv'
    OBVIOUS
  <2>1. ASSUME NEW i \in Interfaces, Receive(i) \/ Handled(i) \/ ReceiveFails(i)
        PROVE  StopInv'
    <3>1. i \in Tasks /\ task[i] # "ended" /\ UNCHANGED <<stop, tool, notifier, listed>>
      BY <2>1, TaskSet DEF Receive, Handled, ReceiveFails
    <3>2. /\ task' = [task EXCEPT ![i] = task'[i]]
          /\ task'[i] \in {"waiting", "handling", "cancelled", "ended"}
      BY <2>1, <3>1 DEF Receive, Handled, ReceiveFails, StopInv
    <3> QED
      BY <3>1, <3>2, TaskKeeps
  <2>2. ASSUME NEW t \in Tasks, TaskEnds(t) PROVE StopInv'
    <3>1. /\ task' = [task EXCEPT ![t] = task'[t]] /\ task'[t] = "ended"
          /\ UNCHANGED <<stop, tool, notifier, listed>>
      BY <2>2 DEF TaskEnds, StopInv
    <3> QED
      BY <3>1, TaskKeeps
  <2>3. CASE UNCHANGED <<task, stop, tool, notifier, listed>>
    <3>1. Forward
      BY <2>3 DEF Forward
    <3>2. \A c \in Calls : CallInv(c)'
      BY <2>3, <3>1, Bystander
    <3>3. Covers(ToCancel)'
      BY <2>3, <3>1, StaysCovered DEF StopInv, Covers, ToCancel
    <3> QED
      BY <2>3, <3>2, <3>3 DEF StopInv
  <2>4. MonitorHealth \/ UNCHANGED cfVars => UNCHANGED <<task, stop, tool, notifier, listed>>
    BY DEF MonitorHealth, cfVars
  <2> QED
    BY <2>1, <2>2, <2>3, <2>4, BeginStopKeeps, BeginBusStopKeeps, NextTaskKeeps,
       ReturnKeeps, ToolStopsKeeps DEF CFNext
<1>2. StopInv => StopLeavesNothingRunning
  <2> SUFFICES ASSUME StopInv, NEW c \in Calls, stop[c].pc = "returned"
               PROVE  /\ notifier = {}
                      /\ \A t \in Tasks : task[t] = "ended"
                      /\ c \in FacadeStops => \A s \in Tools : tool[s] # "running"
    BY DEF StopLeavesNothingRunning
  <2>1. CallInv(c) /\ Covers(<<>>) /\ stop[c].tools = {}
    BY DEF StopInv, CallInv
  <2> QED
    BY <2>1, NothingAmongEmpty DEF Covers, CallInv
<1> QED
  BY <1>1, <1>2, InitialStop, PTL DEF CFSpec

\* After the facade's emergency stop its status never says safe again, and what
\* permits sends then is only the health task's verdict on a stopped bus.
THEOREM StoppedStaysStopped == CFSpec => []StoppedFacadeRefuses
<1>1. CFInit => StatusInv
  BY DEF CFInit, StatusInv
<1>2. StatusInv /\ [CFNext]_cfVars => StatusInv'
  <2> SUFFICES ASSUME StatusInv, [CFNext]_cfVars PROVE StatusInv'
    OBVIOUS
  <2>1. ASSUME NEW c \in Calls, BeginStop(c) PROVE StatusInv'
    BY <2>1 DEF BeginStop, StatusInv
  <2>2. ASSUME NEW c \in Calls, BeginBusStop(c) PROVE StatusInv'
    BY <2>2 DEF BeginBusStop, StatusInv
  <2>3. CASE MonitorHealth
    BY <2>3 DEF MonitorHealth, Assessed, StatusInv
  <2>4. CASE UNCHANGED <<busRunning, facadeHalted, facadeStatus, monitored>>
    BY <2>4 DEF StatusInv
  <2> QED
    BY <2>1, <2>2, <2>3, <2>4
       DEF CFNext, cfVars, Receive, Handled, ReceiveFails, TaskEnds, NextTask, ToolStops, Return
<1>3. StatusInv => StoppedFacadeRefuses
  BY DEF StatusInv, StoppedFacadeRefuses, SendPermitted
<1> QED
  BY <1>1, <1>2, <1>3, PTL DEF CFSpec

-----------------------------------------------------------------------------
(* The CAN recorder.                                                       *)

CallPlaces == {"idle", "broadcast", "autosave", "replay", "saving", "overwriting",
               "returned", "raised"}
AutosaveStates == {"none", "running", "cancelled", "ended", "failed"}
ReplayStates == {"none", "loading", "created", "ready", "sleeping", "cancelled", "dropped", "ended"}

RecorderTypes ==
    /\ recState \in {"idle", "recording", "paused", "replaying"}
    /\ recHalted \in BOOLEAN /\ again \in BOOLEAN
    /\ sessions \in 0..MaxSessions /\ current \in Nat /\ recording_task \in 0..MaxSessions
    /\ replay_task \in 0..MaxReplays
    /\ autosave \in [Sessions -> AutosaveStates]
    /\ replay \in [Replays -> ReplayStates]
    /\ late \in [Replays -> Nat]
    /\ call \in [RecCalls -> [pc : CallPlaces, target : Nat]]

\* Since an emergency stop began, and until a replay is started, no replay goes on
\* to another message, and the stop waits for the one the recorder knows of.
QuietInv ==
    /\ \A c \in Emergencies : call[c].pc # "idle" => recHalted
    /\ recHalted => ~recRunning /\ recState \notin {"recording", "paused"}
    /\ recHalted /\ ~again =>
         /\ recState = "idle"
         /\ \A k \in Replays : late[k] = 0 \/ (late[k] = 1 /\ replay[k] # "sleeping")
         /\ \A c \in Emergencies :
              /\ call[c].pc = "replay" => call[c].target = replay_task
              /\ call[c].pc \in {"saving", "overwriting", "returned"} /\ replay_task # 0 =>
                   replay[replay_task] = "ended"

\* The calls that will yet save the session they find, or do so.
WillSave(c) == call[c].pc \in {"broadcast", "autosave", "replay", "saving", "overwriting"}

\* A current session that met no race is the one in the buffer and the one of the
\* auto-save task; when it is recorded no more, a stop under way will save it.
KeptInv ==
    /\ RecordingsKept
    /\ \A n \in Sessions : autosave[n] = "failed" => n \in exposed
    /\ current # 0 /\ current \notin exposed =>
         /\ message_buffer = current /\ recording_task = current
         /\ recState \in {"recording", "paused"} \/ \E c \in SavingStops : WillSave(c)
    /\ \A c \in SavingStops :
         /\ call[c].pc = "autosave" =>
              /\ call[c].target \in {0} \cup Sessions
              /\ call[c].target = current \/ current \in {0} \cup exposed
         /\ call[c].pc \in {"saving", "overwriting"} =>
              call[c].target = current \/ current \in {0} \cup exposed
         /\ call[c].pc = "overwriting" => call[c].target \in exposed

RecorderInv == RecorderTypes /\ QuietInv /\ KeptInv

LEMMA MovedCall ==
    ASSUME RecorderTypes, NEW c \in RecCalls, NEW pc \in CallPlaces, NEW target \in Nat,
           Goto(c, pc, target)
    PROVE  /\ call' \in [RecCalls -> [pc : CallPlaces, target : Nat]]
           /\ call'[c].pc = pc /\ call'[c].target = target
           /\ \A d \in RecCalls : d # c => call'[d] = call[d]
BY DEF RecorderTypes, Goto

LEMMA RecorderConstants ==
    /\ MaxSessions \in Nat /\ MaxReplays \in Nat
    /\ Emergencies \subseteq RecCalls /\ RecordingStops \subseteq RecCalls /\ ReplayStops \subseteq RecCalls
    /\ \A c \in Emergencies : c \notin RecordingStops /\ c \notin ReplayStops
    /\ \A c \in RecordingStops : c \notin ReplayStops
    /\ SavingStops \subseteq RecCalls /\ SavingStops = RecordingStops \cup Emergencies
BY CANBusRecorderAssumption DEF RecCalls, SavingStops

\* Types.
LEMMA RecorderTypesKept ==
    ASSUME RecorderTypes, [CBNext]_cbVars
    PROVE  RecorderTypes'
<1> USE RecorderConstants DEF recorded, recording, replaying
<1>1. CASE StartRecording
  BY <1>1 DEF StartRecording, RecorderTypes, Sessions, AutosaveStates
<1>2. CASE PauseOrResume
  BY <1>2 DEF PauseOrResume, RecorderTypes
<1>3. ASSUME NEW n \in Sessions, AutosaveEnds(n) \/ AutosaveFails(n) PROVE RecorderTypes'
  BY <1>3 DEF AutosaveEnds, AutosaveFails, RecorderTypes, AutosaveStates
<1>4. ASSUME NEW k \in Replays, LoadReplay(k) PROVE RecorderTypes'
  BY <1>4 DEF LoadReplay, RecorderTypes, ReplayStates
<1>5. ASSUME NEW k \in Replays, BeginReplay(k) \/ LoadFails(k) PROVE RecorderTypes'
  <2>1. CASE BeginReplay(k)
    <3>1. /\ recState' = "replaying" /\ replay' = [replay EXCEPT ![k] = "created"]
          /\ replay_task' = k /\ again' = recHalted
          /\ UNCHANGED <<recHalted, call, recorded, late>>
      BY <2>1 DEF BeginReplay
    <3> QED
      BY <3>1 DEF RecorderTypes, ReplayStates, Replays
  <2>2. CASE LoadFails(k)
    <3>1. /\ replay' = [replay EXCEPT ![k] = "ended"]
          /\ UNCHANGED <<recState, recHalted, call, recorded, replay_task, late, again>>
      BY <2>2 DEF LoadFails
    <3> QED
      BY <3>1 DEF RecorderTypes, ReplayStates
  <2> QED
    BY <1>5, <2>1, <2>2
<1>6. ASSUME NEW k \in Replays, NextMessage(k) PROVE RecorderTypes'
  BY <1>6 DEF NextMessage, RecorderTypes, ReplayStates
<1>7. ASSUME NEW k \in Replays, SendMessage(k) PROVE RecorderTypes'
  BY <1>7 DEF SendMessage, RecorderTypes, ReplayStates
<1>8. ASSUME NEW k \in Replays, ReplayEnds(k) PROVE RecorderTypes'
  BY <1>8 DEF ReplayEnds, RecorderTypes, ReplayStates
<1>9. ASSUME NEW c \in RecordingStops, BeginStopRecording(c) PROVE RecorderTypes'
  BY <1>9, MovedCall DEF BeginStopRecording, RecorderTypes, CallPlaces
<1>10. ASSUME NEW c \in RecordingStops, StopAutosave(c) PROVE RecorderTypes'
  BY <1>10, MovedCall DEF StopAutosave, RecorderTypes, CallPlaces, CancelAutosave, AutosaveStates
<1>11. ASSUME NEW c \in RecordingStops, SaveAndEnd(c) PROVE RecorderTypes'
  BY <1>11, MovedCall DEF SaveAndEnd, Save, RecorderTypes, CallPlaces
<1>12. ASSUME NEW c \in ReplayStops, BeginStopReplay(c) PROVE RecorderTypes'
  BY <1>12, MovedCall DEF BeginStopReplay, RecorderTypes, CallPlaces, CancelReplay, ReplayStates
<1>13. ASSUME NEW c \in ReplayStops, EndStopReplay(c) PROVE RecorderTypes'
  BY <1>13, MovedCall DEF EndStopReplay, RecorderTypes, CallPlaces
<1>14. ASSUME NEW c \in Emergencies, BeginEmergency(c) PROVE RecorderTypes'
  BY <1>14, MovedCall DEF BeginEmergency, RecorderTypes, CallPlaces, CancelAutosave, AutosaveStates
<1>15. ASSUME NEW c \in Emergencies, EmergencyReplay(c) PROVE RecorderTypes'
  BY <1>15, MovedCall DEF EmergencyReplay, RecorderTypes, CallPlaces, CancelReplay, ReplayStates
<1>16. ASSUME NEW c \in Emergencies, EmergencySave(c) PROVE RecorderTypes'
  BY <1>16, MovedCall DEF EmergencySave, Save, RecorderTypes, CallPlaces
<1>17. ASSUME NEW c \in SavingStops, AutosaveRaises(c) PROVE RecorderTypes'
  BY <1>17, MovedCall DEF AutosaveRaises, RecorderTypes, CallPlaces
<1>18. ASSUME NEW c \in SavingStops, Saved(c) PROVE RecorderTypes'
  <2>1. call' \in [RecCalls -> [pc : CallPlaces, target : Nat]]
    BY <1>18, MovedCall DEF Saved, CallPlaces
  <2>2. current' \in Nat
    BY <1>18 DEF Saved, RecorderTypes
  <2>3. UNCHANGED <<recState, recHalted, sessions, autosave, recording_task, replay, replay_task, late, again>>
    BY <1>18 DEF Saved
  <2> QED
    BY <2>1, <2>2, <2>3 DEF RecorderTypes
<1>19. CASE UNCHANGED cbVars
  BY <1>19 DEF cbVars, RecorderTypes
<1> QED
  BY <1>1, <1>2, <1>3, <1>4, <1>5, <1>6, <1>7, <1>8, <1>9, <1>10, <1>11, <1>12, <1>13,
     <1>14, <1>15, <1>16, <1>17, <1>18, <1>19 DEF CBNext

\* A call that is not an emergency stop, or a step of no call, leaves the emergency
\* stops where they are.
LEMMA QuietUndisturbed ==
    ASSUME RecorderTypes, QuietInv, UNCHANGED <<recHalted, recRunning, again, replay_task, late>>,
           recState' = recState \/ (recState' \in {"idle", "recording", "paused"} /\ (recHalted => recState' = "idle")),
           \A c \in Emergencies : call'[c] = call[c],
           \A k \in Replays : /\ replay[k] = "ended" => replay'[k] = "ended"
                              /\ recHalted /\ ~again => (replay'[k] = "sleeping" => replay[k] = "sleeping")
    PROVE  QuietInv'
<1>1. replay_task # 0 /\ replay[replay_task] = "ended" => replay'[replay_task] = "ended"
  <2>1. replay_task # 0 => replay_task \in Replays
    BY RecorderConstants DEF RecorderTypes, Replays
  <2> QED
    BY <2>1
<1>2. ASSUME recHalted, ~again, NEW k \in Replays
      PROVE  late[k] = 0 \/ (late[k] = 1 /\ replay'[k] # "sleeping")
  <2>1. late[k] = 0 \/ (late[k] = 1 /\ replay[k] # "sleeping")
    BY <1>2 DEF QuietInv
  <2>2. replay'[k] = "sleeping" => replay[k] = "sleeping"
    BY <1>2
  <2> QED
    BY <2>1, <2>2
<1>3. recHalted => recState' \notin {"recording", "paused"}
  BY DEF QuietInv
<1>4. recHalted /\ ~again => recState' = "idle"
  BY DEF QuietInv
<1>5. ASSUME recHalted, ~again, NEW c \in Emergencies
      PROVE  /\ call'[c].pc = "replay" => call'[c].target = replay_task'
             /\ call'[c].pc \in {"saving", "overwriting", "returned"} /\ replay_task' # 0 =>
                   replay'[replay_task'] = "ended"
  BY <1>1, <1>5 DEF QuietInv
<1> QED
  BY <1>2, <1>3, <1>4, <1>5 DEF QuietInv

\* One call, under way, goes on.
LEMMA QuietMoved ==
    ASSUME RecorderTypes, QuietInv, NEW c \in RecCalls, call[c].pc # "idle",
           UNCHANGED <<recState, recRunning, recHalted, again, replay_task, late>>,
           \A d \in RecCalls : d # c => call'[d] = call[d],
           \A k \in Replays : /\ replay[k] = "ended" => replay'[k] = "ended"
                              /\ replay'[k] = "sleeping" => replay[k] = "sleeping",
           recHalted /\ ~again /\ c \in Emergencies =>
             /\ call'[c].pc = "replay" => call'[c].target = replay_task
             /\ call'[c].pc \in {"saving", "overwriting", "returned"} /\ replay_task # 0 =>
                   replay[replay_task] = "ended"
    PROVE  QuietInv'
<1>1. replay_task # 0 /\ replay[replay_task] = "ended" => replay'[replay_task] = "ended"
  <2>1. replay_task # 0 => replay_task \in Replays
    BY RecorderConstants DEF RecorderTypes, Replays
  <2> QED
    BY <2>1
<1>2. ASSUME recHalted, ~again, NEW k \in Replays
      PROVE  late[k] = 0 \/ (late[k] = 1 /\ replay'[k] # "sleeping")
  <2>1. late[k] = 0 \/ (late[k] = 1 /\ replay[k] # "sleeping")
    BY <1>2 DEF QuietInv
  <2>2. replay'[k] = "sleeping" => replay[k] = "sleeping"
    BY <1>2
  <2> QED
    BY <2>1, <2>2
<1>3. ASSUME recHalted, ~again, NEW d \in Emergencies
      PROVE  /\ call'[d].pc = "replay" => call'[d].target = replay_task
             /\ call'[d].pc \in {"saving", "overwriting", "returned"} /\ replay_task # 0 =>
                   replay'[replay_task] = "ended"
  BY <1>1, <1>3, RecorderConstants DEF QuietInv
<1>4. \A d \in Emergencies : call'[d].pc # "idle" => recHalted
  BY RecorderConstants DEF QuietInv
<1> QED
  BY <1>2, <1>3, <1>4 DEF QuietInv

LEMMA QuietKept ==
    ASSUME RecorderTypes, QuietInv, [CBNext]_cbVars
    PROVE  QuietInv'
<1> USE RecorderConstants DEF recorded, recording, replaying
<1>0. \A c \in RecCalls : call[c].pc \in CallPlaces /\ call[c].target \in Nat
  BY DEF RecorderTypes
<1>1. CASE StartRecording
  BY <1>1, QuietUndisturbed DEF StartRecording, QuietInv
<1>2. CASE PauseOrResume
  BY <1>2, QuietUndisturbed DEF PauseOrResume, QuietInv
<1>3. ASSUME NEW n \in Sessions, AutosaveEnds(n) \/ AutosaveFails(n) PROVE QuietInv'
  BY <1>3, QuietUndisturbed DEF AutosaveEnds, AutosaveFails
<1>4. ASSUME NEW k \in Replays, LoadReplay(k) PROVE QuietInv'
  BY <1>4, QuietUndisturbed DEF LoadReplay, RecorderTypes
<1>5. ASSUME NEW k \in Replays, BeginReplay(k) \/ LoadFails(k) PROVE QuietInv'
  <2>1. CASE BeginReplay(k)
    BY <2>1 DEF BeginReplay, QuietInv, RecorderTypes
  <2>2. CASE LoadFails(k)
    BY <2>2, QuietUndisturbed DEF LoadFails, RecorderTypes
  <2> QED
    BY <1>5, <2>1, <2>2
<1>6. ASSUME NEW k \in Replays, NextMessage(k) PROVE QuietInv'
  <2>1. ~(recHalted /\ ~again)
    BY <1>6 DEF NextMessage, ReplayAllowed, QuietInv
  <2> QED
    BY <1>6, <2>1, QuietUndisturbed DEF NextMessage, RecorderTypes
<1>7. ASSUME NEW k \in Replays, SendMessage(k) PROVE QuietInv'
  <2>1. /\ replay[k] = "sleeping" /\ replay' = [replay EXCEPT ![k] = "ready"]
        /\ UNCHANGED <<recState, recRunning, recHalted, call, replay_task, again>>
        /\ late' = IF recHalted /\ late[k] < 2 THEN [late EXCEPT ![k] = @ + 1] ELSE late
    BY <1>7 DEF SendMessage
  <2>2. replay_task # 0 /\ replay[replay_task] = "ended" => replay'[replay_task] = "ended"
    BY <2>1 DEF RecorderTypes, Replays
  <2>3. ASSUME recHalted, ~again, NEW j \in Replays
        PROVE  late'[j] = 0 \/ (late'[j] = 1 /\ replay'[j] # "sleeping")
    <3>0. late[k] = 0
      BY <2>1, <2>3 DEF QuietInv
    <3>1. late' = [late EXCEPT ![k] = 1]
      BY <2>1, <2>3, <3>0
    <3> QED
      BY <2>1, <2>3, <3>1 DEF QuietInv, RecorderTypes
  <2> QED
    BY <2>1, <2>2, <2>3 DEF QuietInv
<1>8. ASSUME NEW k \in Replays, ReplayEnds(k) PROVE QuietInv'
  BY <1>8, QuietUndisturbed DEF ReplayEnds, RecorderTypes
<1>9. ASSUME NEW c \in RecordingStops, BeginStopRecording(c) PROVE QuietInv'
  BY <1>9, MovedCall, QuietUndisturbed DEF BeginStopRecording, CallPlaces
<1>10. ASSUME NEW c \in RecordingStops, StopAutosave(c) PROVE QuietInv'
  BY <1>10, MovedCall, QuietUndisturbed DEF StopAutosave, CallPlaces, RecorderTypes
<1>11. ASSUME NEW c \in RecordingStops, SaveAndEnd(c) PROVE QuietInv'
  BY <1>11, MovedCall, QuietUndisturbed DEF SaveAndEnd, Save, CallPlaces, RecorderTypes
<1>12. ASSUME NEW c \in ReplayStops, BeginStopReplay(c) PROVE QuietInv'
  BY <1>12, MovedCall, QuietUndisturbed DEF BeginStopReplay, CallPlaces, CancelReplay, RecorderTypes
<1>13. ASSUME NEW c \in ReplayStops, EndStopReplay(c) PROVE QuietInv'
  BY <1>13, MovedCall, QuietUndisturbed DEF EndStopReplay, CallPlaces
<1>14. ASSUME NEW c \in Emergencies, BeginEmergency(c) PROVE QuietInv'
  <2>1. /\ call'[c].pc = "autosave" /\ \A d \in RecCalls : d # c => call'[d] = call[d]
    BY <1>14, MovedCall DEF BeginEmergency, CallPlaces, RecorderTypes
  <2>2. ASSUME NEW d \in Emergencies, call'[d].pc \in {"replay", "saving", "overwriting", "returned"}
        PROVE  recHalted /\ call'[d] = call[d]
    BY <2>1, <2>2 DEF QuietInv
  <2> QED
    BY <1>14, <2>2 DEF BeginEmergency, QuietInv
<1>15. ASSUME NEW c \in Emergencies, EmergencyReplay(c) PROVE QuietInv'
  <2>1. /\ call'[c].pc = "replay" /\ call'[c].target = replay_task /\ call[c].pc = "autosave"
        /\ \A d \in RecCalls : d # c => call'[d] = call[d]
    BY <1>15, MovedCall DEF EmergencyReplay, CallPlaces, RecorderTypes, At
  <2>2. UNCHANGED <<recState, recRunning, recHalted, replay_task, late, again>>
    BY <1>15 DEF EmergencyReplay
  <2>3. \A k \in Replays : /\ replay[k] = "ended" => replay'[k] = "ended"
                           /\ replay'[k] = "sleeping" => replay[k] = "sleeping"
    BY <1>15 DEF EmergencyReplay, CancelReplay
  <2> QED
    BY <2>1, <2>2, <2>3, QuietMoved
<1>16. ASSUME NEW c \in Emergencies, EmergencySave(c) PROVE QuietInv'
  <2>1. /\ call'[c].pc \in {"saving", "overwriting", "returned"} /\ call[c].pc = "replay"
        /\ \A d \in RecCalls : d # c => call'[d] = call[d]
    BY <1>16, MovedCall DEF EmergencySave, Save, CallPlaces, RecorderTypes, At
  <2>2. UNCHANGED <<recState, recRunning, recHalted, replay, replay_task, late, again>>
    BY <1>16 DEF EmergencySave
  <2>3. call[c].target = replay_task /\ replay_task # 0 => replay[replay_task] = "ended"
    BY <1>16 DEF EmergencySave, ReplayDone, RecorderTypes, Replays
  <2> QED
    BY <2>1, <2>2, <2>3, QuietMoved DEF QuietInv
<1>17. ASSUME NEW c \in SavingStops, AutosaveRaises(c) PROVE QuietInv'
  <2>1. /\ call'[c].pc = "raised" /\ call[c].pc = "autosave"
        /\ \A d \in RecCalls : d # c => call'[d] = call[d]
    BY <1>17, MovedCall DEF AutosaveRaises, CallPlaces, RecorderTypes, At
  <2>2. UNCHANGED <<recState, recRunning, recHalted, replay, replay_task, late, again>>
    BY <1>17 DEF AutosaveRaises
  <2> QED
    BY <2>1, <2>2, QuietMoved
<1>18. ASSUME NEW c \in SavingStops, Saved(c) PROVE QuietInv'
  <2>1. /\ call'[c].pc = "returned" /\ call[c].pc \in {"saving", "overwriting"}
        /\ \A d \in RecCalls : d # c => call'[d] = call[d]
    BY <1>18, MovedCall DEF Saved, CallPlaces, RecorderTypes, At
  <2>2. UNCHANGED <<recState, recRunning, recHalted, replay, replay_task, late, again>>
    BY <1>18 DEF Saved
  <2>3. recHalted /\ ~again /\ c \in Emergencies /\ replay_task # 0 => replay[replay_task] = "ended"
    BY <2>1 DEF QuietInv
  <2> QED
    BY <2>1, <2>2, <2>3, QuietMoved
<1>19. CASE UNCHANGED cbVars
  BY <1>19 DEF cbVars, QuietInv
<1> QED
  BY <1>1, <1>2, <1>3, <1>4, <1>5, <1>6, <1>7, <1>8, <1>9, <1>10, <1>11, <1>12, <1>13,
     <1>14, <1>15, <1>16, <1>17, <1>18, <1>19 DEF CBNext

\* A step that starts and writes no recording.
LEMMA KeptUndisturbed ==
    ASSUME RecorderTypes, KeptInv, UNCHANGED <<sessions, current, saved, recording_task>>,
           exposed \subseteq exposed',
           message_buffer' = message_buffer \/ current \in {0} \cup exposed',
           \A n \in Sessions : autosave'[n] = "failed" => autosave[n] = "failed" \/ n \in exposed',
           \/ recState \in {"recording", "paused"} => recState' \in {"recording", "paused"}
           \/ current \in {0} \cup exposed'
           \/ \E c \in SavingStops : WillSave(c)',
           \A c \in SavingStops : WillSave(c) => WillSave(c)' \/ current \in {0} \cup exposed',
           \A c \in SavingStops :
             \/ call'[c] = call[c]
             \/ /\ call'[c].pc = "autosave" => call'[c].target = recording_task
                /\ call'[c].pc \in {"saving", "overwriting"} => call'[c].target = current
                /\ call'[c].pc = "overwriting" => current \in exposed'
    PROVE  KeptInv'
<1>1. RecordingsKept'
  BY DEF KeptInv, RecordingsKept
<1>2. \A n \in Sessions : autosave'[n] = "failed" => n \in exposed'
  BY DEF KeptInv
<1>3. ASSUME current # 0, current \notin exposed'
      PROVE  /\ message_buffer' = current /\ recording_task' = current
             /\ recState' \in {"recording", "paused"} \/ \E c \in SavingStops : WillSave(c)'
  BY <1>3 DEF KeptInv
<1>4. ASSUME NEW c \in SavingStops, call'[c].pc = "autosave"
      PROVE  /\ call'[c].target \in {0} \cup Sessions
             /\ call'[c].target = current \/ current \in {0} \cup exposed'
  BY <1>4, RecorderConstants DEF KeptInv, RecorderTypes, Sessions
<1>5. ASSUME NEW c \in SavingStops
      PROVE  /\ call'[c].pc \in {"saving", "overwriting"} =>
                  call'[c].target = current \/ current \in {0} \cup exposed'
             /\ call'[c].pc = "overwriting" => call'[c].target \in exposed'
  BY <1>5 DEF KeptInv
<1> QED
  BY <1>1, <1>2, <1>3, <1>4, <1>5 DEF KeptInv

\* A call that saves the session it finds.
LEMMA SaveKeeps ==
    ASSUME RecorderTypes, KeptInv, NEW c \in SavingStops, Save(c),
           UNCHANGED <<recState, autosave, recording>>
    PROVE  KeptInv'
<1> USE RecorderConstants DEF recorded, recording
<1>1. \A d \in RecCalls : d # c => call'[d] = call[d]
  BY MovedCall DEF Save, CallPlaces, RecorderTypes
<1>2. CASE current = 0
  <2>1. call'[c].pc = "returned"
    BY <1>2, MovedCall DEF Save, CallPlaces
  <2> QED
    BY <1>1, <1>2, <2>1, KeptUndisturbed DEF WillSave
<1>3. CASE current # 0
  <2>1. /\ call'[c].pc \in {"saving", "overwriting"} /\ call'[c].target = current
        /\ call'[c].pc = "overwriting" => message_buffer # current
    BY <1>3, MovedCall DEF Save, CallPlaces, RecorderTypes
  <2>2. call'[c].pc = "overwriting" => current \in exposed
    BY <1>3, <2>1 DEF KeptInv
  <2> QED
    BY <1>1, <2>1, <2>2, KeptUndisturbed DEF WillSave
<1> QED
  BY <1>2, <1>3

LEMMA KeptKept ==
    ASSUME RecorderTypes, KeptInv, [CBNext]_cbVars
    PROVE  KeptInv'
<1> USE RecorderConstants DEF recorded, recording, replaying
<1>1. CASE StartRecording
  <2>1. /\ recState = "idle" /\ recState' = "recording" /\ sessions' = sessions + 1
        /\ current' = sessions + 1 /\ recording_task' = sessions + 1 /\ message_buffer' = sessions + 1
        /\ autosave' = [autosave EXCEPT ![sessions + 1] = "running"]
        /\ UNCHANGED <<call, saved>> /\ exposed \subseteq exposed'
        /\ (\E c \in SavingStops : Stopping(c)) => {current, sessions + 1} \ {0} \subseteq exposed'
    BY <1>1 DEF StartRecording, Expose
  <2>2. sessions + 1 # 0
    BY DEF RecorderTypes
  <2>3. ASSUME NEW c \in SavingStops, call[c].pc \in {"autosave", "saving", "overwriting"} \/ WillSave(c)
        PROVE  {current, sessions + 1} \ {0} \subseteq exposed'
    BY <2>1, <2>3 DEF WillSave, Stopping
  <2>4. current = 0 \/ current \in exposed'
    BY <2>1, <2>3 DEF KeptInv
  <2>5. RecordingsKept'
    BY <2>1, <2>4 DEF KeptInv, RecordingsKept, RecorderTypes
  <2>6. \A n \in Sessions : autosave'[n] = "failed" => n \in exposed'
    BY <2>1 DEF KeptInv, RecorderTypes
  <2> QED
    BY <2>1, <2>2, <2>3, <2>5, <2>6 DEF KeptInv
<1>2. CASE PauseOrResume
  BY <1>2, KeptUndisturbed DEF PauseOrResume, KeptInv, WillSave
<1>3. ASSUME NEW n \in Sessions, AutosaveEnds(n) \/ AutosaveFails(n) PROVE KeptInv'
  <2>1. /\ UNCHANGED <<recState, call, sessions, current, message_buffer, recording_task, saved>>
        /\ exposed \subseteq exposed'
    BY <1>3 DEF AutosaveEnds, AutosaveFails, Expose
  <2>2. \A m \in Sessions : autosave'[m] = "failed" => autosave[m] = "failed" \/ m \in exposed'
    BY <1>3 DEF AutosaveEnds, AutosaveFails, Expose, RecorderTypes, Sessions
  <2> QED
    BY <2>1, <2>2, KeptUndisturbed DEF WillSave
<1>4. ASSUME NEW k \in Replays, LoadReplay(k) PROVE KeptInv'
  BY <1>4, KeptUndisturbed DEF LoadReplay, WillSave
<1>5. ASSUME NEW k \in Replays, BeginReplay(k) \/ LoadFails(k) PROVE KeptInv'
  <2>1. /\ UNCHANGED <<call, sessions, current, recording_task, saved, autosave>>
        /\ exposed \subseteq exposed'
        /\ (message_buffer' = message_buffer /\ recState' = recState) \/ current \in {0} \cup exposed'
    BY <1>5 DEF BeginReplay, LoadFails, Expose
  <2> QED
    BY <2>1, KeptUndisturbed DEF WillSave
<1>6. ASSUME NEW k \in Replays, NextMessage(k) \/ SendMessage(k) PROVE KeptInv'
  BY <1>6, KeptUndisturbed DEF NextMessage, SendMessage, WillSave
<1>8. ASSUME NEW k \in Replays, ReplayEnds(k) PROVE KeptInv'
  <2>1. /\ UNCHANGED <<call, sessions, current, message_buffer, recording_task, saved, autosave>>
        /\ exposed \subseteq exposed'
        /\ \/ recState \in {"recording", "paused"} => recState' = recState
           \/ current \in {0} \cup exposed'
    BY <1>8 DEF ReplayEnds, Expose
  <2> QED
    BY <2>1, KeptUndisturbed DEF WillSave
<1>9. ASSUME NEW c \in RecordingStops, BeginStopRecording(c) PROVE KeptInv'
  <2>1. call[c].pc = "idle" /\ UNCHANGED <<sessions, current, message_buffer, recording_task, saved, exposed, autosave>>
    BY <1>9 DEF BeginStopRecording, At
  <2>2. call'[c].pc = "broadcast" /\ \A d \in RecCalls : d # c => call'[d] = call[d]
    BY <1>9, MovedCall DEF BeginStopRecording, CallPlaces
  <2> QED
    BY <2>1, <2>2, KeptUndisturbed DEF WillSave
<1>10. ASSUME NEW c \in RecordingStops, StopAutosave(c) PROVE KeptInv'
  <2>1. /\ UNCHANGED <<recState, sessions, current, message_buffer, recording_task, saved, exposed>>
        /\ \A n \in Sessions : autosave'[n] = "failed" => autosave[n] = "failed"
    BY <1>10 DEF StopAutosave, CancelAutosave
  <2>2. /\ call'[c].pc = "autosave" /\ call'[c].target = recording_task
        /\ \A d \in RecCalls : d # c => call'[d] = call[d]
    BY <1>10, MovedCall DEF StopAutosave, CallPlaces, RecorderTypes
  <2> QED
    BY <2>1, <2>2, KeptUndisturbed DEF WillSave
<1>11. ASSUME NEW c \in RecordingStops, SaveAndEnd(c) PROVE KeptInv'
  BY <1>11, SaveKeeps DEF SaveAndEnd
<1>12. ASSUME NEW c \in ReplayStops, BeginStopReplay(c) PROVE KeptInv'
  <2>1. /\ recState = "replaying"
        /\ UNCHANGED <<sessions, current, message_buffer, recording_task, saved, exposed, autosave>>
    BY <1>12 DEF BeginStopReplay
  <2>2. \A d \in RecCalls : d # c => call'[d] = call[d]
    BY <1>12, MovedCall DEF BeginStopReplay, CallPlaces, RecorderTypes
  <2>3. \A d \in SavingStops : call'[d] = call[d]
    BY <2>2
  <2> QED
    BY <2>1, <2>3, KeptUndisturbed DEF WillSave
<1>13. ASSUME NEW c \in ReplayStops, EndStopReplay(c) PROVE KeptInv'
  <2>1. UNCHANGED <<recState, sessions, current, message_buffer, recording_task, saved, exposed, autosave>>
    BY <1>13 DEF EndStopReplay
  <2>2. \A d \in SavingStops : call'[d] = call[d]
    BY <1>13, MovedCall DEF EndStopReplay, CallPlaces
  <2> QED
    BY <2>1, <2>2, KeptUndisturbed DEF WillSave
<1>14. ASSUME NEW c \in Emergencies, BeginEmergency(c) PROVE KeptInv'
  <2>1. /\ UNCHANGED <<sessions, current, message_buffer, recording_task, saved, exposed>>
        /\ \A n \in Sessions : autosave'[n] = "failed" => autosave[n] = "failed"
    BY <1>14 DEF BeginEmergency, CancelAutosave
  <2>2. /\ call'[c].pc = "autosave" /\ call'[c].target = recording_task
        /\ \A d \in RecCalls : d # c => call'[d] = call[d]
    BY <1>14, MovedCall DEF BeginEmergency, CallPlaces, RecorderTypes
  <2> QED
    BY <2>1, <2>2, KeptUndisturbed DEF WillSave
<1>15. ASSUME NEW c \in Emergencies, EmergencyReplay(c) PROVE KeptInv'
  <2>1. UNCHANGED <<recState, sessions, current, message_buffer, recording_task, saved, exposed, autosave>>
    BY <1>15 DEF EmergencyReplay
  <2>2. call'[c].pc = "replay" /\ \A d \in RecCalls : d # c => call'[d] = call[d]
    BY <1>15, MovedCall DEF EmergencyReplay, CallPlaces, RecorderTypes
  <2> QED
    BY <2>1, <2>2, KeptUndisturbed DEF WillSave
<1>16. ASSUME NEW c \in Emergencies, EmergencySave(c) PROVE KeptInv'
  BY <1>16, SaveKeeps DEF EmergencySave
<1>17. ASSUME NEW c \in SavingStops, AutosaveRaises(c) PROVE KeptInv'
  <2>1. /\ call[c].pc = "autosave" /\ call[c].target # 0 /\ autosave[call[c].target] = "failed"
        /\ UNCHANGED <<recState, sessions, current, message_buffer, recording_task, saved, exposed, autosave>>
    BY <1>17 DEF AutosaveRaises, AutosaveIs, At
  <2>2. call'[c].pc = "raised" /\ \A d \in RecCalls : d # c => call'[d] = call[d]
    BY <1>17, MovedCall DEF AutosaveRaises, CallPlaces
  <2>3. current \in {0} \cup exposed
    BY <2>1 DEF KeptInv
  <2> QED
    BY <2>1, <2>2, <2>3, KeptUndisturbed DEF WillSave
<1>18. ASSUME NEW c \in SavingStops, Saved(c) PROVE KeptInv'
  <2> DEFINE n == call[c].target
  <2>1. /\ call[c].pc \in {"saving", "overwriting"} /\ exposed \subseteq exposed'
        /\ UNCHANGED <<recState, sessions, autosave, message_buffer, recording_task>>
        /\ current' = 0 \/ (current' = current /\ n \in {0} \cup exposed')
        /\ \/ call[c].pc = "saving" /\ saved' = saved \cup {n}
           \/ saved' = saved \ {n} /\ (call[c].pc = "overwriting" \/ n \in {0} \cup exposed')
    BY <1>18 DEF Saved, At, Expose
  <2>2. /\ call'[c].pc = "returned" /\ \A d \in RecCalls : d # c => call'[d] = call[d]
    BY <1>18, MovedCall DEF Saved, CallPlaces
  <2>3. /\ n = current \/ current \in {0} \cup exposed
        /\ call[c].pc = "overwriting" => n \in exposed
    BY <2>1 DEF KeptInv
  <2>4. current' = 0 \/ current' \in exposed'
    BY <2>1, <2>3
  <2>5. RecordingsKept'
    <3> SUFFICES ASSUME NEW m \in 1..sessions
                 PROVE  m = current' \/ m \in saved' \/ m \in exposed'
      BY <2>1 DEF RecordingsKept
    <3>1. m = current \/ m \in saved \/ m \in exposed
      BY DEF KeptInv, RecordingsKept
    <3>2. m # 0
      BY DEF RecorderTypes
    <3>3. CASE m = current
      BY <2>1, <2>3, <3>2, <3>3
    <3>4. CASE m \in saved
      BY <2>1, <2>3, <3>2, <3>4
    <3> QED
      BY <2>1, <3>1, <3>3, <3>4
  <2> QED
    BY <2>1, <2>2, <2>4, <2>5 DEF KeptInv
<1>19. CASE UNCHANGED cbVars
  BY <1>19, KeptUndisturbed DEF cbVars, WillSave
<1> QED
  BY <1>1, <1>2, <1>3, <1>4, <1>5, <1>6, <1>8, <1>9, <1>10, <1>11, <1>12, <1>13,
     <1>14, <1>15, <1>16, <1>17, <1>18, <1>19 DEF CBNext

LEMMA RecorderInvHolds == CBSpec => []RecorderInv
<1>1. CBInit => RecorderInv
  <2> SUFFICES ASSUME CBInit PROVE RecorderInv
    OBVIOUS
  <2>1. RecorderTypes
    <3>1. call \in [RecCalls -> [pc : CallPlaces, target : Nat]]
      BY DEF CBInit, CallPlaces
    <3>2. recHalted \in BOOLEAN /\ again \in BOOLEAN
      BY DEF CBInit
    <3>3. autosave \in [Sessions -> AutosaveStates] /\ replay \in [Replays -> ReplayStates]
      BY DEF CBInit, AutosaveStates, ReplayStates
    <3> QED
      BY <3>1, <3>2, <3>3, RecorderConstants DEF CBInit, RecorderTypes
  <2>2. QuietInv
    BY RecorderConstants DEF CBInit, QuietInv
  <2>3. KeptInv
    BY RecorderConstants DEF CBInit, KeptInv, RecordingsKept
  <2> QED
    BY <2>1, <2>2, <2>3 DEF RecorderInv
<1>2. RecorderInv /\ [CBNext]_cbVars => RecorderInv'
  BY RecorderTypesKept, QuietKept, KeptKept DEF RecorderInv
<1> QED
  BY <1>1, <1>2, PTL DEF CBSpec

\* However the stops, the recordings and the replays interleave, after an emergency
\* stop nothing is recorded, and without a new replay nothing is sent but the one
\* message each replay was waiting for.
THEOREM EmergencyQuietsRecorder == CBSpec => []RecorderQuietAfterStop
<1>1. RecorderInv => RecorderQuietAfterStop
  BY RecorderConstants DEF RecorderInv, RecorderTypes, QuietInv, RecorderQuietAfterStop
<1> QED
  BY <1>1, RecorderInvHolds, PTL

\* However stops, recordings, auto-saves and replays interleave, a recording that is
\* neither the current one nor written met one of the named races, or a failing save,
\* while it was recorded or stopped: what befell another never loses it.
THEOREM NoRecordingForgotten == CBSpec => []RecordingsKept
<1>1. RecorderInv => RecordingsKept
  BY DEF RecorderInv, KeptInv, RecordingsKept
<1> QED
  BY <1>1, RecorderInvHolds, PTL

-----------------------------------------------------------------------------
(* The message deduplicator.                                               *)

Entry == Hashes \X Nat

\* The queue has, for each hash of the cache, the entry of the cache, and a hash
\* that is in the cache no more has expired or was lost.
DedupInv ==
    /\ dedupTime \in Nat \ {0} /\ accepted \in [Hashes -> Nat]
    /\ DOMAIN message_cache \subseteq Hashes
    /\ cache_order \in Seq(Entry)
    /\ \A h \in DOMAIN message_cache :
         /\ message_cache[h] = accepted[h] /\ accepted[h] > 0
         /\ \E j \in DOMAIN cache_order : cache_order[j] = <<h, accepted[h]>>
    /\ \A h \in Hashes : accepted[h] > 0 /\ h \notin DOMAIN message_cache =>
         h \in lost \/ accepted[h] + WindowMs < dedupTime

\* The entries that _clean_expired_entries takes.
LEMMA ExpiredAre ==
    ASSUME DedupInv
    PROVE  /\ ExpiredCount \in 0..Len(cache_order) /\ Len(cache_order) \in Nat
           /\ Expired(ExpiredCount)
<1> DEFINE Old == {i \in 1..Len(cache_order) : cache_order[i][2] + WindowMs < dedupTime}
<1>1. Len(cache_order) \in Nat
  BY DEF DedupInv
<1>2. PICK n \in 0..Len(cache_order) : (\A i \in 1..n : i \in Old) /\ (n < Len(cache_order) => n + 1 \notin Old)
  <2> HIDE DEF Old
  <2> QED
    BY <1>1, LongestPrefix
<1>3. Expired(n)
  BY <1>2 DEF Expired
<1>4. n < Len(cache_order) => ~Expired(n + 1)
  <2> SUFFICES ASSUME n < Len(cache_order), Expired(n + 1) PROVE FALSE
    OBVIOUS
  <2>1. n + 1 \in 1..Len(cache_order) /\ n + 1 \in 1..(n + 1)
    BY <1>1
  <2>2. cache_order[n + 1][2] + WindowMs < dedupTime
    BY <2>1 DEF Expired
  <2> QED
    BY <1>2, <2>1, <2>2
<1>5. \E k \in 0..Len(cache_order) : Expired(k) /\ (k < Len(cache_order) => ~Expired(k + 1))
  BY <1>3, <1>4
<1> QED
  BY <1>1, <1>5 DEF ExpiredCount

\* Two positions with one hash are more than one.
LEMMA TwoAreTwice ==
    ASSUME DedupInv, NEW h, NEW i \in DOMAIN cache_order, NEW j \in DOMAIN cache_order, i # j,
           cache_order[i][1] = h, cache_order[j][1] = h
    PROVE  QueuedTwice(h)
<1> DEFINE I == {k \in DOMAIN cache_order : cache_order[k][1] = h}
<1>1. IsFiniteSet(I) /\ Cardinality(I) \in Nat
  BY PositionsFinite DEF DedupInv
<1>2. {i, j} \subseteq I
  OBVIOUS
<1>3. Cardinality({i, j}) = 2
  <2>1. IsFiniteSet({i}) /\ Cardinality({i}) = 1
    BY FS_Singleton
  <2>2. Cardinality({i} \cup {j}) = Cardinality({i}) + 1
    BY <2>1, FS_AddElement
  <2>3. {i, j} = {i} \cup {j}
    OBVIOUS
  <2> QED
    BY <2>1, <2>2, <2>3
<1>4. Cardinality({i, j}) <= Cardinality(I)
  <2> HIDE DEF I
  <2> QED
    BY <1>1, <1>2, FS_Subset
<1> QED
  BY <1>1, <1>3, <1>4 DEF QueuedTwice

\* What the cleaning leaves, and what it takes.
LEMMA Cleaning ==
    ASSUME DedupInv
    PROVE  /\ CleanedOrder \in Seq(Entry)
           /\ DOMAIN CleanedCache \subseteq DOMAIN message_cache
           /\ \A h \in DOMAIN CleanedCache :
                /\ CleanedCache[h] = accepted[h] /\ accepted[h] > 0
                /\ \E j \in DOMAIN CleanedOrder : CleanedOrder[j] = <<h, accepted[h]>>
           /\ \A h \in DOMAIN message_cache : h \notin DOMAIN CleanedCache =>
                h \in LostNow \/ accepted[h] + WindowMs < dedupTime
<1> DEFINE n == ExpiredCount
           Taken == {cache_order[i][1] : i \in 1..n}
<1>1. /\ n \in 0..Len(cache_order) /\ Len(cache_order) \in Nat /\ Expired(n)
      /\ cache_order \in Seq(Entry) /\ DOMAIN cache_order = 1..Len(cache_order)
  BY ExpiredAre DEF DedupInv
<1>2. /\ DOMAIN CleanedCache = DOMAIN message_cache \ Taken
      /\ \A h \in DOMAIN CleanedCache : CleanedCache[h] = message_cache[h]
  BY DEF CleanedCache, Without
<1> HIDE DEF n
<1>3. /\ CleanedOrder \in Seq(Entry) /\ DOMAIN CleanedOrder = 1..(Len(cache_order) - n)
      /\ \A j \in 1..(Len(cache_order) - n) : CleanedOrder[j] = cache_order[j + n]
  <2>1. CleanedOrder = SubSeq(cache_order, n + 1, Len(cache_order))
    BY DEF CleanedOrder, n
  <2> HIDE DEF CleanedOrder
  <2>2. \A i \in (n + 1)..Len(cache_order) : cache_order[i] \in Entry
    BY <1>1
  <2> QED
    BY <1>1, <2>1, <2>2, SubSeqProperties
<1>4. ASSUME NEW h \in DOMAIN CleanedCache
      PROVE  /\ CleanedCache[h] = accepted[h] /\ accepted[h] > 0
             /\ \E j \in DOMAIN CleanedOrder : CleanedOrder[j] = <<h, accepted[h]>>
  <2>1. PICK k \in DOMAIN cache_order : cache_order[k] = <<h, accepted[h]>>
    BY <1>2, <1>4 DEF DedupInv
  <2>2. k \notin 1..n
    BY <1>2, <1>4, <2>1
  <2>3. k - n \in 1..(Len(cache_order) - n) /\ (k - n) + n = k
    BY <1>1, <2>1, <2>2
  <2> QED
    BY <1>2, <1>3, <1>4, <2>1, <2>3 DEF DedupInv
<1>5. ASSUME NEW h \in DOMAIN message_cache, h \notin DOMAIN CleanedCache
      PROVE  h \in LostNow \/ accepted[h] + WindowMs < dedupTime
  <2>1. PICK i \in 1..n : cache_order[i][1] = h
    BY <1>2, <1>5
  <2>2. i \in DOMAIN cache_order /\ cache_order[i][2] + WindowMs < dedupTime
    BY <1>1 DEF Expired
  <2>3. PICK k \in DOMAIN cache_order : cache_order[k] = <<h, accepted[h]>>
    BY <1>5 DEF DedupInv
  <2>4. CASE k = i
    BY <2>2, <2>3, <2>4
  <2>5. CASE k # i
    <3>1. QueuedTwice(h)
      BY <2>1, <2>2, <2>3, <2>5, TwoAreTwice
    <3> QED
      BY <1>5, <3>1 DEF LostNow
  <2> QED
    BY <2>4, <2>5
<1> QED
  BY <1>2, <1>3, <1>4, <1>5

LEMMA DuplicateKeeps ==
    ASSUME DedupInv, NEW h \in Hashes, Duplicate(h)
    PROVE  DedupInv'
<1>1. /\ cache_order' = CleanedOrder /\ message_cache' = CleanedCache
      /\ lost' = lost \cup LostNow /\ UNCHANGED <<dedupTime, accepted>>
  BY DEF Duplicate
<1>2. ASSUME NEW x \in Hashes, accepted[x] > 0, x \notin DOMAIN CleanedCache
      PROVE  x \in lost' \/ accepted[x] + WindowMs < dedupTime
  <2>1. CASE x \in DOMAIN message_cache
    BY <1>1, <1>2, <2>1, Cleaning
  <2>2. CASE x \notin DOMAIN message_cache
    BY <1>1, <1>2, <2>2 DEF DedupInv
  <2> QED
    BY <2>1, <2>2
<1>3. /\ CleanedOrder \in Seq(Entry)
      /\ DOMAIN CleanedCache \subseteq DOMAIN message_cache
      /\ \A x \in DOMAIN CleanedCache :
           /\ CleanedCache[x] = accepted[x] /\ accepted[x] > 0
           /\ \E j \in DOMAIN CleanedOrder : CleanedOrder[j] = <<x, accepted[x]>>
  BY Cleaning
<1> QED
  BY <1>1, <1>2, <1>3 DEF DedupInv

LEMMA AcceptKeeps ==
    ASSUME DedupInv, NEW h \in Hashes, Accept(h)
    PROVE  DedupInv'
<1> DEFINE now == dedupTime
           order == Append(CleanedOrder, <<h, now>>)
           cache == [x \in DOMAIN CleanedCache \cup {h} |->
                        IF x = h THEN now ELSE CleanedCache[x]]
           full == Len(order) > MaxCacheSize
           oldest == IF full THEN {order[1][1]} ELSE {}
<1>1. /\ cache_order' = IF full THEN Tail(order) ELSE order
      /\ message_cache' = Without(cache, oldest)
      /\ lost' = ((lost \cup LostNow) \ {h}) \cup oldest
      /\ accepted' = [accepted EXCEPT ![h] = now] /\ dedupTime' = dedupTime
  BY DEF Accept
<1>2. /\ CleanedOrder \in Seq(Entry) /\ <<h, now>> \in Entry
      /\ DOMAIN CleanedCache \subseteq Hashes
      /\ \A x \in DOMAIN CleanedCache :
           /\ CleanedCache[x] = accepted[x] /\ accepted[x] > 0
           /\ \E j \in DOMAIN CleanedOrder : CleanedOrder[j] = <<x, accepted[x]>>
  BY Cleaning DEF DedupInv, Entry
<1>3. /\ order \in Seq(Entry) /\ Len(order) \in Nat \ {0} /\ DOMAIN order = 1..Len(order)
      /\ Len(CleanedOrder) + 1 = Len(order) /\ order[Len(order)] = <<h, now>>
      /\ DOMAIN CleanedOrder = 1..Len(CleanedOrder)
      /\ \A i \in DOMAIN CleanedOrder : i \in DOMAIN order /\ order[i] = CleanedOrder[i]
  BY <1>2, AppendProperties
<1>4. /\ accepted' \in [Hashes -> Nat] /\ accepted'[h] = now /\ now > 0
      /\ \A x \in Hashes : x # h => accepted'[x] = accepted[x]
  BY <1>1 DEF DedupInv
<1> HIDE DEF order
<1>5. /\ DOMAIN cache = DOMAIN CleanedCache \cup {h} /\ DOMAIN cache \subseteq Hashes
      /\ \A x \in DOMAIN cache :
           /\ cache[x] = accepted'[x] /\ accepted'[x] > 0
           /\ \E j \in DOMAIN order : order[j] = <<x, accepted'[x]>>
  <2>1. DOMAIN cache = DOMAIN CleanedCache \cup {h} /\ DOMAIN cache \subseteq Hashes
    BY <1>2
  <2>2. ASSUME NEW x \in DOMAIN cache
        PROVE  /\ cache[x] = accepted'[x] /\ accepted'[x] > 0
               /\ \E j \in DOMAIN order : order[j] = <<x, accepted'[x]>>
    <3>1. CASE x = h
      BY <3>1, <1>3, <1>4
    <3>2. CASE x # h
      <4>1. x \in DOMAIN CleanedCache /\ accepted'[x] = accepted[x] /\ cache[x] = CleanedCache[x]
        BY <3>2, <1>2, <1>4
      <4>2. PICK j \in DOMAIN CleanedOrder : CleanedOrder[j] = <<x, accepted[x]>>
        BY <4>1, <1>2
      <4> QED
        BY <4>1, <4>2, <1>2, <1>3
    <3> QED
      BY <3>1, <3>2
  <2> QED
    BY <2>1, <2>2
<1>6. /\ DOMAIN message_cache' = DOMAIN cache \ oldest
      /\ \A x \in DOMAIN message_cache' : message_cache'[x] = cache[x]
  BY <1>1 DEF Without
<1> HIDE DEF cache
<1>7. /\ cache_order' \in Seq(Entry)
      /\ \A x \in DOMAIN message_cache' :
           \E j \in DOMAIN cache_order' : cache_order'[j] = <<x, accepted'[x]>>
  <2>1. CASE full
    <3>1. /\ Tail(order) \in Seq(Entry) /\ Len(Tail(order)) = Len(order) - 1
          /\ DOMAIN Tail(order) = 1..Len(Tail(order))
          /\ \A i \in 1..Len(Tail(order)) : Tail(order)[i] = order[i + 1]
      BY <1>3, HeadTailProperties, EmptySeq
    <3>2. ASSUME NEW x \in DOMAIN message_cache'
          PROVE  \E j \in DOMAIN Tail(order) : Tail(order)[j] = <<x, accepted'[x]>>
      <4>1. x # order[1][1] /\ x \in DOMAIN cache
        BY <2>1, <1>6
      <4>2. PICK j \in DOMAIN order : order[j] = <<x, accepted'[x]>>
        BY <4>1, <1>5
      <4>3. j # 1
        BY <4>1, <4>2
      <4>4. j - 1 \in DOMAIN Tail(order) /\ (j - 1) + 1 = j
        BY <4>2, <4>3, <3>1, <1>3
      <4> QED
        BY <4>2, <4>4, <3>1
    <3> QED
      BY <2>1, <1>1, <3>1, <3>2
  <2>2. CASE ~full
    BY <2>2, <1>1, <1>3, <1>5, <1>6
  <2> QED
    BY <2>1, <2>2
<1>8. ASSUME NEW x \in Hashes, accepted'[x] > 0, x \notin DOMAIN message_cache'
      PROVE  x \in lost' \/ accepted'[x] + WindowMs < dedupTime'
  <2>1. CASE x \in oldest
    BY <2>1, <1>1
  <2>2. CASE x \notin oldest
    <3>1. x # h /\ x \notin DOMAIN CleanedCache /\ accepted'[x] = accepted[x]
      BY <2>2, <1>4, <1>5, <1>6, <1>8
    <3>2. x \in lost \/ x \in LostNow \/ accepted[x] + WindowMs < dedupTime
      <4>1. CASE x \in DOMAIN message_cache
        BY <3>1, <4>1, Cleaning
      <4>2. CASE x \notin DOMAIN message_cache
        BY <1>8, <3>1, <4>2 DEF DedupInv
      <4> QED
        BY <4>1, <4>2
    <3> QED
      BY <3>1, <3>2, <1>1
  <2> QED
    BY <2>1, <2>2
<1>9. \A x \in DOMAIN message_cache' : message_cache'[x] = accepted'[x] /\ accepted'[x] > 0
  BY <1>5, <1>6
<1>10. DOMAIN message_cache' \subseteq Hashes /\ dedupTime' \in Nat \ {0}
  BY <1>1, <1>5, <1>6 DEF DedupInv
<1> HIDE DEF now, full, oldest
<1> QED
  BY <1>4, <1>7, <1>8, <1>9, <1>10 DEF DedupInv

\* What the deduplicator calls a duplicate was handed on within the window, and
\* what it hands on again within the window is something it had lost.
THEOREM DuplicatesAreSeenBefore == MDSpec => DuplicatesAreRepeats
<1>1. MDInit => DedupInv
  <2> SUFFICES ASSUME MDInit PROVE DedupInv
    OBVIOUS
  <2>1. WindowMs + 1 \in Nat \ {0}
    BY DeduplicatorAssumption
  <2>2. DOMAIN message_cache = {} /\ cache_order \in Seq(Entry)
    BY DEF MDInit
  <2> QED
    BY <2>1, <2>2 DEF MDInit, DedupInv
<1>2. DedupInv /\ [MDNext]_mdVars => DedupInv'
  <2> SUFFICES ASSUME DedupInv, [MDNext]_mdVars PROVE DedupInv'
    OBVIOUS
  <2>1. ASSUME NEW h \in Hashes, Duplicate(h) PROVE DedupInv'
    BY <2>1, DuplicateKeeps
  <2>2. ASSUME NEW h \in Hashes, Accept(h) PROVE DedupInv'
    BY <2>2, AcceptKeeps
  <2>3. CASE MDTick
    <3>1. /\ dedupTime' = dedupTime + 1
          /\ UNCHANGED <<message_cache, cache_order, accepted, lost>>
          /\ dedupTime \in Nat \ {0} /\ accepted \in [Hashes -> Nat]
      BY <2>3 DEF MDTick, DedupInv
    <3>2. ASSUME NEW h \in Hashes, accepted[h] + WindowMs < dedupTime
          PROVE  accepted[h] + WindowMs < dedupTime + 1
      <4>1. accepted[h] \in Nat
        BY <3>1
      <4> QED
        BY <3>1, <3>2, <4>1, DeduplicatorAssumption
    <3> QED
      BY <3>1, <3>2 DEF DedupInv
  <2>4. CASE UNCHANGED mdVars
    BY <2>4 DEF mdVars, DedupInv
  <2> QED
    BY <2>1, <2>2, <2>3, <2>4 DEF MDNext
<1>3. DedupInv =>
        \A h \in Hashes :
          /\ Duplicate(h) => Recent(h)
          /\ Accept(h) /\ Recent(h) => h \in lost \cup LostNow
  <2> SUFFICES ASSUME DedupInv, NEW h \in Hashes
               PROVE  /\ Duplicate(h) => Recent(h)
                      /\ Accept(h) /\ Recent(h) => h \in lost \cup LostNow
    OBVIOUS
  <2>1. Duplicate(h) => Recent(h)
    BY Cleaning DEF Duplicate, SeenRecently, Recent
  <2>2. ASSUME Accept(h), Recent(h) PROVE h \in lost \cup LostNow
    <3>1. ~SeenRecently(h) /\ accepted[h] > 0 /\ dedupTime < accepted[h] + WindowMs
      BY <2>2 DEF Accept, Recent
    <3>2. h \notin DOMAIN CleanedCache
      BY <3>1, Cleaning DEF SeenRecently
    <3>3. ~(accepted[h] + WindowMs < dedupTime)
      <4>1. accepted[h] \in Nat /\ dedupTime \in Nat /\ WindowMs \in Nat
        BY DeduplicatorAssumption DEF DedupInv
      <4> QED
        BY <3>1, <4>1
    <3>4. CASE h \in DOMAIN message_cache
      BY <3>2, <3>3, <3>4, Cleaning
    <3>5. CASE h \notin DOMAIN message_cache
      BY <3>1, <3>3, <3>5 DEF DedupInv
    <3> QED
      BY <3>4, <3>5
  <2> QED
    BY <2>1, <2>2
<1> QED
  BY <1>1, <1>2, <1>3, PTL DEF MDSpec, DuplicatesAreRepeats
=============================================================================
