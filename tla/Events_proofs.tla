---------------------------- MODULE Events_proofs ----------------------------
(***************************************************************************)
(* Proof that a client sees the events of each job in the order of their   *)
(* dispatch (Streams!EventsInOrder), and that it shows the line once all   *)
(* messages are through (Streams!SettledShows), for every number of        *)
(* clients and handlers and every capacity.                                *)
(*                                                                         *)
(* An event goes through five places: the channel of its job, the job, the *)
(* wire, the listener, and the channel of each subscriber.  The invariant  *)
(* says of each place that its events are in order and that no place after *)
(* it holds a later one.  Only a message that is dispatched without Redis  *)
(* overtakes, when the publication fails.                                  *)
(*                                                                         *)
(* A count may be skipped, not overtaken: the second part says that, while *)
(* nothing has gone wrong, the line is about to be published, or is the    *)
(* last count on its way to each stream.                                   *)
(***************************************************************************)
EXTENDS Streams_proofs

\* A message is an event of job j; an actor has one in hand.
IsEvent(m, j) == m.kind = "event" /\ m.by = j
Carries(a, j) ==
    actors[a].pc \in {"publish", "local", "signal"} /\ IsEvent(actors[a].msg, j)

\* No event of job j later than n has reached a client or its channel; the
\* listener; the wire; the job; the job's channel.
NoneSeen(j, n) ==
    \A c \in Clients :
        /\ streams[c].got[j] <= n
        /\ \A i \in DOMAIN streams[c].fifo :
              IsEvent(streams[c].fifo[i], j) => streams[c].fifo[i].n <= n
NoneHeld(j, n) ==
    NoneSeen(j, n) /\ (Carries("listener", j) => actors["listener"].msg.n <= n)
NoneSent(j, n) ==
    NoneHeld(j, n) /\ \A i \in DOMAIN wire : IsEvent(wire[i], j) => wire[i].n <= n
NoneTaken(j, n) ==
    NoneSent(j, n) /\ (Carries(j, j) => actors[j].msg.n <= n)
NoneQueued(j, n) ==
    /\ NoneTaken(j, n)
    /\ j \in EventJobs => \A i \in DOMAIN eventChans[j] : eventChans[j][i] <= n

\* The events of job j in a sequence of messages are in order.
InOrder(s, j) ==
    \A i, k \in DOMAIN s : i < k /\ IsEvent(s[i], j) /\ IsEvent(s[k], j) => s[i].n <= s[k].n

\* What has reached the clients and their channels, only events, is in order.
SeenInOrder(j) ==
    \A c \in Clients :
        /\ InOrder(streams[c].fifo, j)
        /\ \A i \in DOMAIN streams[c].fifo :
              /\ streams[c].fifo[i].kind = "event"
              /\ IsEvent(streams[c].fifo[i], j) => streams[c].got[j] <= streams[c].fifo[i].n
HeldInOrder(j) == Carries("listener", j) => NoneSeen(j, actors["listener"].msg.n)
SentInOrder(j) ==
    /\ InOrder(wire, j)
    /\ \A i \in DOMAIN wire : IsEvent(wire[i], j) => NoneHeld(j, wire[i].n)
TakenInOrder(j) == Carries(j, j) => NoneSent(j, actors[j].msg.n)
QueuedInOrder(j) ==
    j \in EventJobs =>
        \A i \in DOMAIN eventChans[j] :
            /\ NoneTaken(j, eventChans[j][i])
            /\ \A k \in DOMAIN eventChans[j] : k < i => eventChans[j][k] <= eventChans[j][i]

\* A job dispatches nothing itself, and publishes in its own name.
PublishesOnly(j) ==
    actors[j].pc \notin {"local", "signal"} /\ (actors[j].pc = "publish" => actors[j].msg.by = j)

Ordered(j) ==
    /\ PublishesOnly(j) /\ SeenInOrder(j) /\ HeldInOrder(j) /\ SentInOrder(j)
    /\ TakenInOrder(j) /\ QueuedInOrder(j) /\ NoneQueued(j, events)

\* The invariant, while every message goes through Redis.
OrderInv == "fallback" \notin faults => \A j \in Jobs : Ordered(j)
-----------------------------------------------------------------------------
(* Types and numbers *)

\* The places of job j have events with numbers.
LEMMA PlaceTypes ==
    ASSUME IInv
    PROVE  /\ streams \in [Clients -> StreamType] /\ actors \in [Actors -> ActorType]
           /\ wire \in Seq(Message) /\ events \in Nat
           /\ \A c \in Clients :
                /\ streams[c].fifo \in Seq(Message)
                /\ \A j \in Jobs : streams[c].got[j] \in Nat
                /\ \A i \in DOMAIN streams[c].fifo : streams[c].fifo[i].n \in Nat
           /\ \A a \in Actors : actors[a].msg \in Message /\ actors[a].msg.n \in Nat
           /\ \A i \in DOMAIN wire : wire[i].n \in Nat
           /\ \A j \in EventJobs : /\ eventChans[j] \in Seq(Nat)
                                   /\ \A i \in DOMAIN eventChans[j] : eventChans[j][i] \in Nat
           /\ "listener" \in Actors /\ Jobs \subseteq Actors /\ EventJobs \subseteq Jobs
           /\ "listener" \notin Jobs
  <1>1. \A m \in Message : m.n \in Nat
    BY DEF Message
  <1>2. \A s \in Seq(Message) : \A i \in DOMAIN s : s[i] \in Message
    OBVIOUS
  <1>3. \A s \in Seq(Nat) : \A i \in DOMAIN s : s[i] \in Nat
    OBVIOUS
  <1>4. /\ streams \in [Clients -> StreamType] /\ actors \in [Actors -> ActorType]
        /\ wire \in Seq(Message) /\ events \in Nat /\ eventChans \in [EventJobs -> Seq(Nat)]
    BY DEF IInv, TypeOK
  <1>5. \A c \in Clients : streams[c].fifo \in Seq(Message) /\ streams[c].got \in [Jobs -> Nat]
    BY <1>4 DEF StreamType
  <1>6. \A a \in Actors : actors[a].msg \in Message
    BY <1>4 DEF ActorType
  <1>7. /\ "listener" \in Actors /\ Jobs \subseteq Actors /\ EventJobs \subseteq Jobs
        /\ "listener" \notin Jobs
    BY DEF Actors, Jobs, EventJobs
  <1> QED
    BY <1>1, <1>2, <1>3, <1>4, <1>5, <1>6, <1>7

\* What is not later than n is not later than m.
LEMMA LaterBound ==
    ASSUME IInv, NEW j \in Jobs, NEW n \in Nat, NEW m \in Nat, n <= m
    PROVE  /\ NoneSeen(j, n) => NoneSeen(j, m)
           /\ NoneHeld(j, n) => NoneHeld(j, m)
           /\ NoneSent(j, n) => NoneSent(j, m)
           /\ NoneTaken(j, n) => NoneTaken(j, m)
           /\ NoneQueued(j, n) => NoneQueued(j, m)
  <1> USE PlaceTypes
  <1>1. NoneSeen(j, n) => NoneSeen(j, m)
    BY DEF NoneSeen
  <1>2. NoneHeld(j, n) => NoneHeld(j, m)
    BY <1>1 DEF NoneHeld
  <1>3. NoneSent(j, n) => NoneSent(j, m)
    BY <1>2 DEF NoneSent
  <1>4. NoneTaken(j, n) => NoneTaken(j, m)
    BY <1>3 DEF NoneTaken
  <1>5. NoneQueued(j, n) => NoneQueued(j, m)
    BY <1>4 DEF NoneQueued
  <1> QED
    BY <1>1, <1>2, <1>3, <1>4, <1>5

\* When no event goes past one that is behind it, the places behind the wire stay in
\* order, if nothing is taken from them or put into them.
LEMMA PlacesBehind ==
    ASSUME IInv, NEW j \in Jobs, Ordered(j), UNCHANGED <<events, eventChans>>,
           \A n \in Nat : NoneTaken(j, n) => NoneTaken(j, n)',
           Carries(j, j)' => /\ Carries(j, j) /\ actors'[j].msg = actors[j].msg
                             /\ \A n \in Nat : NoneSent(j, n) => NoneSent(j, n)'
    PROVE  TakenInOrder(j)' /\ QueuedInOrder(j)' /\ NoneQueued(j, events)'
  <1> USE PlaceTypes
  <1>1. TakenInOrder(j)'
    <2> SUFFICES ASSUME Carries(j, j)' PROVE NoneSent(j, actors[j].msg.n)'
      BY DEF TakenInOrder
    <2>1. PICK n \in Nat : n = actors[j].msg.n
      OBVIOUS
    <2>2. NoneSent(j, n)' /\ actors'[j].msg.n = n
      BY <2>1 DEF Ordered, TakenInOrder
    <2> QED
      BY <2>2 DEF NoneSent, NoneHeld, NoneSeen
  <1>2. QueuedInOrder(j)'
    <2>1. ASSUME j \in EventJobs, NEW i \in DOMAIN eventChans[j]
          PROVE  NoneTaken(j, eventChans[j][i])'
      <3>1. PICK n \in Nat : n = eventChans[j][i]
        BY <2>1
      <3>2. NoneTaken(j, n)' /\ eventChans'[j][i] = n
        BY <2>1, <3>1 DEF Ordered, QueuedInOrder
      <3> QED
        BY <3>2 DEF NoneTaken, NoneSent, NoneHeld, NoneSeen
    <2> QED
      BY <2>1 DEF Ordered, QueuedInOrder
  <1>3. NoneQueued(j, events)'
    <2>1. PICK n \in Nat : n = events
      OBVIOUS
    <2>2. NoneTaken(j, n)' /\ events' = n
      BY <2>1 DEF Ordered, NoneQueued
    <2> QED
      BY <2>1, <2>2 DEF Ordered, NoneQueued, NoneTaken, NoneSent, NoneHeld, NoneSeen
  <1> QED
    BY <1>1, <1>2, <1>3

\* The same for the wire.
LEMMA WireBehind ==
    ASSUME IInv, NEW j \in Jobs, Ordered(j), wire' \in {wire, <<>>},
           \A n \in Nat : NoneHeld(j, n) => NoneHeld(j, n)'
    PROVE  SentInOrder(j)' /\ \A n \in Nat : NoneSent(j, n) => NoneSent(j, n)'
  <1>1. InOrder(wire', j)
    BY DEF Ordered, SentInOrder, InOrder
  <1>2. ASSUME NEW i \in DOMAIN wire', IsEvent(wire'[i], j) PROVE NoneHeld(j, wire[i].n)'
    <2>1. PICK n \in Nat : n = wire'[i].n
      BY PlaceTypes
    <2>2. NoneHeld(j, n)'
      BY <1>2, <2>1 DEF Ordered, SentInOrder
    <2> QED
      BY <2>1, <2>2 DEF NoneHeld, NoneSeen
  <1>3. \A n \in Nat : NoneSent(j, n) => NoneSent(j, n)'
    BY DEF NoneSent
  <1> QED
    BY <1>1, <1>2, <1>3 DEF SentInOrder
-----------------------------------------------------------------------------
(* Steps that move no event forward *)

\* No actor takes up an event, and jobs publish only.
NoEventTaken ==
    /\ \A a \in Actors :
         actors'[a].pc \in {"publish", "local", "signal"} /\ actors'[a].msg.kind = "event" =>
            actors[a].pc \in {"publish", "local", "signal"} /\ actors'[a].msg = actors[a].msg
    /\ \A j \in Jobs : PublishesOnly(j)'

\* Nothing new reaches a client or its channel.
NoEventSeen ==
    \A c \in Clients : /\ streams'[c].got = streams[c].got
                       /\ streams'[c].fifo \in {streams[c].fifo, <<>>}

\* Such steps may drop events on the wire and in the channels of subscribers.
LEMMA QuietStep ==
    ASSUME IInv, IInv', NEW j \in Jobs, Ordered(j), NoEventTaken, NoEventSeen,
           wire' \in {wire, <<>>}, UNCHANGED <<events, eventChans>>
    PROVE  Ordered(j)'
  <1>1. ASSUME NEW n \in Nat, NoneSeen(j, n) PROVE NoneSeen(j, n)'
    BY <1>1 DEF NoneSeen, NoEventSeen
  <1>2. Carries("listener", j)'
          => Carries("listener", j) /\ actors'["listener"].msg = actors["listener"].msg
    BY PlaceTypes DEF Carries, NoEventTaken, IsEvent
  <1>3. Carries(j, j)' => Carries(j, j) /\ actors'[j].msg = actors[j].msg
    BY PlaceTypes DEF Carries, NoEventTaken, IsEvent
  <1>4. ASSUME NEW n \in Nat, NoneHeld(j, n) PROVE NoneHeld(j, n)'
    BY <1>1, <1>2, <1>4 DEF NoneHeld
  <1>8. PublishesOnly(j)'
    BY DEF NoEventTaken
  <1>9. SeenInOrder(j)'
    BY DEF SeenInOrder, Ordered, NoEventSeen, InOrder
  <1>10. HeldInOrder(j)'
    <2> SUFFICES ASSUME Carries("listener", j)'
                 PROVE  NoneSeen(j, actors["listener"].msg.n)'
      BY DEF HeldInOrder
    <2> DEFINE n == actors["listener"].msg.n
    <2>1. n \in Nat /\ NoneSeen(j, n) /\ actors'["listener"].msg.n = n
      BY <1>2, PlaceTypes DEF Ordered, HeldInOrder
    <2> QED
      BY <1>1, <2>1 DEF NoneSeen
  <1>11. SentInOrder(j)' /\ \A n \in Nat : NoneSent(j, n) => NoneSent(j, n)'
    BY <1>4, WireBehind
  <1>12. TakenInOrder(j)' /\ QueuedInOrder(j)' /\ NoneQueued(j, events)'
    <2>1. \A n \in Nat : NoneTaken(j, n) => NoneTaken(j, n)'
      BY <1>3, <1>11 DEF NoneTaken
    <2> QED
      BY <1>3, <1>11, <2>1, PlacesBehind
  <1> QED
    BY <1>8, <1>9, <1>10, <1>11, <1>12 DEF Ordered
-----------------------------------------------------------------------------
(* Steps that move an event forward *)

\* HostNotifierJob.dispatch and Caller.DispatchCall: the event is the latest, or is
\* dropped.
LEMMA EnqueueStep ==
    ASSUME IInv, IInv', NEW j \in Jobs, Ordered(j), NEW k \in EventJobs,
           events' = events + 1,
           eventChans' = [eventChans EXCEPT ![k] = TrySend(@, events + 1, JobCap)],
           UNCHANGED <<actors, wire, streams>>
    PROVE  Ordered(j)'
  <1> USE PlaceTypes
  <1>1. \A n \in Nat : NoneTaken(j, n)' <=> NoneTaken(j, n)
    BY DEF NoneTaken, NoneSent, NoneHeld, NoneSeen, Carries
  <1>2. /\ PublishesOnly(j)' /\ SeenInOrder(j)' /\ HeldInOrder(j)' /\ SentInOrder(j)'
        /\ TakenInOrder(j)'
    BY DEF Ordered, PublishesOnly, SeenInOrder, HeldInOrder, SentInOrder, TakenInOrder,
           NoneSent, NoneHeld, NoneSeen, Carries
  <1>3. NoneTaken(j, events + 1) /\ events + 1 \in Nat
    BY LaterBound DEF Ordered, NoneQueued
  <1>4. ASSUME j \in EventJobs, NEW i \in DOMAIN eventChans'[j]
        PROVE  \/ i \in DOMAIN eventChans[j] /\ eventChans'[j][i] = eventChans[j][i]
               \/ /\ eventChans'[j][i] = events + 1
                  /\ \A h \in DOMAIN eventChans'[j] : h < i =>
                       h \in DOMAIN eventChans[j] /\ eventChans'[j][h] = eventChans[j][h]
    <2>1. eventChans \in [EventJobs -> Seq(Nat)]
      BY DEF IInv, TypeOK
    <2> QED
      BY <1>3, <1>4, <2>1 DEF TrySend
  <1>5. ASSUME j \in EventJobs, NEW i \in DOMAIN eventChans[j]
        PROVE  eventChans[j][i] <= events /\ NoneTaken(j, eventChans[j][i])
    BY <1>5 DEF Ordered, NoneQueued, QueuedInOrder
  <1>6. QueuedInOrder(j)'
    <2> SUFFICES ASSUME j \in EventJobs, NEW i \in DOMAIN eventChans'[j]
                 PROVE  /\ NoneTaken(j, eventChans[j][i])'
                        /\ \A h \in DOMAIN eventChans'[j] : h < i =>
                             eventChans'[j][h] <= eventChans'[j][i]
      BY DEF QueuedInOrder
    <2> DEFINE n == eventChans'[j][i]
    <2>1. n \in Nat /\ NoneTaken(j, n)
      BY <1>3, <1>4, <1>5
    <2>2. NoneTaken(j, eventChans[j][i])'
      BY <1>1, <2>1 DEF NoneTaken, NoneSent, NoneHeld, NoneSeen
    <2>3. \A h \in DOMAIN eventChans'[j] : h < i => eventChans'[j][h] <= eventChans'[j][i]
      <3> SUFFICES ASSUME NEW h \in DOMAIN eventChans'[j], h < i
                   PROVE  eventChans'[j][h] <= eventChans'[j][i]
        OBVIOUS
      <3>1. CASE eventChans'[j][i] = events + 1
        BY <1>4, <1>5, <3>1
      <3>2. CASE i \in DOMAIN eventChans[j] /\ eventChans'[j][i] = eventChans[j][i]
        <4>1. h \in DOMAIN eventChans[j]
          <5>1. eventChans[j] \in Seq(Nat) /\ eventChans'[j] \in Seq(Nat)
            BY DEF IInv, TypeOK
          <5>2. /\ DOMAIN eventChans[j] = 1..Len(eventChans[j])
                /\ DOMAIN eventChans'[j] = 1..Len(eventChans'[j])
            BY <5>1
          <5> QED
            BY <3>2, <5>2, Len(eventChans[j]) \in Nat, Len(eventChans'[j]) \in Nat
        <4>2. eventChans'[j][h] = eventChans[j][h]
          <5>1. eventChans[j] \in Seq(Nat) /\ eventChans \in [EventJobs -> Seq(Nat)]
            BY DEF IInv, TypeOK
          <5>2. \/ eventChans'[j] = eventChans[j]
                \/ eventChans'[j] = Append(eventChans[j], events + 1)
            BY <5>1 DEF TrySend
          <5>3. CASE eventChans'[j] = Append(eventChans[j], events + 1)
            <6> DEFINE s == eventChans[j]
            <6>1. s \in Seq(Nat) /\ h \in DOMAIN s
              BY <4>1, <5>1
            <6> HIDE DEF s
            <6> HIDE PlaceTypes
            <6>2. \A e \in Nat : Append(s, e)[h] = s[h]
              BY <6>1
            <6> QED
              BY <1>3, <5>3, <6>2 DEF s
          <5> QED
            BY <5>2, <5>3
        <4> QED
          BY <3>2, <4>1, <4>2 DEF Ordered, QueuedInOrder
      <3> QED
        BY <1>4, <3>1, <3>2
    <2> QED
      BY <2>2, <2>3
  <1>7. NoneQueued(j, events)'
    <2>1. NoneTaken(j, events)'
      BY <1>1, <1>3 DEF NoneTaken, NoneSent, NoneHeld, NoneSeen
    <2>2. ASSUME j \in EventJobs, NEW i \in DOMAIN eventChans'[j]
          PROVE  eventChans'[j][i] <= events'
      BY <1>4, <1>5, <2>2
    <2> QED
      BY <2>1, <2>2 DEF NoneQueued
  <1> QED
    BY <1>2, <1>6, <1>7 DEF Ordered

\* A presence timer: the listener of the keyspace makes the latest event itself.
LEMMA TimerStep ==
    ASSUME IInv, IInv', NEW j \in Jobs, Ordered(j), TimerExpires
    PROVE  Ordered(j)'
  <1> USE PlaceTypes DEF TimerExpires, channels, broker, ActorAt
  <1> DEFINE q == [IdleActor EXCEPT !.pc = "publish", !.msg = Event("keyspace", events + 1)]
  <1>1. /\ q.pc = "publish" /\ q.msg.kind = "event" /\ q.msg.by = "keyspace"
        /\ q.msg.n = events + 1
    BY DEF IdleActor, Event
  <1>2. /\ actors' = [actors EXCEPT !["keyspace"] = q]
        /\ UNCHANGED <<wire, streams, eventChans>> /\ events' = events + 1
    OBVIOUS
  <1>3. "keyspace" \in Actors /\ "keyspace" # "listener" /\ "keyspace" \notin EventJobs
    BY DEF Actors, Jobs, EventJobs
  <1> HIDE DEF q, TimerExpires
  <1>4. actors'["keyspace"] = q /\ \A a \in Actors : a # "keyspace" => actors'[a] = actors[a]
    BY <1>2, <1>3
  <1>5. \A n \in Nat : NoneSent(j, n)' <=> NoneSent(j, n)
    BY <1>2, <1>3, <1>4 DEF NoneSent, NoneHeld, NoneSeen, Carries
  <1>6. NoneTaken(j, events + 1) /\ events + 1 \in Nat
    BY LaterBound DEF Ordered, NoneQueued
  <1>7. SeenInOrder(j)' /\ HeldInOrder(j)' /\ SentInOrder(j)'
    BY <1>2, <1>3, <1>4
    DEF Ordered, SeenInOrder, HeldInOrder, SentInOrder, NoneHeld, NoneSeen, Carries
  <1>8. CASE j # "keyspace"
    <2>1. actors'[j] = actors[j]
      BY <1>4, <1>8
    <2>2. PublishesOnly(j)' /\ TakenInOrder(j)'
      BY <1>2, <1>3, <1>4, <2>1
      DEF Ordered, PublishesOnly, TakenInOrder, NoneSent, NoneHeld, NoneSeen, Carries
    <2>3. \A n \in Nat : NoneTaken(j, n)' <=> NoneTaken(j, n)
      BY <1>5, <2>1 DEF NoneTaken, Carries
    <2>4. QueuedInOrder(j)'
      BY <1>2, <1>3, <1>4, <2>1
      DEF Ordered, QueuedInOrder, NoneTaken, NoneSent, NoneHeld, NoneSeen, Carries
    <2>5. NoneQueued(j, events)'
      <3>1. NoneTaken(j, events)'
        BY <1>2, <1>6, <2>3 DEF NoneTaken, NoneSent, NoneHeld, NoneSeen
      <3> QED
        BY <1>2, <3>1 DEF Ordered, NoneQueued
    <2> QED
      BY <1>7, <2>2, <2>4, <2>5 DEF Ordered
  <1>9. CASE j = "keyspace"
    <2>1. PublishesOnly(j)'
      BY <1>1, <1>4, <1>9 DEF PublishesOnly
    <2>2. PICK n \in Nat : n = events + 1
      BY <1>6
    <2>3. NoneSent(j, n)' /\ n = events' /\ n = actors'[j].msg.n
      BY <1>1, <1>2, <1>4, <1>5, <1>6, <1>9, <2>2 DEF NoneTaken
    <2>4. TakenInOrder(j)' /\ NoneQueued(j, events)' /\ QueuedInOrder(j)'
      BY <1>3, <1>9, <2>3
      DEF TakenInOrder, NoneQueued, NoneTaken, QueuedInOrder, NoneSent, NoneHeld, NoneSeen
    <2> QED
      BY <1>7, <2>1, <2>4 DEF Ordered
  <1> QED
    BY <1>8, <1>9

\* The places of events in a sequence that has grown by one.
LEMMA AppendPlaces ==
    ASSUME NEW S, NEW s \in Seq(S), NEW m \in S
    PROVE  \A i \in DOMAIN Append(s, m) :
             \/ i \in DOMAIN s /\ Append(s, m)[i] = s[i]
             \/ /\ Append(s, m)[i] = m
                /\ \A k \in DOMAIN Append(s, m) :
                      k < i => k \in DOMAIN s /\ Append(s, m)[k] = s[k]
  OBVIOUS

\* An event in order at the end of a sequence leaves it in order.
LEMMA AppendInOrder ==
    ASSUME NEW j, NEW s \in Seq(Message), NEW m \in Message, InOrder(s, j),
           IsEvent(m, j) => \A i \in DOMAIN s : IsEvent(s[i], j) => s[i].n <= m.n
    PROVE  InOrder(Append(s, m), j)
  <1> DEFINE t == Append(s, m)
  <1>1. \A i \in DOMAIN t : \/ i \in DOMAIN s /\ t[i] = s[i]
                            \/ /\ t[i] = m
                               /\ \A k \in DOMAIN t : k < i => k \in DOMAIN s /\ t[k] = s[k]
    BY AppendPlaces
  <1>2. \A i \in DOMAIN t : \A k \in DOMAIN s : i < k => i \in DOMAIN s /\ t[i] = s[i]
    OBVIOUS
  <1> HIDE DEF t
  <1> SUFFICES ASSUME NEW i \in DOMAIN t, NEW k \in DOMAIN t, i < k,
                      IsEvent(t[i], j), IsEvent(t[k], j)
               PROVE  t[i].n <= t[k].n
    BY DEF InOrder, t
  <1>3. CASE k \in DOMAIN s /\ t[k] = s[k]
    BY <1>2, <1>3 DEF InOrder
  <1>4. CASE t[k] = m /\ i \in DOMAIN s /\ t[i] = s[i]
    BY <1>4
  <1> QED
    BY <1>1, <1>3, <1>4

\* So does the first event that leaves it, and the others are not earlier.
LEMMA TailInOrder ==
    ASSUME NEW j, NEW s \in Seq(Message), s # <<>>, InOrder(s, j)
    PROVE  /\ InOrder(Tail(s), j)
           /\ \A i \in DOMAIN Tail(s) :
                /\ i + 1 \in DOMAIN s /\ Tail(s)[i] = s[i + 1]
                /\ IsEvent(Head(s), j) /\ IsEvent(Tail(s)[i], j) => Head(s).n <= Tail(s)[i].n
  <1>1. /\ \A i \in DOMAIN Tail(s) : i + 1 \in DOMAIN s /\ Tail(s)[i] = s[i + 1] /\ 1 < i + 1
        /\ \A i, k \in DOMAIN Tail(s) : i < k => i + 1 < k + 1
        /\ Head(s) = s[1] /\ 1 \in DOMAIN s
    OBVIOUS
  <1>2. InOrder(Tail(s), j)
    BY <1>1 DEF InOrder
  <1>3. ASSUME NEW i \in DOMAIN Tail(s), IsEvent(Head(s), j), IsEvent(Tail(s)[i], j)
        PROVE  Head(s).n <= Tail(s)[i].n
    BY <1>1, <1>3 DEF InOrder
  <1> QED
    BY <1>1, <1>2, <1>3

\* HostNotifierJob and Caller: the job takes the first event of its channel.
LEMMA TakeStep ==
    ASSUME IInv, IInv', NEW j \in Jobs, Ordered(j), NEW k \in EventJobs, TakeEvent(k)
    PROVE  Ordered(j)'
  <1> USE PlaceTypes
  <1> DEFINE q == [IdleActor EXCEPT !.pc = "publish", !.msg = Event(k, Head(eventChans[k]))]
  <1>1. /\ q.pc = "publish" /\ q.msg.kind = "event" /\ q.msg.by = k
        /\ q.msg.n = Head(eventChans[k])
    BY DEF IdleActor, Event
  <1>2. /\ actors' = [actors EXCEPT ![k] = q]
        /\ UNCHANGED <<wire, streams, events>>
        /\ eventChans' = [eventChans EXCEPT ![k] = Tail(@)]
        /\ actors[k].pc = "idle" /\ eventChans[k] # <<>>
    BY DEF TakeEvent, ActorAt, queue, broker
  <1>3. k \in Actors /\ k # "listener"
    OBVIOUS
  <1> HIDE DEF q
  <1>4. actors'[k] = q /\ \A a \in Actors : a # k => actors'[a] = actors[a]
    BY <1>2, <1>3
  <1>5. \A n \in Nat : NoneSent(j, n)' <=> NoneSent(j, n)
    BY <1>2, <1>3, <1>4 DEF NoneSent, NoneHeld, NoneSeen, Carries
  <1>6. SeenInOrder(j)' /\ HeldInOrder(j)' /\ SentInOrder(j)'
    BY <1>2, <1>3, <1>4
    DEF Ordered, SeenInOrder, HeldInOrder, SentInOrder, NoneHeld, NoneSeen, Carries
  <1>7. CASE j # k
    <2>1. actors'[j] = actors[j] /\ (j \in EventJobs => eventChans'[j] = eventChans[j])
      BY <1>2, <1>4, <1>7 DEF IInv, TypeOK
    <2>2. PublishesOnly(j)' /\ TakenInOrder(j)'
      BY <1>2, <1>3, <1>4, <2>1
      DEF Ordered, PublishesOnly, TakenInOrder, NoneSent, NoneHeld, NoneSeen, Carries
    <2>3. QueuedInOrder(j)' /\ NoneQueued(j, events)'
      BY <1>2, <1>3, <1>4, <2>1
      DEF Ordered, QueuedInOrder, NoneQueued, NoneTaken, NoneSent, NoneHeld, NoneSeen, Carries
    <2> QED
      BY <1>6, <2>2, <2>3 DEF Ordered
  <1>8. CASE j = k
    <2>1. /\ eventChans'[j] = Tail(eventChans[j]) /\ eventChans[j] \in Seq(Nat)
          /\ eventChans[j] # <<>>
      BY <1>2, <1>8 DEF IInv, TypeOK
    <2>2. /\ \A i \in DOMAIN eventChans'[j] :
               /\ i + 1 \in DOMAIN eventChans[j] /\ eventChans'[j][i] = eventChans[j][i + 1]
               /\ 1 < i + 1
          /\ \A i, h \in DOMAIN eventChans'[j] : h < i => h + 1 < i + 1
          /\ Head(eventChans[j]) = eventChans[j][1] /\ 1 \in DOMAIN eventChans[j]
      BY <2>1
    <2>3. PICK n \in Nat : n = eventChans[j][1]
      BY <2>2, <1>8
    <2>4. actors'[j].msg.n = n /\ actors'[j].pc = "publish" /\ actors'[j].msg.by = j
      BY <1>1, <1>4, <1>8, <2>2, <2>3
    <2>5. /\ NoneTaken(j, n)
          /\ \A i \in DOMAIN eventChans'[j] :
               /\ NoneTaken(j, eventChans[j][i + 1]) /\ n <= eventChans'[j][i]
               /\ eventChans'[j][i] <= events
      BY <1>8, <2>2, <2>3 DEF Ordered, QueuedInOrder, NoneQueued
    <2>6. PublishesOnly(j)'
      BY <2>4 DEF PublishesOnly
    <2>7. TakenInOrder(j)'
      <3>1. NoneSent(j, n)'
        BY <1>5, <2>5 DEF NoneTaken
      <3> QED
        BY <2>4, <3>1 DEF TakenInOrder, NoneSent, NoneHeld, NoneSeen
    <2>8. QueuedInOrder(j)'
      <3>1. ASSUME NEW i \in DOMAIN eventChans'[j] PROVE NoneTaken(j, eventChans[j][i])'
        <4>1. PICK m \in Nat : m = eventChans'[j][i]
          BY <1>8, <2>2
        <4>2. NoneSent(j, m)' /\ n <= m
          BY <1>5, <2>2, <2>5, <4>1 DEF NoneTaken
        <4> QED
          BY <2>4, <4>1, <4>2 DEF NoneTaken, NoneSent, NoneHeld, NoneSeen
      <3>2. ASSUME NEW i \in DOMAIN eventChans'[j], NEW h \in DOMAIN eventChans'[j], h < i
            PROVE  eventChans'[j][h] <= eventChans'[j][i]
        BY <1>8, <2>2, <3>2 DEF Ordered, QueuedInOrder
      <3> QED
        BY <3>1, <3>2 DEF QueuedInOrder
    <2>9. NoneQueued(j, events)'
      <3>1. PICK m \in Nat : m = events
        OBVIOUS
      <3>2. NoneSent(j, m)' /\ n <= m /\ m = events'
        BY <1>2, <1>5, <1>8, <2>2, <2>3, <3>1 DEF Ordered, NoneQueued, NoneTaken
      <3> QED
        BY <1>2, <2>4, <2>5, <3>2 DEF NoneQueued, NoneTaken, NoneSent, NoneHeld, NoneSeen
    <2> QED
      BY <1>6, <2>6, <2>7, <2>8, <2>9 DEF Ordered
  <1> QED
    BY <1>7, <1>8

\* Broker.Publish: the event of job a is the last on the wire.
LEMMA PublishStep ==
    ASSUME IInv, IInv', NEW j \in Jobs, Ordered(j), NEW a \in Jobs, PublishesOnly(a),
           ActorAt(a, "publish"), wire' = Append(wire, actors[a].msg), AfterPublish(a),
           UNCHANGED <<events, eventChans, streams>>
    PROVE  Ordered(j)'
  <1> USE PlaceTypes
  <1> DEFINE m == actors[a].msg
  <1>1. /\ actors'[a].pc \in {"idle", "count", "notify"}
        /\ \A b \in Actors : b # a => actors'[b] = actors[b]
    BY AfterPublishMoves DEF ActorMoves
  <1>2. IsEvent(m, j) => a = j /\ Carries(j, j) /\ NoneSent(j, m.n)
    BY DEF IsEvent, PublishesOnly, ActorAt, Carries, Ordered, TakenInOrder
  <1>3. Carries(j, j)' => j # a /\ Carries(j, j) /\ actors'[j] = actors[j] /\ ~IsEvent(m, j)
    BY <1>1, <1>2 DEF Carries
  <1>4. m \in Message /\ wire \in Seq(Message) /\ wire' = Append(wire, m)
    OBVIOUS
  <1> HIDE DEF m
  <1>5. \A i \in DOMAIN wire' : \/ i \in DOMAIN wire /\ wire'[i] = wire[i]
                                \/ wire'[i] = m
    BY <1>4, AppendPlaces
  <1>6. \A n \in Nat : NoneHeld(j, n)' <=> NoneHeld(j, n)
    BY <1>1 DEF NoneHeld, NoneSeen, Carries
  <1>7. ASSUME NEW n \in Nat, NoneSent(j, n), IsEvent(m, j) => m.n <= n
        PROVE  NoneSent(j, n)'
    BY <1>5, <1>6, <1>7 DEF NoneSent
  <1>8. ASSUME NEW n \in Nat, NoneTaken(j, n) PROVE NoneTaken(j, n)'
    <2>1. NoneSent(j, n)'
      BY <1>2, <1>7, <1>8 DEF NoneTaken, m
    <2> QED
      BY <1>3, <1>8, <2>1 DEF NoneTaken
  <1>9. SeenInOrder(j)' /\ HeldInOrder(j)'
    BY <1>1 DEF Ordered, SeenInOrder, HeldInOrder, NoneSeen, Carries
  <1>10. PublishesOnly(j)'
    BY <1>1 DEF Ordered, PublishesOnly
  <1>11. SentInOrder(j)'
    <2>1. InOrder(wire', j)
      BY <1>2, <1>4, AppendInOrder DEF Ordered, SentInOrder, NoneSent
    <2>2. ASSUME NEW i \in DOMAIN wire', IsEvent(wire'[i], j) PROVE NoneHeld(j, wire[i].n)'
      <3>1. NoneHeld(j, wire'[i].n) /\ wire'[i].n \in Nat
        BY <1>2, <1>5, <2>2 DEF Ordered, SentInOrder, NoneSent, m
      <3>2. PICK n \in Nat : n = wire'[i].n
        BY <3>1
      <3>3. NoneHeld(j, n)'
        BY <1>6, <3>1, <3>2
      <3> QED
        BY <3>2, <3>3 DEF NoneHeld, NoneSeen
    <2> QED
      BY <2>1, <2>2 DEF SentInOrder
  <1>12. TakenInOrder(j)' /\ QueuedInOrder(j)' /\ NoneQueued(j, events)'
    BY <1>3, <1>7, <1>8, PlacesBehind
  <1> QED
    BY <1>9, <1>10, <1>11, <1>12 DEF Ordered

\* The listener takes the first message of the wire, and dispatches it to the
\* subscribers, if there are any.
LEMMA ReceiveStep ==
    ASSUME IInv, IInv', NEW j \in Jobs, Ordered(j), Receive
    PROVE  Ordered(j)'
  <1> USE PlaceTypes
  <1> DEFINE q == [IdleActor EXCEPT !.pc = "local", !.msg = Head(wire), !.todo = subs]
  <1>1. q.msg = Head(wire)
    BY DEF IdleActor
  <1>2. /\ actors["listener"].pc = "idle" /\ wire # <<>> /\ wire' = Tail(wire)
        /\ UNCHANGED <<events, eventChans, streams>>
        /\ actors' = actors \/ actors' = [actors EXCEPT !["listener"] = q]
    BY DEF Receive, ActorAt, queue, channels
  <1> HIDE DEF q
  <1>3. /\ \A b \in Actors : b # "listener" => actors'[b] = actors[b]
        /\ actors'[j] = actors[j]
        /\ actors'["listener"] = q \/ actors'["listener"].pc = "idle"
    BY <1>2
  <1>4. /\ InOrder(wire', j)
        /\ \A i \in DOMAIN wire' :
             /\ i + 1 \in DOMAIN wire /\ wire'[i] = wire[i + 1]
             /\ IsEvent(Head(wire), j) /\ IsEvent(wire'[i], j) => Head(wire).n <= wire'[i].n
    <2>1. wire \in Seq(Message) /\ wire # <<>> /\ InOrder(wire, j) /\ wire' = Tail(wire)
      BY <1>2 DEF Ordered, SentInOrder
    <2> HIDE PlaceTypes
    <2> QED
      BY <2>1, TailInOrder
  <1>5. Head(wire) = wire[1] /\ 1 \in DOMAIN wire
    BY <1>2
  <1>6. Carries("listener", j)' => IsEvent(Head(wire), j) /\ actors'["listener"].msg = Head(wire)
    BY <1>1, <1>3 DEF Carries
  <1>7. \A n \in Nat : NoneSeen(j, n)' <=> NoneSeen(j, n)
    BY <1>2 DEF NoneSeen
  <1>8. ASSUME NEW n \in Nat, NoneSent(j, n) PROVE NoneSent(j, n)'
    <2>1. NoneHeld(j, n)'
      BY <1>5, <1>6, <1>7, <1>8 DEF NoneHeld, NoneSent
    <2> QED
      BY <1>4, <1>8, <2>1 DEF NoneSent
  <1>9. ASSUME NEW n \in Nat, NoneTaken(j, n) PROVE NoneTaken(j, n)'
    BY <1>3, <1>8, <1>9 DEF NoneTaken, Carries
  <1>10. PublishesOnly(j)' /\ SeenInOrder(j)'
    BY <1>2, <1>3 DEF Ordered, PublishesOnly, SeenInOrder
  <1>11. HeldInOrder(j)'
    <2> SUFFICES ASSUME Carries("listener", j)'
                 PROVE  NoneSeen(j, actors["listener"].msg.n)'
      BY DEF HeldInOrder
    <2>1. PICK n \in Nat : n = Head(wire).n
      BY <1>5
    <2>2. NoneSeen(j, n)' /\ actors'["listener"].msg.n = n
      BY <1>5, <1>6, <1>7, <2>1 DEF Ordered, SentInOrder, NoneHeld
    <2> QED
      BY <2>2 DEF NoneSeen
  <1>12. SentInOrder(j)'
    <2>1. ASSUME NEW i \in DOMAIN wire', IsEvent(wire'[i], j) PROVE NoneHeld(j, wire[i].n)'
      <3>1. PICK n \in Nat : n = wire'[i].n
        BY <1>4, <2>1
      <3>2. NoneSeen(j, n)
        BY <1>4, <2>1, <3>1 DEF Ordered, SentInOrder, NoneHeld
      <3>3. NoneHeld(j, n)'
        BY <1>4, <1>6, <1>7, <2>1, <3>1, <3>2 DEF NoneHeld
      <3> QED
        BY <3>1, <3>3 DEF NoneHeld, NoneSeen
    <2> QED
      BY <1>4, <2>1 DEF SentInOrder
  <1>13. TakenInOrder(j)' /\ QueuedInOrder(j)' /\ NoneQueued(j, events)'
    <2>1. Carries(j, j)' => Carries(j, j) /\ actors'[j].msg = actors[j].msg
      BY <1>3 DEF Carries
    <2> QED
      BY <1>2, <1>8, <1>9, <2>1, PlacesBehind
  <1> QED
    BY <1>10, <1>11, <1>12, <1>13 DEF Ordered

\* Subscriber.Send: the listener's event is the last in the channel, or is dropped.
LEMMA SendStep ==
    ASSUME IInv, IInv', NEW j \in Jobs, Ordered(j), \A k \in Jobs : PublishesOnly(k),
           NEW a \in Actors, NEW c \in Clients, SendEvent(a, c)
    PROVE  Ordered(j)'
  <1> USE PlaceTypes
  <1> DEFINE m == actors["listener"].msg
  <1>1. /\ a = "listener" /\ actors["listener"].pc = "local" /\ m.kind = "event"
        /\ streams' = [streams EXCEPT ![c].fifo = TrySend(@, m, FifoCap)]
        /\ Sent("listener", c) /\ UNCHANGED <<wire, events, eventChans>>
    BY DEF SendEvent, ActorAt, PublishesOnly, Actors, queue, channels
  <1>2. /\ \A b \in Actors : b # "listener" => actors'[b] = actors[b]
        /\ actors'["listener"].pc \in {"publish", "local", "signal"}
             => actors'["listener"].msg = m
    <2>1. ActorMoves("listener")
      BY <1>1, SentMoves
    <2>2. CASE ActorIdles("listener")
      BY <2>1, <2>2 DEF ActorMoves, ActorIdles, IdleActor
    <2>3. CASE actors' = [actors EXCEPT !["listener"].pc = "local",
                                        !["listener"].todo = @ \ {c}, !["listener"].at = {}]
      BY <2>1, <2>3 DEF ActorMoves, ActorType
    <2> QED
      BY <1>1, <2>2, <2>3 DEF Sent
  <1>3. m \in Message /\ m.n \in Nat
    OBVIOUS
  <1> DEFINE old(d) == streams[d].fifo
             new(d) == streams'[d].fifo
  <1>4. \A d \in Clients : /\ streams'[d].got = streams[d].got
                           /\ new(d) = old(d) \/ new(d) = Append(old(d), m)
                           /\ old(d) \in Seq(Message)
    BY <1>1 DEF TrySend, StreamType
  <1>5. \A d \in Clients : \A i \in DOMAIN new(d) :
          (i \in DOMAIN old(d) /\ new(d)[i] = old(d)[i]) \/ new(d)[i] = m
    <2> HIDE DEF m, old, new
    <2> SUFFICES ASSUME NEW d \in Clients
                 PROVE  \A i \in DOMAIN new(d) :
                          (i \in DOMAIN old(d) /\ new(d)[i] = old(d)[i]) \/ new(d)[i] = m
      OBVIOUS
    <2>1. old(d) \in Seq(Message) /\ m \in Message
      BY <1>3, <1>4
    <2> HIDE PlaceTypes
    <2>2. CASE new(d) = Append(old(d), m)
      BY <2>1, <2>2, AppendPlaces
    <2> QED
      BY <1>4, <2>2
  <1>6. IsEvent(m, j) => Carries("listener", j) /\ NoneSeen(j, m.n)
    BY <1>1 DEF Carries, Ordered, HeldInOrder
  <1>7. Carries("listener", j)' => IsEvent(m, j) /\ actors'["listener"].msg = m
    BY <1>2 DEF Carries, IsEvent
  <1>8. Carries(j, j)' => Carries(j, j) /\ actors'[j].msg = actors[j].msg
    BY <1>2 DEF Carries
  <1>9. PublishesOnly(j)'
    BY <1>2 DEF Ordered, PublishesOnly
  <1> HIDE DEF m, old, new
  <1>10. ASSUME NEW n \in Nat, NoneSeen(j, n), IsEvent(m, j) => m.n <= n
         PROVE  NoneSeen(j, n)'
    BY <1>4, <1>5, <1>10 DEF NoneSeen, old, new
  <1>11. \A n \in Nat : NoneHeld(j, n) => NoneHeld(j, n)'
    <2> SUFFICES ASSUME NEW n \in Nat, NoneHeld(j, n) PROVE NoneHeld(j, n)'
      OBVIOUS
    <2>1. NoneSeen(j, n)'
      BY <1>6, <1>10 DEF NoneHeld, m
    <2> QED
      BY <1>6, <1>7, <2>1 DEF NoneHeld, m
  <1>12. SeenInOrder(j)'
    <2> SUFFICES ASSUME NEW d \in Clients
                 PROVE  /\ InOrder(new(d), j)
                        /\ \A i \in DOMAIN new(d) :
                              /\ new(d)[i].kind = "event"
                              /\ IsEvent(new(d)[i], j) => streams'[d].got[j] <= new(d)[i].n
      BY DEF SeenInOrder, new
    <2>1. /\ InOrder(old(d), j)
          /\ \A i \in DOMAIN old(d) :
                /\ old(d)[i].kind = "event"
                /\ IsEvent(old(d)[i], j) => streams[d].got[j] <= old(d)[i].n
      BY DEF Ordered, SeenInOrder, old
    <2>2. IsEvent(m, j) =>
            /\ streams[d].got[j] <= m.n
            /\ \A i \in DOMAIN old(d) : IsEvent(old(d)[i], j) => old(d)[i].n <= m.n
      BY <1>6 DEF NoneSeen, old
    <2>3. InOrder(new(d), j)
      BY <1>3, <1>4, <2>1, <2>2, AppendInOrder
    <2> QED
      BY <1>1, <1>4, <1>5, <2>1, <2>2, <2>3 DEF m
  <1>13. HeldInOrder(j)'
    <2> SUFFICES ASSUME Carries("listener", j)'
                 PROVE  NoneSeen(j, actors["listener"].msg.n)'
      BY DEF HeldInOrder
    <2>1. PICK n \in Nat : n = m.n
      BY <1>3
    <2>2. NoneSeen(j, n)' /\ actors'["listener"].msg.n = n
      BY <1>6, <1>7, <1>10, <2>1
    <2> QED
      BY <2>2 DEF NoneSeen
  <1>14. SentInOrder(j)' /\ \A n \in Nat : NoneSent(j, n) => NoneSent(j, n)'
    BY <1>1, <1>11, WireBehind
  <1>15. TakenInOrder(j)' /\ QueuedInOrder(j)' /\ NoneQueued(j, events)'
    <2>1. \A n \in Nat : NoneTaken(j, n) => NoneTaken(j, n)'
      BY <1>8, <1>14 DEF NoneTaken
    <2> QED
      BY <1>1, <1>8, <1>14, <2>1, PlacesBehind
  <1> QED
    BY <1>9, <1>12, <1>13, <1>14, <1>15 DEF Ordered

\* The writer takes the first event of its channel, and shows it to the client.
LEMMA FrameStep ==
    ASSUME IInv, IInv', NEW j \in Jobs, Ordered(j), NEW c \in Clients, TakeEventFrame(c)
    PROVE  Ordered(j)' /\ \A d \in Clients : streams'[d].got[j] >= streams[d].got[j]
  <1> USE PlaceTypes
  <1> DEFINE s == streams[c].fifo
             m == Head(s)
  <1>1. /\ s # <<>> /\ s \in Seq(Message) /\ m = s[1] /\ 1 \in DOMAIN s
        /\ UNCHANGED <<wire, events, eventChans, actors>>
    BY DEF TakeEventFrame, queue, channels
  <1>2. /\ streams'[c].fifo = Tail(s)
        /\ streams'[c].got[j] = IF IsEvent(m, j) THEN m.n ELSE streams[c].got[j]
        /\ \A d \in Clients : d # c => streams'[d] = streams[d]
    <2>1. m.kind = "event"
      BY <1>1 DEF Ordered, SeenInOrder
    <2>2. streams[c] \in StreamType /\ streams[c].got \in [Jobs -> Nat]
      BY DEF StreamType
    <2> QED
      BY <2>1, <2>2 DEF TakeEventFrame, IsEvent, StreamType
  <1>3. /\ InOrder(s, j)
        /\ \A i \in DOMAIN s : /\ s[i].kind = "event"
                               /\ IsEvent(s[i], j) => streams[c].got[j] <= s[i].n
    BY DEF Ordered, SeenInOrder
  <1> HIDE DEF s
  <1>4. /\ InOrder(Tail(s), j)
        /\ \A i \in DOMAIN Tail(s) :
             /\ i + 1 \in DOMAIN s /\ Tail(s)[i] = s[i + 1]
             /\ IsEvent(m, j) /\ IsEvent(Tail(s)[i], j) => m.n <= Tail(s)[i].n
    BY <1>1, <1>3, TailInOrder
  <1> HIDE DEF m
  <1>5. \A n \in Nat : NoneSeen(j, n) => NoneSeen(j, n)'
    <2> SUFFICES ASSUME NEW n \in Nat, NoneSeen(j, n), NEW d \in Clients
                 PROVE  /\ streams'[d].got[j] <= n
                        /\ \A i \in DOMAIN streams'[d].fifo :
                              IsEvent(streams'[d].fifo[i], j) => streams'[d].fifo[i].n <= n
      BY DEF NoneSeen
    <2>1. CASE d = c
      <3>1. \A i \in DOMAIN s : IsEvent(s[i], j) => s[i].n <= n
        BY DEF NoneSeen, s
      <3>2. streams[c].got[j] <= n
        BY DEF NoneSeen
      <3> QED
        BY <1>1, <1>2, <1>4, <2>1, <3>1, <3>2
    <2>2. CASE d # c
      BY <1>2, <2>2 DEF NoneSeen
    <2> QED
      BY <2>1, <2>2
  <1>6. SeenInOrder(j)' /\ \A d \in Clients : streams'[d].got[j] >= streams[d].got[j]
    <2> SUFFICES ASSUME NEW d \in Clients
                 PROVE  /\ InOrder(streams'[d].fifo, j)
                        /\ \A i \in DOMAIN streams'[d].fifo :
                              /\ streams'[d].fifo[i].kind = "event"
                              /\ IsEvent(streams'[d].fifo[i], j)
                                   => streams'[d].got[j] <= streams'[d].fifo[i].n
                        /\ streams'[d].got[j] >= streams[d].got[j]
      BY DEF SeenInOrder
    <2>1. CASE d = c
      <3>1. \A i \in DOMAIN Tail(s) :
              /\ Tail(s)[i].kind = "event"
              /\ IsEvent(Tail(s)[i], j) => /\ streams[c].got[j] <= Tail(s)[i].n
                                           /\ IsEvent(m, j) => m.n <= Tail(s)[i].n
        BY <1>3, <1>4
      <3>2. IsEvent(m, j) => streams[c].got[j] <= m.n
        BY <1>1, <1>3
      <3>3. m.n \in Nat /\ streams[c].got[j] \in Nat
        BY <1>1 DEF s
      <3>4. streams'[c].got[j] >= streams[c].got[j]
        BY <1>2, <3>2, <3>3
      <3>5. \A i \in DOMAIN Tail(s) :
              IsEvent(Tail(s)[i], j) => streams'[c].got[j] <= Tail(s)[i].n
        BY <1>2, <3>1
      <3> HIDE PlaceTypes
      <3> QED
        BY <1>2, <1>4, <2>1, <3>1, <3>4, <3>5
    <2>2. CASE d # c
      <3>1. streams[d].got[j] \in Nat /\ streams'[d] = streams[d]
        BY <1>2, <2>2
      <3>2. /\ InOrder(streams[d].fifo, j)
            /\ \A i \in DOMAIN streams[d].fifo :
                  /\ streams[d].fifo[i].kind = "event"
                  /\ IsEvent(streams[d].fifo[i], j)
                       => streams[d].got[j] <= streams[d].fifo[i].n
        BY DEF Ordered, SeenInOrder
      <3> HIDE PlaceTypes
      <3> QED
        BY <3>1, <3>2
    <2> QED
      BY <2>1, <2>2
  <1>7. PublishesOnly(j)' /\ HeldInOrder(j)'
    <2>1. PublishesOnly(j)'
      BY <1>1 DEF Ordered, PublishesOnly
    <2>2. PICK n \in Nat : n = actors["listener"].msg.n
      OBVIOUS
    <2>3. Carries("listener", j)' => NoneSeen(j, n)' /\ actors'["listener"].msg.n = n
      BY <1>1, <1>5, <2>2 DEF Ordered, HeldInOrder, Carries
    <2> QED
      BY <2>1, <2>3 DEF HeldInOrder, NoneSeen
  <1>8. \A n \in Nat : NoneHeld(j, n) => NoneHeld(j, n)'
    BY <1>1, <1>5 DEF NoneHeld, Carries
  <1>9. SentInOrder(j)' /\ \A n \in Nat : NoneSent(j, n) => NoneSent(j, n)'
    BY <1>1, <1>8, WireBehind
  <1>10. TakenInOrder(j)' /\ QueuedInOrder(j)' /\ NoneQueued(j, events)'
    <2>1. \A n \in Nat : NoneTaken(j, n) => NoneTaken(j, n)'
      BY <1>1, <1>9 DEF NoneTaken, Carries
    <2>2. Carries(j, j)' => Carries(j, j) /\ actors'[j].msg = actors[j].msg
      BY <1>1 DEF Carries
    <2> QED
      BY <1>1, <1>9, <2>1, <2>2, PlacesBehind
  <1> QED
    BY <1>6, <1>7, <1>9, <1>10 DEF Ordered
-----------------------------------------------------------------------------
(* The steps of the system *)

\* An actor that is left without an event takes up none.
LEMMA ActorQuiet ==
    ASSUME \A k \in Jobs : PublishesOnly(k), NEW a \in Actors,
           \A b \in Actors : b # a => actors'[b] = actors[b],
           actors'[a].pc \in {"publish", "local", "signal"} =>
              \/ actors'[a].msg.kind = "count"
              \/ actors[a].pc \in {"publish", "local", "signal"} /\ actors'[a].msg = actors[a].msg,
           a \in Jobs => PublishesOnly(a)'
    PROVE  NoEventTaken
  <1>1. Jobs \subseteq Actors
    BY DEF Actors
  <1> QED
    BY <1>1 DEF NoEventTaken, PublishesOnly

\* A job that counts, begins to count, notifies, waits or exits; a publication that
\* is lost.
LEMMA JobQuiet ==
    ASSUME IInv, \A k \in Jobs : PublishesOnly(k), NEW a \in Jobs,
           \/ a = "position" /\ TakePosition
           \/ a = "sweeper" /\ Sweep
           \/ CountLine(a) \/ Notify(a) \/ JobExits(a)
           \/ Publish(a) /\ ~linkUp
    PROVE  /\ NoEventTaken /\ NoEventSeen
           /\ UNCHANGED <<wire, events, eventChans>>
  <1> DEFINE Away == /\ \A b \in Actors : b # a => actors'[b] = actors[b]
                    /\ actors'[a].pc \notin {"publish", "local", "signal"}
  <1>1. a \in Actors /\ actors \in [Actors -> ActorType]
    BY PlaceTypes
  <1>2. UNCHANGED <<streams, wire, events, eventChans>>
    BY DEF TakePosition, Sweep, CountLine, Notify, JobExits, Publish, queue, channels, broker
  <1>3. NoEventSeen
    BY <1>2 DEF NoEventSeen
  <1>4. CASE Away
    BY <1>1, <1>2, <1>3, <1>4, ActorQuiet DEF PublishesOnly
  <1>5. CASE a = "position" /\ TakePosition
    <2>1. CASE ActorGoto("position", "count")
      BY <1>1, <1>4, <1>5, <2>1, ActorGotoMoves DEF ActorMoves
    <2>2. CASE UNCHANGED actors
      BY <1>1, <1>4, <1>5, <2>2 DEF TakePosition, ActorAt
    <2> QED
      BY <1>5, <2>1, <2>2 DEF TakePosition
  <1>6. CASE a = "sweeper" /\ Sweep
    BY <1>1, <1>4, <1>6, ActorGotoMoves DEF Sweep, ActorMoves
  <1>7. CASE CountLine(a)
    <2>1. CASE ActorIdles(a)
      BY <1>1, <1>4, <2>1, IdlesMoves DEF ActorMoves
    <2>2. CASE actors' = [actors EXCEPT ![a].pc = "publish", ![a].msg = Count(a, line)]
      <3>1. /\ \A b \in Actors : b # a => actors'[b] = actors[b]
            /\ actors'[a].pc = "publish" /\ actors'[a].msg = Count(a, line)
        BY <1>1, <2>2 DEF ActorType
      <3>2. actors'[a].msg.kind = "count" /\ actors'[a].msg.by = a
        BY <3>1 DEF Count
      <3>3. PublishesOnly(a)'
        BY <3>1, <3>2 DEF PublishesOnly
      <3>4. NoEventTaken
        BY <1>1, <3>1, <3>2, <3>3, ActorQuiet
      <3> QED
        BY <1>2, <1>3, <3>4
    <2> QED
      BY <1>7, <2>1, <2>2 DEF CountLine
  <1>8. CASE Notify(a)
    <2>1. CASE ActorIdles(a)
      BY <1>1, <1>4, <2>1, IdlesMoves DEF ActorMoves
    <2>2. CASE actors' = [actors EXCEPT ![a] = [IdleActor EXCEPT !.pc = "exited"]]
      BY <1>1, <1>4, <2>2, ActorIdlesMoves DEF ActorMoves
    <2> QED
      BY <1>8, <2>1, <2>2 DEF Notify
  <1>9. CASE JobExits(a)
    BY <1>1, <1>4, <1>9, ActorIdlesMoves DEF JobExits, ActorMoves
  <1>10. CASE Publish(a) /\ ~linkUp
    BY <1>1, <1>4, <1>10, AfterPublishMoves DEF Publish, ActorMoves
  <1> QED
    BY <1>2, <1>3, <1>4, <1>5, <1>6, <1>7, <1>8, <1>9, <1>10

\* The steps outside the streams and their actors.
Aside ==
    \/ \E h \in Handlers : DispatchPosition(h) \/ InvalidateSnapshot(h) \/ StartRequest(h)
    \/ DispatchOther \/ ReadStatus \/ FillSnapshot \/ SnapshotExpires
    \/ LinkDrops \/ Reconnect
    \/ StopServing \/ CancelContext \/ ClosePool \/ WorkerTakes \/ WorkerDone
    \/ StopProcess

\* They move no event.
LEMMA AsideQuiet ==
    ASSUME Aside \/ UNCHANGED vars, \A k \in Jobs : PublishesOnly(k)
    PROVE  /\ NoEventTaken /\ NoEventSeen /\ wire' \in {wire, <<>>}
           /\ UNCHANGED <<events, eventChans>>
  <1>1. /\ UNCHANGED <<actors, streams, events, eventChans>>
        /\ wire' \in {wire, <<>>}
    BY DEF Aside, DispatchPosition, InvalidateSnapshot, StartRequest, DispatchOther, ReadStatus,
           FillSnapshot, SnapshotExpires, LinkDrops, Reconnect, StopServing, CancelContext,
           ClosePool, WorkerTakes, WorkerDone, StopProcess, vars, queue, channels, broker,
           process, history
  <1> QED
    BY <1>1 DEF NoEventTaken, NoEventSeen, PublishesOnly

\* The steps of a stream, but for the frame of an event, of its subscription and of
\* the listener's counts.
LEMMA StreamQuiet ==
    ASSUME IInv, \A k \in Jobs : PublishesOnly(k), NEW c \in Clients,
           \/ Connect(c) \/ SendSnapshot(c) \/ TakeSignal(c) \/ DrainLatest(c)
           \/ StreamEnds(c) \/ WriteFails(c) \/ Subscribe(c) \/ Unsubscribe(c)
           \/ BrokerShutdown
    PROVE  /\ NoEventTaken /\ NoEventSeen
           /\ UNCHANGED <<wire, events, eventChans>>
  <1>1. UNCHANGED <<actors, wire, events, eventChans>>
    BY DEF Connect, SendSnapshot, TakeSignal, DrainLatest, StreamEnds, WriteFails, Subscribe,
           Unsubscribe, BrokerShutdown, queue, channels
  <1>2. NoEventTaken
    BY <1>1 DEF NoEventTaken, PublishesOnly
  <1>3. streams \in [Clients -> StreamType]
    BY PlaceTypes
  <1>4. NoEventSeen
    <2> DEFINE s == streams[c]
    <2>0. s \in StreamType
      BY <1>3
    <2>1. \A q : streams' = [streams EXCEPT ![c] = q] /\ q.got = s.got /\ q.fifo = s.fifo
                  => NoEventSeen
      BY <1>3 DEF NoEventSeen
    <2>2. CASE Connect(c) \/ StreamEnds(c) \/ WriteFails(c)
      <3>1. PICK l \in {"asked", "unsubscribe"} :
              streams' = [streams EXCEPT ![c] = [s EXCEPT !.pc = l]]
        BY <2>2 DEF Connect, StreamEnds, WriteFails, StreamGoto
      <3> QED
        BY <2>0, <2>1, <3>1 DEF StreamType
    <2>5. CASE SendSnapshot(c)
      <3> DEFINE q == [s EXCEPT !.pc = "loop", !.shown = IF cache # 0 THEN cache ELSE line]
      <3>1. streams' = [streams EXCEPT ![c] = q] /\ q.got = s.got /\ q.fifo = s.fifo
        BY <2>0, <2>5 DEF SendSnapshot, StreamType
      <3> QED
        BY <2>1, <3>1
    <2>6. CASE TakeSignal(c)
      <3> DEFINE q == [s EXCEPT !.pc = "drain", !.signal = FALSE]
      <3>1. streams' = [streams EXCEPT ![c] = q] /\ q.got = s.got /\ q.fifo = s.fifo
        BY <2>0, <2>6 DEF TakeSignal, StreamType
      <3> QED
        BY <2>1, <3>1
    <2>7. CASE DrainLatest(c)
      <3> DEFINE q == [s EXCEPT !.pc = "loop", !.latest = 0,
                                !.shown = IF s.latest # 0 THEN s.latest ELSE @]
      <3>1. streams' = [streams EXCEPT ![c] = q] /\ q.got = s.got /\ q.fifo = s.fifo
        BY <2>0, <2>7 DEF DrainLatest, StreamType
      <3> QED
        BY <2>1, <3>1
    <2>8. CASE Subscribe(c)
      <3> DEFINE q == [s EXCEPT !.pc = "snapshot", !.closed = FALSE]
      <3>1. streams' = [streams EXCEPT ![c] = q] /\ q.got = s.got /\ q.fifo = s.fifo
        BY <2>0, <2>8 DEF Subscribe, StreamType
      <3> QED
        BY <2>1, <3>1
    <2>3. CASE Unsubscribe(c)
      BY <1>3, <2>3 DEF NoEventSeen, Unsubscribe, NoStream
    <2>4. CASE BrokerShutdown
      BY <1>3, <2>4 DEF NoEventSeen, BrokerShutdown, StreamType
    <2> QED
      BY <2>2, <2>3, <2>4, <2>5, <2>6, <2>7, <2>8
  <1> QED
    BY <1>1, <1>2, <1>4

\* A count that is sent to a subscriber.
LEMMA CountQuiet ==
    ASSUME IInv, \A k \in Jobs : PublishesOnly(k), NEW a \in Actors, NEW c \in Clients,
           StoreLatest(a, c) \/ SignalWriter(a, c)
    PROVE  /\ NoEventTaken /\ NoEventSeen
           /\ UNCHANGED <<wire, events, eventChans>>
  <1>1. a = "listener" /\ UNCHANGED <<wire, events, eventChans>>
    BY DEF StoreLatest, SignalWriter, ActorAt, PublishesOnly, Actors, queue, channels
  <1>2. streams \in [Clients -> StreamType] /\ actors \in [Actors -> ActorType]
    BY PlaceTypes
  <1>3. NoEventSeen
    <2>1. CASE UNCHANGED streams
      BY <2>1 DEF NoEventSeen
    <2>2. CASE streams' = [streams EXCEPT ![c].latest = actors[a].msg.n]
      BY <1>2, <2>2 DEF NoEventSeen, StreamType
    <2>3. CASE streams' = [streams EXCEPT ![c].signal = TRUE]
      BY <1>2, <2>3 DEF NoEventSeen, StreamType
    <2> QED
      BY <2>1, <2>2, <2>3 DEF StoreLatest, SignalWriter
  <1>4. /\ \A b \in Actors : b # a => actors'[b] = actors[b]
        /\ \/ actors'[a].pc = "idle"
           \/ actors[a].pc \in {"local", "signal"} /\ actors'[a].msg = actors[a].msg
    <2>1. CASE Sent(a, c)
      <3>1. actors[a].pc \in {"local", "signal"}
        BY DEF StoreLatest, SignalWriter, ActorAt
      <3>2. CASE ActorIdles(a)
        BY <3>2, IdlesMoves DEF ActorMoves
      <3>3. CASE actors' = [actors EXCEPT ![a].pc = "local", ![a].todo = @ \ {c}, ![a].at = {}]
        BY <1>2, <3>1, <3>3 DEF ActorType
      <3> QED
        BY <1>1, <2>1, <3>2, <3>3 DEF Sent
    <2>2. CASE StoreLatest(a, c)
               /\ actors' = [actors EXCEPT ![a].pc = "signal", ![a].at = {c}]
      BY <1>2, <2>2 DEF ActorType, StoreLatest, ActorAt
    <2> QED
      BY <2>1, <2>2 DEF StoreLatest, SignalWriter
  <1>5. NoEventTaken
    <2>1. "listener" \notin Jobs
      BY DEF Jobs, EventJobs
    <2> QED
      BY <1>1, <1>4, <2>1, ActorQuiet
  <1> QED
    BY <1>1, <1>3, <1>5

\* What was dispatched without Redis stays noted.
LEMMA FallbackNoted == Next => faults \subseteq faults'
  <1> SUFFICES ASSUME Next PROVE faults \subseteq faults'
    OBVIOUS
  <1> USE DEF Note, queue, channels, broker, process, history
  <1>1. CASE Elsewhere
    BY <1>1
    DEF Elsewhere, Request, DispatchEvent, DispatchCall, DispatchPosition, InvalidateSnapshot,
        StartRequest, DispatchOther, ReadStatus, FillSnapshot, SnapshotExpires, LinkDrops,
        Reconnect, StopServing, CancelContext, ClosePool, WorkerTakes, WorkerDone, StopProcess,
        TakePosition, Sweep, TimerExpires, Receive, TakeEvent, CountLine, Publish,
        NotePublished, PublishFails, Notify, JobExits
  <1>2. CASE \E a \in Actors, c \in Clients :
               StoreLatest(a, c) \/ SignalWriter(a, c) \/ SendEvent(a, c)
    BY <1>2 DEF StoreLatest, SignalWriter, SendEvent
  <1>3. CASE \E c \in Clients :
               \/ Connect(c) \/ SendSnapshot(c) \/ TakeSignal(c) \/ DrainLatest(c)
               \/ TakeEventFrame(c) \/ StreamEnds(c) \/ WriteFails(c)
    BY <1>3
    DEF Connect, SendSnapshot, TakeSignal, DrainLatest, TakeEventFrame, StreamEnds, WriteFails
  <1>4. CASE BrokerShutdown \/ \E c \in Clients : Subscribe(c) \/ Unsubscribe(c)
    BY <1>4 DEF BrokerShutdown, Subscribe, Unsubscribe
  <1> QED
    BY <1>1, <1>2, <1>3, <1>4, StepKinds

\* No step takes an event past one of the same job.
LEMMA NextOrder == IInv /\ IInv' /\ OrderInv /\ [Next]_vars => OrderInv'
  <1> SUFFICES ASSUME IInv, IInv', OrderInv, [Next]_vars, "fallback" \notin faults',
                      NEW j \in Jobs
               PROVE  Ordered(j)'
    BY DEF OrderInv
  <1>1. "fallback" \notin faults
    BY FallbackNoted DEF vars, history
  <1>2. Ordered(j) /\ \A k \in Jobs : PublishesOnly(k)
    BY <1>1 DEF OrderInv, Ordered
  <1>3. ASSUME NoEventTaken, NoEventSeen, wire' \in {wire, <<>>},
               UNCHANGED <<events, eventChans>>
        PROVE  Ordered(j)'
    BY <1>2, <1>3, QuietStep
  <1>4. CASE Aside \/ UNCHANGED vars
    BY <1>2, <1>3, <1>4, AsideQuiet
  <1>5. ASSUME NEW h \in Handlers, DispatchEvent(h) \/ DispatchCall(h)
        PROVE  Ordered(j)'
    <2>1. PICK k \in EventJobs :
            eventChans' = [eventChans EXCEPT ![k] = TrySend(@, events + 1, JobCap)]
      BY <1>5 DEF DispatchEvent, DispatchCall, EventJobs
    <2>2. events' = events + 1 /\ UNCHANGED <<actors, wire, streams>>
      BY <1>5 DEF DispatchEvent, DispatchCall, broker
    <2> QED
      BY <1>2, <2>1, <2>2, EnqueueStep
  <1>6. CASE TimerExpires
    BY <1>2, <1>6, TimerStep
  <1>7. CASE Receive
    BY <1>2, <1>7, ReceiveStep
  <1>8. ASSUME NEW k \in EventJobs, TakeEvent(k) PROVE Ordered(j)'
    BY <1>2, <1>8, TakeStep
  <1>9. ASSUME NEW a \in Jobs,
               \/ a = "position" /\ TakePosition
               \/ a = "sweeper" /\ Sweep
               \/ CountLine(a) \/ Notify(a) \/ JobExits(a)
               \/ Publish(a) /\ ~linkUp
        PROVE  Ordered(j)'
    BY <1>2, <1>3, <1>9, JobQuiet
  <1>10. ASSUME NEW a \in Jobs, Publish(a), linkUp PROVE Ordered(j)'
    BY <1>2, <1>10, PublishStep DEF Publish, queue, channels
  <1>11. ASSUME NEW a \in Jobs, PublishFails(a) PROVE FALSE
    BY <1>11 DEF PublishFails, Note
  <1>12. ASSUME NEW a \in Actors, NEW c \in Clients,
                StoreLatest(a, c) \/ SignalWriter(a, c) \/ SendEvent(a, c)
         PROVE  Ordered(j)'
    BY <1>2, <1>3, <1>12, CountQuiet, SendStep
  <1>13. ASSUME NEW c \in Clients,
                \/ Connect(c) \/ SendSnapshot(c) \/ TakeSignal(c) \/ DrainLatest(c)
                \/ StreamEnds(c) \/ WriteFails(c) \/ Subscribe(c) \/ Unsubscribe(c)
                \/ BrokerShutdown
         PROVE  Ordered(j)'
    BY <1>2, <1>3, <1>13, StreamQuiet
  <1>14. ASSUME NEW c \in Clients, TakeEventFrame(c) PROVE Ordered(j)'
    BY <1>2, <1>14, FrameStep
  <1>15. CASE Clients = {} /\ BrokerShutdown
    <2>1. NoEventSeen
      BY <1>15 DEF NoEventSeen
    <2>2. UNCHANGED <<actors, wire, events, eventChans>>
      BY <1>15 DEF BrokerShutdown, queue, channels
    <2>3. NoEventTaken
      BY <1>2, <2>2 DEF NoEventTaken, PublishesOnly
    <2> QED
      BY <1>3, <2>1, <2>2, <2>3
  <1>16. "position" \in Jobs /\ "sweeper" \in Jobs
    BY DEF Jobs
  <1>17. CASE Next /\ Elsewhere
    BY <1>4, <1>5, <1>6, <1>7, <1>8, <1>9, <1>10, <1>11, <1>16, <1>17, Zenon
    DEF Elsewhere, Aside, Request
  <1> QED
    BY <1>4, <1>12, <1>13, <1>14, <1>15, <1>17, StepKinds, Zenon

\* At first there is no event.
LEMMA InitOrder == Init => OrderInv
  <1> SUFFICES ASSUME Init, NEW j \in Jobs PROVE Ordered(j)
    BY DEF OrderInv
  <1>1. /\ \A a \in Actors : actors[a].pc = "idle"
        /\ j \in Actors /\ "listener" \in Actors /\ wire = <<>> /\ events = 0
        /\ j \in EventJobs => eventChans[j] = <<>>
        /\ \A c \in Clients : streams[c].fifo = <<>> /\ streams[c].got[j] = 0
    BY DEF Init, IdleActor, NoStream, Actors
  <1>2. ~Carries("listener", j) /\ ~Carries(j, j)
    BY <1>1 DEF Carries
  <1>3. NoneQueued(j, events)
    BY <1>1, <1>2 DEF NoneQueued, NoneTaken, NoneSent, NoneHeld, NoneSeen
  <1> QED
    BY <1>1, <1>2, <1>3
    DEF Ordered, PublishesOnly, SeenInOrder, HeldInOrder, SentInOrder, TakenInOrder,
        QueuedInOrder, InOrder

\* While nothing goes past Redis, the events of each job are in order in each place
\* between its channel and the clients.
THEOREM EventsAreOrdered == Spec => []OrderInv
  <1>1. Init => OrderInv
    BY InitOrder
  <1>2. IInv /\ IInv' /\ OrderInv /\ [Next]_vars => OrderInv'
    BY NextOrder
  <1> QED
    BY <1>1, <1>2, Invariance, PTL DEF Spec

\* Broker.Publish, PublishLocal and Subscriber.Send: a client is shown the events of
\* a job in the order of their dispatch, also across reconnections and losses.
THEOREM EventsReachClientsInOrder == Spec => EventsInOrder
  <1> DEFINE Later == \A c \in Clients, j \in Jobs :
                        "fallback" \notin faults => streams'[c].got[j] >= streams[c].got[j]
  <1>1. IInv /\ IInv' /\ OrderInv /\ [Next]_vars => [Later]_vars
    <2> SUFFICES ASSUME IInv, IInv', OrderInv, Next, "fallback" \notin faults,
                        NEW c \in Clients, NEW j \in Jobs
                 PROVE  streams'[c].got[j] >= streams[c].got[j]
      OBVIOUS
    <2>1. streams[c].got[j] \in Nat
      BY PlaceTypes
    <2>2. Ordered(j) /\ \A k \in Jobs : PublishesOnly(k)
      BY DEF OrderInv, Ordered
    <2>3. ASSUME NoEventSeen PROVE streams'[c].got[j] >= streams[c].got[j]
      BY <2>1, <2>3 DEF NoEventSeen
    <2>4. CASE \E d \in Clients : TakeEventFrame(d)
      BY <2>2, <2>4, FrameStep
    <2>5. CASE UNCHANGED streams
      BY <2>1, <2>5
    <2>6. CASE Elsewhere
      <3>1. UNCHANGED streams
        BY <2>6
        DEF Elsewhere, Request, DispatchEvent, DispatchCall, DispatchPosition,
            InvalidateSnapshot, StartRequest, DispatchOther, ReadStatus, FillSnapshot,
            SnapshotExpires, LinkDrops, Reconnect, StopServing, CancelContext, ClosePool,
            WorkerTakes, WorkerDone, StopProcess, TakePosition, Sweep, TimerExpires, Receive,
            TakeEvent, CountLine, Publish, PublishFails, Notify, JobExits, broker
      <3> QED
        BY <2>5, <3>1
    <2>7. CASE \E a \in Actors, d \in Clients : StoreLatest(a, d) \/ SignalWriter(a, d)
      BY <2>2, <2>3, <2>7, CountQuiet
    <2>8. CASE \E a \in Actors, d \in Clients : SendEvent(a, d)
      <3>1. streams'[c].got = streams[c].got
        <4>1. streams \in [Clients -> StreamType]
          BY PlaceTypes
        <4> QED
          BY <2>8, <4>1 DEF SendEvent, StreamType
      <3> QED
        BY <2>1, <3>1
    <2>9. CASE \E d \in Clients :
                 \/ Connect(d) \/ SendSnapshot(d) \/ TakeSignal(d) \/ DrainLatest(d)
                 \/ StreamEnds(d) \/ WriteFails(d) \/ Subscribe(d) \/ Unsubscribe(d)
                 \/ BrokerShutdown
      BY <2>2, <2>3, <2>9, StreamQuiet
    <2> QED
      BY <2>4, <2>6, <2>7, <2>8, <2>9, StepKinds, Zenon
  <1> HIDE DEF Later
  <1>2. Spec => [][Later]_vars
    BY <1>1, Invariance, EventsAreOrdered, PTL DEF Spec
  <1> QED
    BY <1>2 DEF EventsInOrder, Later
-----------------------------------------------------------------------------
(* A stream shows the line *)

\* A request is about to dispatch the position of this queue; its job has been
\* given it; a job is about to publish the line as it is.
PositionDue == \E h \in Handlers : \E i \in DOMAIN handlers[h] : handlers[h][i] = "position"
PositionQueued == \E i \in DOMAIN posChan : posChan[i] = "this"
Announces(j) ==
    \/ actors[j].pc = "count"
    \/ actors[j].pc = "publish" /\ actors[j].msg.kind = "count" /\ actors[j].msg.n = line
    \/ actors[j].pc = "publish" /\ actors[j].msg.kind # "count" /\ j = "keyspace"

Announced == PositionDue \/ PositionQueued \/ \E j \in Jobs : Announces(j)

NoCount(s) == \A i \in DOMAIN s : s[i].kind # "count"

\* The last count on the wire is the line.
WireShows ==
    \A i \in DOMAIN wire :
        wire[i].kind = "count" /\ (\A k \in DOMAIN wire : i < k => wire[k].kind # "count")
          => wire[i].n = line

\* The listener is still to send its count to stream c.
ToBeTold(c) ==
    /\ actors["listener"].msg.kind = "count" /\ c \in actors["listener"].todo
    /\ \/ actors["listener"].pc = "local"
       \/ actors["listener"].pc = "signal" /\ c \notin actors["listener"].at

\* The last count on the way to stream c, or the one it shows, is the line; before
\* its snapshot, a stream without a count on the way will show the line.
WillShow(c) ==
    NoCount(wire) =>
        /\ ToBeTold(c) => actors["listener"].msg.n = line
        /\ ~ToBeTold(c) /\ streams[c].latest # 0 => streams[c].latest = line
        /\ ~ToBeTold(c) /\ streams[c].latest = 0 /\ streams[c].pc # "snapshot" =>
              streams[c].shown = line

Told ==
    /\ newest = line \/ (newest = 0 /\ line = Fewer + 1)
    /\ WireShows
    /\ \A c \in Clients : Open(c) => WillShow(c)

\* A job that publishes a count, and it is no version to come.
CountsPast(j) ==
    /\ actors[j].pc \notin {"local", "signal"}
    /\ actors[j].pc = "publish" /\ actors[j].msg.kind = "count" => actors[j].msg.n <= line

\* While the process serves, the line is about to be published, or the streams
\* will show it.
Shows ==
    /\ linkUp /\ newest <= line
    /\ \A j \in Jobs : CountsPast(j)
    /\ phase \in {"up", "draining"} =>
         /\ \A c \in Clients : Open(c) => c \in subs
         /\ Announced \/ Told

ShowInv == faults = {} => Shows
-----------------------------------------------------------------------------
(* What the steps have in common *)

\* Nothing is lost of a sequence but its head.
LEMMA TailKeeps ==
    ASSUME NEW S, NEW s \in Seq(S), s # <<>>, NEW x, Head(s) # x,
           \E i \in DOMAIN s : s[i] = x
    PROVE  \E i \in DOMAIN Tail(s) : Tail(s)[i] = x
  <1>1. PICK i \in DOMAIN s : s[i] = x
    OBVIOUS
  <1>2. i # 1 /\ i \in 1..Len(s)
    BY <1>1
  <1>3. i - 1 \in DOMAIN Tail(s) /\ Tail(s)[i - 1] = x
    BY <1>1, <1>2
  <1> QED
    BY <1>3

\* A step that leaves the messages alone keeps the streams' prospects.
LEMMA OutsideShows ==
    ASSUME IInv, Shows, UNCHANGED <<actors, wire, linkUp, subs, streams, newest>>,
           phase' \in {"up", "draining"} => phase \in {"up", "draining"},
           \/ line' = line /\ (PositionDue \/ PositionQueued => (PositionDue \/ PositionQueued)')
           \/ line' = line + 1 /\ PositionDue'
    PROVE  Shows'
  <1>1. line \in Nat /\ newest \in Nat /\ \A a \in Actors : actors[a].msg.n \in Nat
    BY PlaceTypes DEF IInv, TypeOK
  <1>2. \A j \in Jobs : CountsPast(j)'
    BY <1>1, PlaceTypes DEF Shows, CountsPast
  <1>3. ASSUME phase' \in {"up", "draining"} PROVE (Announced \/ Told)'
    <2>1. CASE PositionDue'
      BY <2>1 DEF Announced
    <2>2. CASE line' = line /\ (PositionDue \/ PositionQueued => (PositionDue \/ PositionQueued)')
      <3>1. \A j \in Jobs : Announces(j) => Announces(j)'
        BY <2>2 DEF Announces
      <3>2. Told => Told'
        BY <2>2 DEF Told, WireShows, Open, WillShow, ToBeTold
      <3> QED
        BY <1>3, <2>2, <3>1, <3>2 DEF Shows, Announced
    <2> QED
      BY <2>1, <2>2
  <1>4. linkUp' /\ newest' <= line'
    BY <1>1 DEF Shows
  <1>5. phase' \in {"up", "draining"} => \A c \in Clients : Open(c)' => c \in subs'
    BY DEF Shows, Open
  <1> QED
    BY <1>2, <1>3, <1>4, <1>5 DEF Shows

\* A step of a job that publishes nothing, unless it drops what it announces.
LEMMA JobShows ==
    ASSUME IInv, Shows, NEW j \in Jobs,
           \A b \in Actors : b # j => actors'[b] = actors[b],
           UNCHANGED <<line, handlers, wire, linkUp, subs, streams, phase, newest>>,
           PositionQueued => PositionQueued' \/ Announces(j)',
           phase \in {"up", "draining"} /\ Announces(j) => Announces(j)',
           CountsPast(j)'
    PROVE  Shows'
  <1>0. "listener" \in Actors /\ "listener" \notin Jobs /\ Jobs \subseteq Actors
    BY PlaceTypes
  <1>1. \A k \in Jobs : CountsPast(k)'
    BY <1>0 DEF Shows, CountsPast
  <1>2. ASSUME phase \in {"up", "draining"} PROVE (Announced \/ Told)'
    <2>1. Told => Told'
      BY <1>0 DEF Told, WireShows, Open, WillShow, ToBeTold
    <2>2. PositionDue => PositionDue'
      BY DEF PositionDue
    <2>3. ASSUME NEW k \in Jobs, Announces(k) PROVE Announces(k)'
      BY <1>0, <1>2, <2>3 DEF Announces
    <2> QED
      BY <1>2, <2>1, <2>2, <2>3 DEF Shows, Announced
  <1> QED
    BY <1>1, <1>2 DEF Shows, Open

\* A step of stream c.
LEMMA StreamShows ==
    ASSUME IInv, Shows, NEW c \in Clients,
           \A d \in Clients : d # c => streams'[d] = streams[d],
           UNCHANGED <<line, handlers, posChan, actors, wire, linkUp, phase, newest>>,
           \A d \in Clients : d # c /\ d \in subs => d \in subs',
           Open(c)' => c \in subs' /\ (Told /\ phase \in {"up", "draining"} => WillShow(c)')
    PROVE  Shows'
  <1>1. \A k \in Jobs : CountsPast(k)'
    BY DEF Shows, CountsPast
  <1>2. ASSUME phase \in {"up", "draining"} PROVE (Announced \/ Told)'
    <2>1. ASSUME Told PROVE Told'
      <3>1. \A d \in Clients : d # c /\ Open(d)' => WillShow(d)'
        BY <2>1 DEF Told, Open, WillShow, ToBeTold
      <3>2. Open(c)' => WillShow(c)'
        BY <1>2, <2>1
      <3> QED
        BY <2>1, <3>1, <3>2 DEF Told, WireShows
    <2>2. Announced => Announced'
      BY DEF Announced, PositionDue, PositionQueued, Announces
    <2> QED
      BY <1>2, <2>1, <2>2 DEF Shows
  <1>3. phase \in {"up", "draining"} => \A d \in Clients : Open(d)' => d \in subs'
    BY DEF Shows, Open
  <1> QED
    BY <1>1, <1>2, <1>3 DEF Shows
-----------------------------------------------------------------------------
(* The steps *)

\* Requests, other queues, the cache, the clock and the process.
LEMMA AsideShows ==
    ASSUME IInv, Shows, faults = {}, faults' = {},
           \/ Aside
           \/ \E h \in Handlers : DispatchEvent(h) \/ DispatchCall(h)
    PROVE  Shows'
  <1> USE DEF queue, channels, broker, process, history
  <1>0. /\ handlers \in [Handlers -> Seq({"event", "position", "invalidate", "call"})]
        /\ posChan \in Seq({"this", "other"})
    BY DEF IInv, TypeOK
  <1>1. ASSUME NEW h \in Handlers, NEW s, NextCall(h, s), s # "position", PositionDue
        PROVE  PositionDue'
    <2>1. PICK k \in Handlers : \E i \in DOMAIN handlers[k] : handlers[k][i] = "position"
      BY <1>1 DEF PositionDue
    <2>2. CASE k # h
      <3>1. handlers'[k] = handlers[k]
        BY <1>0, <1>1, <2>2 DEF NextCall
      <3> QED
        BY <2>1, <3>1 DEF PositionDue
    <2>3. CASE k = h
      <3>1. handlers'[h] = Tail(handlers[h]) /\ handlers[h] # <<>> /\ Head(handlers[h]) # "position"
        BY <1>0, <1>1 DEF NextCall
      <3>2. \E i \in DOMAIN Tail(handlers[h]) : Tail(handlers[h])[i] = "position"
        <4>1. handlers[h] \in Seq({"event", "position", "invalidate", "call"})
          BY <1>0
        <4>2. \E i \in DOMAIN handlers[h] : handlers[h][i] = "position"
          BY <2>1, <2>3
        <4> QED
          BY <3>1, <4>1, <4>2, TailKeeps
      <3> QED
        BY <3>1, <3>2 DEF PositionDue
    <2> QED
      BY <2>2, <2>3
  <1>2. ASSUME NEW h \in Handlers, DispatchEvent(h) \/ DispatchCall(h) \/ InvalidateSnapshot(h)
        PROVE  Shows'
    <2>1. PositionDue => PositionDue'
      BY <1>1, <1>2 DEF DispatchEvent, DispatchCall, InvalidateSnapshot
    <2>2. PositionQueued => PositionQueued'
      BY <1>2 DEF DispatchEvent, DispatchCall, InvalidateSnapshot, PositionQueued
    <2> QED
      BY <1>2, <2>1, <2>2, OutsideShows DEF DispatchEvent, DispatchCall, InvalidateSnapshot
  <1>3. ASSUME NEW h \in Handlers, DispatchPosition(h) PROVE Shows'
    <2>1. PositionQueued'
      BY <1>3 DEF DispatchPosition, Note, PositionQueued
    <2> QED
      BY <1>3, <2>1, OutsideShows DEF DispatchPosition
  <1>4. ASSUME NEW h \in Handlers, StartRequest(h) PROVE Shows'
    <2>1. PICK op \in DOMAIN Steps \cap scenario :
             /\ handlers' = [handlers EXCEPT ![h] = Steps[op]]
             /\ line' = IF op = "line" THEN line + 1 ELSE line
      BY <1>4 DEF StartRequest
    <2>2. ASSUME op = "line" PROVE PositionDue'
      <3>1. handlers'[h] = <<"event", "position", "invalidate">>
        BY <1>0, <2>1, <2>2 DEF Steps
      <3>2. 2 \in DOMAIN handlers'[h] /\ handlers'[h][2] = "position"
        BY <3>1
      <3> QED
        BY <3>2 DEF PositionDue
    <2>3. PositionDue => PositionDue'
      BY <1>0, <1>4, <2>1 DEF StartRequest, PositionDue
    <2>4. PositionQueued => PositionQueued'
      BY <1>4 DEF StartRequest, PositionQueued
    <2> QED
      BY <1>4, <2>1, <2>2, <2>3, <2>4, OutsideShows DEF StartRequest
  <1>5. CASE DispatchOther
    <2>1. PositionQueued => PositionQueued'
      <3>1. posChan' = Append(posChan, "other")
        BY <1>5 DEF DispatchOther
      <3>2. \A i \in DOMAIN posChan : i \in DOMAIN posChan' /\ posChan'[i] = posChan[i]
        BY <1>0, <3>1
      <3> QED
        BY <3>2 DEF PositionQueued
    <2>2. PositionDue => PositionDue'
      BY <1>5 DEF DispatchOther, PositionDue
    <2> QED
      BY <1>5, <2>1, <2>2, OutsideShows DEF DispatchOther
  <1>6. CASE ReadStatus \/ FillSnapshot \/ SnapshotExpires
    BY <1>6, OutsideShows DEF ReadStatus, FillSnapshot, SnapshotExpires, PositionDue, PositionQueued
  <1>7. CASE LinkDrops \/ Reconnect
    BY <1>7 DEF LinkDrops, Reconnect, Note, Shows
  <1>8. CASE \/ StopServing \/ CancelContext \/ ClosePool \/ WorkerTakes \/ WorkerDone
             \/ StopProcess
    BY <1>8, OutsideShows DEF StopServing, CancelContext, ClosePool, WorkerTakes, WorkerDone,
                              StopProcess, PositionDue, PositionQueued
  <1> QED
    BY <1>2, <1>3, <1>4, <1>5, <1>6, <1>7, <1>8 DEF Aside

\* A presence timer is about to publish the line.
LEMMA TimerShows ==
    ASSUME IInv, Shows, TimerExpires
    PROVE  Shows'
  <1>0. /\ line \in Nat /\ newest \in Nat /\ \A a \in Actors : actors[a].msg.n \in Nat
        /\ actors \in [Actors -> ActorType] /\ "keyspace" \in Jobs /\ Jobs \subseteq Actors
    BY PlaceTypes DEF IInv, TypeOK, Jobs
  <1>1. /\ line' = line
        /\ UNCHANGED <<wire, linkUp, subs, streams, phase, newest>>
        /\ \A b \in Actors : b # "keyspace" => actors'[b] = actors[b]
        /\ actors'["keyspace"].pc = "publish" /\ actors'["keyspace"].msg.kind = "event"
    BY <1>0 DEF TimerExpires, broker, channels, process, IdleActor, Event
  <1>2. Announced'
    BY <1>0, <1>1 DEF Announced, Announces
  <1>3. \A j \in Jobs : CountsPast(j)'
    BY <1>0, <1>1 DEF Shows, CountsPast
  <1> QED
    BY <1>0, <1>1, <1>2, <1>3 DEF Shows, Open

\* A job that takes its next task, counts the line, notifies or exits.
LEMMA TaskShows ==
    ASSUME IInv, Shows, NEW j \in Jobs,
           \/ j = "position" /\ TakePosition
           \/ j = "sweeper" /\ Sweep
           \/ j \in EventJobs /\ TakeEvent(j)
           \/ CountLine(j) \/ Notify(j) \/ JobExits(j)
    PROVE  Shows'
  <1> USE DEF queue, channels, broker, process, history
  <1>0. /\ j \in Actors /\ actors \in [Actors -> ActorType]
        /\ line \in Nat /\ posChan \in Seq({"this", "other"})
    BY PlaceTypes DEF IInv, TypeOK
  <1>1. UNCHANGED <<line, handlers, wire, linkUp, subs, streams, phase, newest>>
    BY DEF TakePosition, Sweep, TakeEvent, CountLine, Notify, JobExits
  <1> DEFINE Others == \A b \in Actors : b # j => actors'[b] = actors[b]
  <1>2. ASSUME Others, UNCHANGED posChan,
               phase \in {"up", "draining"} /\ Announces(j) => Announces(j)', CountsPast(j)'
        PROVE  Shows'
    BY <1>1, <1>2, JobShows DEF PositionQueued
  <1>3. CASE j = "position" /\ TakePosition
    <2>1. CASE Head(posChan) = "this"
      <3>1. ActorGoto(j, "count")
        BY <1>3, <2>1 DEF TakePosition
      <3>2. Others /\ actors'[j].pc = "count"
        BY <3>1, <1>0, ActorGotoMoves DEF ActorMoves
      <3>3. Announces(j)' /\ CountsPast(j)'
        BY <3>2 DEF Announces, CountsPast
      <3> QED
        BY <1>1, <3>2, <3>3, JobShows
    <2>2. CASE Head(posChan) # "this"
      <3>1. UNCHANGED actors /\ posChan' = Tail(posChan) /\ posChan # <<>>
        BY <1>3, <2>2 DEF TakePosition
      <3>2. PositionQueued => PositionQueued'
        BY <1>0, <2>2, <3>1, TailKeeps DEF PositionQueued
      <3>3. Announces(j) => Announces(j)'
        BY <1>1, <3>1 DEF Announces
      <3>4. CountsPast(j)'
        BY <1>1, <3>1 DEF Shows, CountsPast
      <3> QED
        BY <1>1, <3>1, <3>2, <3>3, <3>4, JobShows
    <2> QED
      BY <2>1, <2>2
  <1>4. CASE j = "sweeper" /\ Sweep
    <2>1. Others /\ actors'[j].pc = "count" /\ UNCHANGED posChan
      BY <1>0, <1>4, ActorGotoMoves DEF Sweep, ActorMoves
    <2> QED
      BY <1>2, <2>1 DEF Announces, CountsPast
  <1>5. CASE j \in EventJobs /\ TakeEvent(j)
    <2>1. /\ Others /\ actors'[j].pc = "publish" /\ actors'[j].msg.kind = "event"
          /\ actors[j].pc = "idle" /\ UNCHANGED posChan
      BY <1>0, <1>5 DEF TakeEvent, ActorAt, IdleActor, Event
    <2> QED
      BY <1>2, <2>1 DEF Announces, CountsPast
  <1>6. CASE CountLine(j)
    <2>1. UNCHANGED posChan
      BY <1>6 DEF CountLine
    <2>2. CASE phase = "cancelled"
      <3>1. ActorIdles(j)
        BY <1>6, <2>2 DEF CountLine
      <3>2. Others /\ actors'[j].pc = "idle"
        BY <1>0, <3>1, IdlesMoves DEF ActorMoves
      <3> QED
        BY <1>2, <2>1, <2>2, <3>2 DEF CountsPast
    <2>3. CASE phase # "cancelled"
      <3>1. /\ Others /\ actors'[j].pc = "publish" /\ actors'[j].msg = Count(j, line)
        BY <1>0, <1>6, <2>3 DEF CountLine, ActorType
      <3>2. actors'[j].msg.kind = "count" /\ actors'[j].msg.n = line /\ line' = line
        BY <1>1, <3>1 DEF Count
      <3> QED
        BY <1>0, <1>2, <2>1, <3>1, <3>2 DEF Announces, CountsPast
    <2> QED
      BY <2>2, <2>3
  <1>7. CASE Notify(j)
    <2>1. actors[j].pc = "notify" /\ UNCHANGED posChan
      BY <1>7 DEF Notify, ActorAt
    <2>2. Others /\ actors'[j].pc \in {"idle", "exited"}
      BY <1>0, <1>7, IdlesMoves, ActorIdlesMoves DEF Notify, ActorMoves
    <2> QED
      BY <1>2, <2>1, <2>2 DEF Announces, CountsPast
  <1>8. CASE JobExits(j)
    <2>1. phase = "cancelled" /\ UNCHANGED posChan
      BY <1>8 DEF JobExits
    <2>2. Others /\ actors'[j].pc = "exited"
      BY <1>0, <1>8, ActorIdlesMoves DEF JobExits, ActorMoves
    <2> QED
      BY <1>2, <2>1, <2>2 DEF CountsPast
  <1> QED
    BY <1>3, <1>4, <1>5, <1>6, <1>7, <1>8

\* A publication puts the line on the wire, or an event, or an older version that
\* is announced again.
LEMMA PublishShows ==
    ASSUME IInv, Shows, faults = {}, faults' = {}, NEW j \in Jobs, Publish(j)
    PROVE  Shows'
  <1>0. /\ j \in Actors /\ actors \in [Actors -> ActorType] /\ actors[j].msg \in Message
        /\ "listener" \in Actors /\ "listener" \notin Jobs /\ Jobs \subseteq Actors
        /\ line \in Nat /\ newest \in Nat /\ wire \in Seq(Message)
        /\ actors[j].msg.n \in Nat
    BY PlaceTypes DEF IInv, TypeOK
  <1> DEFINE m == actors[j].msg
  <1>1. /\ wire' = Append(wire, m) /\ NotePublished(m) /\ AfterPublish(j)
        /\ actors[j].pc = "publish"
        /\ UNCHANGED <<line, handlers, posChan, linkUp, subs, streams, phase>>
    BY DEF Publish, ActorAt, Shows, queue, channels, process
  <1>2. /\ \A b \in Actors : b # j => actors'[b] = actors[b]
        /\ actors'[j].pc \in {"idle", "count", "notify"}
    BY <1>0, <1>1, AfterPublishMoves DEF ActorMoves
  <1>3. \A k \in Jobs : CountsPast(k)'
    BY <1>0, <1>1, <1>2 DEF Shows, CountsPast
  <1>4. /\ \A i \in DOMAIN wire : i \in DOMAIN wire' /\ wire'[i] = wire[i]
        /\ Len(wire) + 1 \in DOMAIN wire' /\ wire'[Len(wire) + 1] = m
        /\ \A i \in DOMAIN wire' : i \in DOMAIN wire \/ i = Len(wire) + 1
        /\ \A i \in DOMAIN wire : i < Len(wire) + 1
    BY <1>0, <1>1
  <1>5. \A k \in Jobs : k # j /\ Announces(k) => Announces(k)'
    BY <1>0, <1>1, <1>2 DEF Announces
  <1>6. (PositionDue => PositionDue') /\ (PositionQueued => PositionQueued')
    BY <1>1 DEF PositionDue, PositionQueued
  <1>7. phase' \in {"up", "draining"} => \A c \in Clients : Open(c)' => c \in subs'
    BY <1>1 DEF Shows, Open
  <1>8. CASE m.kind # "count"
    <2>1. newest' = newest
      BY <1>1, <1>8 DEF NotePublished
    <2>2. j = "keyspace" => Announces(j)'
      <3> SUFFICES ASSUME j = "keyspace" PROVE Announces(j)'
        OBVIOUS
      <3>1. ActorGoto(j, "count")
        BY <1>1, <1>8 DEF AfterPublish
      <3>2. actors'[j].pc = "count"
        BY <1>0, <3>1, ActorGotoMoves
      <3> QED
        BY <3>2 DEF Announces
    <2>3. Announced => Announced'
      <3>1. Announces(j) => Announces(j)'
        BY <1>1, <1>8, <2>2 DEF Announces
      <3> QED
        BY <1>5, <1>6, <3>1 DEF Announced
    <2>4. NoCount(wire') => NoCount(wire)
      BY <1>4 DEF NoCount
    <2>5. WireShows => WireShows'
      <3> SUFFICES ASSUME WireShows, NEW i \in DOMAIN wire', wire'[i].kind = "count",
                          \A k \in DOMAIN wire' : i < k => wire'[k].kind # "count"
                   PROVE  wire'[i].n = line'
        BY DEF WireShows
      <3>1. i \in DOMAIN wire /\ wire'[i] = wire[i]
        BY <1>4, <1>8
      <3>2. \A k \in DOMAIN wire : i < k => wire[k].kind # "count"
        BY <1>4
      <3> QED
        BY <1>1, <3>1, <3>2 DEF WireShows
    <2>6. Told => Told'
      <3>1. actors'["listener"] = actors["listener"]
        BY <1>0, <1>2
      <3>2. \A c \in Clients : Open(c)' /\ WillShow(c) => WillShow(c)'
        BY <1>1, <2>4, <3>1 DEF WillShow, ToBeTold
      <3>3. \A c \in Clients : Open(c)' => Open(c)
        BY <1>1 DEF Open
      <3> QED
        BY <1>1, <2>1, <2>5, <3>2, <3>3 DEF Told
    <2> QED
      BY <1>1, <1>3, <1>7, <2>1, <2>3, <2>6 DEF Shows
  <1>9. CASE m.kind = "count"
    <2>1. /\ newest' = (IF m.n > newest THEN m.n ELSE newest)
          /\ ~(m.n < newest)
      BY <1>1, <1>9 DEF NotePublished, Note
    <2>2. m.n <= line /\ m.n > Fewer /\ newest <= line
      BY <1>0, <1>1, <1>9 DEF Shows, CountsPast, IInv, CountsPositive, IsVersion
    <2>3. newest' <= line' /\ (m.n = line => newest' = line')
      BY <1>0, <1>1, <2>1, <2>2
    <2>4. CASE m.n = line
      <3>1. WireShows'
        <4> SUFFICES ASSUME NEW i \in DOMAIN wire', wire'[i].kind = "count",
                            \A k \in DOMAIN wire' : i < k => wire'[k].kind # "count"
                     PROVE  wire'[i].n = line'
          BY DEF WireShows
        <4>1. i = Len(wire) + 1
          BY <1>4, <1>9
        <4> QED
          BY <1>1, <1>4, <2>4, <4>1
      <3>2. ~NoCount(wire')
        BY <1>4, <1>9 DEF NoCount
      <3>3. Told'
        BY <2>3, <2>4, <3>1, <3>2 DEF Told, WillShow
      <3> QED
        BY <1>1, <1>3, <1>7, <2>3, <3>3 DEF Shows
    <2>5. CASE m.n # line
      <3>1. ~Told
        BY <1>0, <2>1, <2>2, <2>5 DEF Told, Fewer
      <3>2. ~Announces(j)
        BY <1>1, <1>9, <2>5 DEF Announces
      <3>3. Announced => Announced'
        BY <1>5, <1>6, <3>2 DEF Announced
      <3> QED
        BY <1>1, <1>3, <1>7, <2>3, <3>1, <3>3 DEF Shows
    <2> QED
      BY <2>4, <2>5
  <1> QED
    BY <1>8, <1>9

\* The listener takes the next message, which every open stream is to be sent.
LEMMA ReceiveShows ==
    ASSUME IInv, Shows, Receive
    PROVE  Shows'
  <1>0. /\ actors \in [Actors -> ActorType] /\ wire \in Seq(Message)
        /\ "listener" \in Actors /\ "listener" \notin Jobs /\ Jobs \subseteq Actors
    BY PlaceTypes
  <1>1. /\ actors["listener"].pc = "idle" /\ wire # <<>> /\ wire' = Tail(wire)
        /\ UNCHANGED <<line, handlers, posChan, linkUp, subs, streams, phase, newest>>
    BY DEF Receive, ActorAt, queue, channels, process, history
  <1>2. /\ \A j \in Jobs : actors'[j] = actors[j]
        /\ subs # {} => /\ actors'["listener"].pc = "local" /\ actors'["listener"].todo = subs
                        /\ actors'["listener"].msg = Head(wire)
        /\ subs = {} => actors' = actors
    BY <1>0 DEF Receive, IdleActor
  <1>3. /\ \A i \in DOMAIN Tail(wire) : i + 1 \in DOMAIN wire /\ Tail(wire)[i] = wire[i + 1]
        /\ \A i \in DOMAIN wire : i # 1 => i - 1 \in DOMAIN Tail(wire)
                                             /\ Tail(wire)[i - 1] = wire[i]
        /\ Head(wire) = wire[1] /\ 1 \in DOMAIN wire /\ DOMAIN wire \subseteq Nat
        /\ DOMAIN Tail(wire) \subseteq Nat
    BY <1>0, <1>1
  <1>4. WireShows => WireShows'
    <2> SUFFICES ASSUME WireShows, NEW i \in DOMAIN Tail(wire), Tail(wire)[i].kind = "count",
                        \A k \in DOMAIN Tail(wire) : i < k => Tail(wire)[k].kind # "count"
                 PROVE  Tail(wire)[i].n = line
      BY <1>1 DEF WireShows
    <2>1. i \in Nat /\ i + 1 \in DOMAIN wire /\ wire[i + 1] = Tail(wire)[i]
      BY <1>3
    <2>2. ASSUME NEW k \in DOMAIN wire, i + 1 < k PROVE wire[k].kind # "count"
      <3>1. k # 1 /\ k \in Nat /\ i < k - 1
        BY <1>3, <2>1, <2>2
      <3> QED
        BY <1>3, <3>1
    <2> QED
      BY <2>1, <2>2 DEF WireShows
  <1>5. ASSUME phase \in {"up", "draining"}, Told, NEW c \in Clients, Open(c)'
        PROVE  WillShow(c)'
    <2>1. Open(c) /\ c \in subs /\ WillShow(c)
      BY <1>1, <1>5 DEF Open, Shows, Told
    <2>2. SUFFICES ASSUME NoCount(Tail(wire)) PROVE WillShow(c)'
      BY <1>1 DEF WillShow
    <2>3. CASE Head(wire).kind = "count"
      <3>1. \A k \in DOMAIN wire : 1 < k => wire[k].kind # "count"
        <4>1. ASSUME NEW k \in DOMAIN wire, 1 < k PROVE wire[k].kind # "count"
          <5>1. k # 1
            BY <1>3, <4>1
          <5>2. k - 1 \in DOMAIN Tail(wire) /\ Tail(wire)[k - 1] = wire[k]
            BY <1>3, <5>1
          <5> QED
            BY <2>2, <5>2 DEF NoCount
        <4> QED
          BY <4>1
      <3>2. Head(wire).n = line
        BY <1>3, <1>5, <2>3, <3>1 DEF Told, WireShows
      <3>3. ToBeTold(c)'
        BY <1>1, <1>2, <2>1, <2>3 DEF ToBeTold
      <3> QED
        BY <1>1, <1>2, <2>1, <3>2, <3>3 DEF WillShow
    <2>4. CASE Head(wire).kind # "count"
      <3>1. NoCount(wire)
        BY <1>3, <2>2, <2>4 DEF NoCount
      <3>2. ~ToBeTold(c) /\ ~ToBeTold(c)'
        BY <1>1, <1>2, <2>1, <2>4 DEF ToBeTold
      <3> QED
        BY <1>1, <2>1, <3>1, <3>2 DEF WillShow
    <2> QED
      BY <2>3, <2>4
  <1>6. Announced => Announced'
    BY <1>1, <1>2 DEF Announced, PositionDue, PositionQueued, Announces
  <1>7. \A j \in Jobs : CountsPast(j)'
    BY <1>1, <1>2 DEF Shows, CountsPast
  <1>8. phase \in {"up", "draining"} /\ Told => Told'
    BY <1>1, <1>4, <1>5 DEF Told
  <1> QED
    BY <1>1, <1>6, <1>7, <1>8 DEF Shows, Open

\* The listener sends to a stream, or signals it.
LEMMA SendShows ==
    ASSUME IInv, Shows, NEW a \in Actors, NEW c \in Clients,
           StoreLatest(a, c) \/ SignalWriter(a, c) \/ SendEvent(a, c)
    PROVE  Shows'
  <1>0. /\ actors \in [Actors -> ActorType] /\ streams \in [Clients -> StreamType]
        /\ "listener" \in Actors /\ "listener" \notin Jobs /\ Jobs \subseteq Actors
    BY PlaceTypes
  <1> DEFINE l == actors["listener"]
  <1>1. /\ a = "listener" /\ l.pc \in {"local", "signal"} /\ c \in Clients
        /\ UNCHANGED <<line, handlers, posChan, wire, linkUp, subs, phase, newest>>
    BY DEF StoreLatest, SignalWriter, SendEvent, ActorAt, Shows, CountsPast, Actors, queue,
           channels, process, history
  <1>2. \A d \in Clients : d \in l.todo => d \in subs /\ ~streams[d].closed
    BY <1>0, <1>1 DEF IInv, SendersLocked, SubsOpen
  <1>3. l.pc = "signal" => \E d \in l.todo : l.at = {d}
    BY <1>0, <1>1 DEF IInv, SendersLocked
  <1>4. ASSUME Sent(a, c)
        PROVE  /\ \A j \in Jobs : actors'[j] = actors[j]
               /\ \/ actors'["listener"] = IdleActor /\ l.todo \subseteq {c}
                  \/ /\ actors'["listener"].pc = "local"
                     /\ actors'["listener"].msg = l.msg
                     /\ actors'["listener"].todo = l.todo \ {c}
    <2>1. CASE ActorIdles("listener") /\ l.todo \subseteq {c}
      BY <1>0, <2>1 DEF ActorIdles
    <2>2. CASE actors' = [actors EXCEPT !["listener"].pc = "local",
                                        !["listener"].todo = @ \ {c}, !["listener"].at = {}]
      BY <1>0, <2>2 DEF ActorType
    <2> QED
      BY <1>1, <1>4, <2>1, <2>2 DEF Sent
  <1>5. /\ \A j \in Jobs : actors'[j] = actors[j]
        /\ \A d \in Clients : streams'[d].pc = streams[d].pc /\ streams'[d].shown = streams[d].shown
        /\ \A d \in Clients \ {c} : streams'[d].latest = streams[d].latest
        /\ \/ /\ streams'[c].latest = streams[c].latest
              /\ \A d \in Clients : ToBeTold(d)' <=> ToBeTold(d)
              /\ \A d \in Clients : ToBeTold(d) => actors'["listener"].msg = l.msg
           \/ /\ streams'[c].latest = l.msg.n /\ ToBeTold(c) /\ ~ToBeTold(c)'
              /\ l.msg.n # 0 /\ actors'["listener"].msg = l.msg
              /\ \A d \in Clients \ {c} : ToBeTold(d)' <=> ToBeTold(d)
    <2>1. CASE StoreLatest(a, c)
      <3>1. /\ streams' = [streams EXCEPT ![c].latest = l.msg.n]
            /\ actors' = [actors EXCEPT !["listener"].pc = "signal", !["listener"].at = {c}]
            /\ l.pc = "local" /\ c \in l.todo /\ l.msg.kind = "count"
        BY <1>1, <1>2, <2>1 DEF StoreLatest, ActorAt
      <3>2. /\ \A j \in Jobs : actors'[j] = actors[j]
            /\ actors'["listener"].pc = "signal" /\ actors'["listener"].at = {c}
            /\ actors'["listener"].msg = l.msg /\ actors'["listener"].todo = l.todo
        BY <1>0, <3>1 DEF ActorType
      <3>3. /\ \A d \in Clients : /\ streams'[d].pc = streams[d].pc
                                  /\ streams'[d].shown = streams[d].shown
            /\ \A d \in Clients \ {c} : streams'[d].latest = streams[d].latest
            /\ streams'[c].latest = l.msg.n
        BY <1>0, <3>1 DEF StreamType
      <3>4. l.msg.n # 0
        BY <1>0, <3>1 DEF IInv, CountsPositive, IsVersion, Fewer
      <3>5. /\ ToBeTold(c) /\ ~ToBeTold(c)'
            /\ \A d \in Clients \ {c} : ToBeTold(d)' <=> ToBeTold(d)
        BY <3>1, <3>2 DEF ToBeTold
      <3> QED
        BY <3>2, <3>3, <3>4, <3>5
    <2>2. CASE SignalWriter(a, c)
      <3>1. /\ streams' = [streams EXCEPT ![c].signal = TRUE] /\ Sent(a, c)
            /\ l.pc = "signal" /\ c \in l.at
        BY <1>1, <2>2 DEF SignalWriter, ActorAt
      <3>2. l.at = {c}
        BY <1>3, <3>1
      <3>3. \A d \in Clients : /\ streams'[d].pc = streams[d].pc
                               /\ streams'[d].shown = streams[d].shown
                               /\ streams'[d].latest = streams[d].latest
        BY <1>0, <3>1 DEF StreamType
      <3>4. \A d \in Clients : ToBeTold(d)' <=> ToBeTold(d)
        BY <1>4, <3>1, <3>2 DEF ToBeTold, IdleActor
      <3>5. \A d \in Clients : ToBeTold(d)' => actors'["listener"].msg = l.msg
        BY <1>4, <3>1 DEF ToBeTold, IdleActor
      <3> QED
        BY <1>4, <3>1, <3>3, <3>4, <3>5
    <2>3. CASE SendEvent(a, c)
      <3>1. /\ streams' = [streams EXCEPT ![c].fifo = TrySend(@, l.msg, FifoCap)] /\ Sent(a, c)
            /\ l.msg.kind = "event"
        BY <1>1, <2>3 DEF SendEvent, ActorAt
      <3>2. \A d \in Clients : /\ streams'[d].pc = streams[d].pc
                               /\ streams'[d].shown = streams[d].shown
                               /\ streams'[d].latest = streams[d].latest
        BY <1>0, <3>1 DEF StreamType
      <3>3. \A d \in Clients : ~ToBeTold(d)' /\ ~ToBeTold(d)
        BY <1>4, <3>1 DEF ToBeTold, IdleActor
      <3> QED
        BY <1>4, <3>1, <3>2, <3>3
    <2> QED
      BY <2>1, <2>2, <2>3
  <1>6. ASSUME Told PROVE Told'
    <2> SUFFICES ASSUME NEW d \in Clients, Open(d) PROVE WillShow(d)'
      BY <1>1, <1>5, <1>6 DEF Told, WireShows, Open
    <2>1. WillShow(d)
      BY <1>6 DEF Told
    <2> QED
      BY <1>1, <1>5, <2>1 DEF WillShow
  <1>7. Announced => Announced'
    BY <1>1, <1>5 DEF Announced, PositionDue, PositionQueued, Announces
  <1>8. \A j \in Jobs : CountsPast(j)'
    BY <1>1, <1>5 DEF Shows, CountsPast
  <1> QED
    BY <1>1, <1>5, <1>6, <1>7, <1>8 DEF Shows, Open

\* A stream is opened, shows what it has been sent, or ends.
LEMMA WriterShows ==
    ASSUME IInv, Shows, faults = {}, faults' = {}, NEW c \in Clients,
           \/ Connect(c) \/ SendSnapshot(c) \/ TakeSignal(c) \/ DrainLatest(c)
           \/ TakeEventFrame(c) \/ StreamEnds(c) \/ WriteFails(c)
           \/ Subscribe(c) \/ Unsubscribe(c)
    PROVE  Shows'
  <1> USE DEF queue, channels, process, history, StreamAt
  <1>0. streams \in [Clients -> StreamType]
    BY PlaceTypes
  <1>1. /\ UNCHANGED <<line, handlers, posChan, actors, wire, linkUp, phase, newest>>
        /\ \A d \in Clients : d # c => streams'[d] = streams[d]
    BY <1>0 DEF Connect, SendSnapshot, TakeSignal, DrainLatest, TakeEventFrame, StreamEnds,
                WriteFails, Subscribe, Unsubscribe, StreamGoto
  <1>2. ASSUME ~Open(c)', \A d \in Clients : d # c /\ d \in subs => d \in subs' PROVE Shows'
    BY <1>1, <1>2, StreamShows
  <1>3. ASSUME UNCHANGED subs, Open(c),
               Told => WillShow(c)'
        PROVE  Shows'
    <2>1. phase \in {"up", "draining"} \/ phase \notin {"up", "draining"}
      OBVIOUS
    <2>2. CASE phase \in {"up", "draining"}
      <3>1. c \in subs
        BY <1>3, <2>2 DEF Shows
      <3> QED
        BY <1>1, <1>3, <3>1, StreamShows
    <2>3. CASE phase \notin {"up", "draining"}
      BY <1>1, <2>3 DEF Shows, CountsPast
    <2> QED
      BY <2>2, <2>3
  <1>4. ASSUME Told, Open(c) PROVE WillShow(c)
    BY <1>4 DEF Told
  <1>5. (ToBeTold(c)' <=> ToBeTold(c)) /\ actors'["listener"].msg = actors["listener"].msg
    BY <1>1 DEF ToBeTold
  <1>6. CASE Connect(c) \/ StreamEnds(c) \/ WriteFails(c)
    <2>1. streams'[c].pc \in {"asked", "unsubscribe"} /\ UNCHANGED subs
      BY <1>0, <1>6 DEF Connect, StreamEnds, WriteFails, StreamGoto, StreamType
    <2> QED
      BY <1>2, <2>1 DEF Open
  <1>7. CASE SendSnapshot(c)
    <2>1. /\ streams[c].pc = "snapshot" /\ UNCHANGED subs
          /\ streams'[c].latest = streams[c].latest /\ streams'[c].pc = "loop"
          /\ streams'[c].shown = line
      BY <1>0, <1>7 DEF SendSnapshot, StreamType, Note
    <2> QED
      BY <1>1, <1>3, <1>4, <1>5, <2>1 DEF Open, WillShow
  <1>8. CASE TakeSignal(c)
    <2>1. /\ streams[c].pc = "loop" /\ UNCHANGED subs
          /\ streams'[c].latest = streams[c].latest /\ streams'[c].pc = "drain"
          /\ streams'[c].shown = streams[c].shown
      BY <1>0, <1>8 DEF TakeSignal, StreamType
    <2> QED
      BY <1>1, <1>3, <1>4, <1>5, <2>1 DEF Open, WillShow
  <1>9. CASE DrainLatest(c)
    <2>1. /\ streams[c].pc = "drain" /\ UNCHANGED subs
          /\ streams'[c].latest = 0 /\ streams'[c].pc = "loop"
          /\ streams'[c].shown = IF streams[c].latest # 0 THEN streams[c].latest
                                 ELSE streams[c].shown
      BY <1>0, <1>9 DEF DrainLatest, StreamType
    <2> QED
      BY <1>1, <1>3, <1>4, <1>5, <2>1 DEF Open, WillShow
  <1>10. CASE TakeEventFrame(c)
    <2>1. /\ streams[c].pc = "loop" /\ UNCHANGED subs
          /\ streams'[c].latest = streams[c].latest /\ streams'[c].pc = "loop"
          /\ streams'[c].shown = streams[c].shown
      BY <1>0, <1>10 DEF TakeEventFrame, StreamType
    <2> QED
      BY <1>1, <1>3, <1>4, <1>5, <2>1 DEF Open, WillShow
  <1>11. CASE Subscribe(c)
    <2>1. /\ streams[c].pc = "asked" /\ ~ReadLocked /\ subs' = subs \cup {c}
          /\ streams'[c].latest = streams[c].latest /\ streams'[c].pc = "snapshot"
      BY <1>0, <1>11 DEF Subscribe, StreamType
    <2>2. streams'[c].latest = 0
      BY <2>1 DEF IInv, FreshStreams
    <2>3. ~ToBeTold(c)
      BY <2>1, PlaceTypes DEF ReadLocked, ToBeTold
    <2>4. WillShow(c)'
      BY <1>5, <2>1, <2>2, <2>3 DEF WillShow
    <2> QED
      BY <1>1, <2>1, <2>4, StreamShows
  <1>12. CASE Unsubscribe(c)
    <2>1. streams'[c].pc = "off" /\ subs' = subs \ {c}
      BY <1>0, <1>12 DEF Unsubscribe, NoStream
    <2> QED
      BY <1>2, <2>1 DEF Open
  <1> QED
    BY <1>6, <1>7, <1>8, <1>9, <1>10, <1>11, <1>12

\* No step keeps a stream from showing the line, unless it is a fault.
LEMMA NextShows == IInv /\ ShowInv /\ [Next]_vars => ShowInv'
  <1> SUFFICES ASSUME IInv, ShowInv, [Next]_vars, faults' = {} PROVE Shows'
    BY DEF ShowInv
  <1>1. CASE UNCHANGED vars
    <2>1. Shows
      BY <1>1 DEF vars, history, ShowInv
    <2> QED
      BY <1>1, <2>1, OutsideShows
      DEF vars, queue, channels, broker, process, history, PositionDue, PositionQueued
  <1>2. CASE Next
    <2>1. faults = {} /\ Shows
      BY <1>2, FallbackNoted DEF ShowInv
    <2>2. ASSUME NEW j \in Jobs, PublishFails(j) PROVE FALSE
      BY <2>2 DEF PublishFails, Note
    <2>3. "position" \in Jobs /\ "sweeper" \in Jobs /\ EventJobs \subseteq Jobs
      BY DEF Jobs
    <2>4. CASE Elsewhere
      <3>1. \/ Aside \/ \E h \in Handlers : DispatchEvent(h) \/ DispatchCall(h)
            \/ TimerExpires \/ Receive
            \/ \E j \in Jobs :
                  \/ j = "position" /\ TakePosition
                  \/ j = "sweeper" /\ Sweep
                  \/ j \in EventJobs /\ TakeEvent(j)
                  \/ CountLine(j) \/ Notify(j) \/ JobExits(j) \/ Publish(j)
        BY <2>2, <2>3, <2>4, Zenon DEF Elsewhere, Aside, Request
      <3> QED
        BY <2>1, <3>1, AsideShows, TimerShows, ReceiveShows, TaskShows, PublishShows
    <2>5. CASE BrokerShutdown
      <3>1. /\ phase' = "closed"
            /\ UNCHANGED <<line, actors, linkUp, newest>>
        BY <2>5 DEF BrokerShutdown, queue, channels
      <3> QED
        BY <2>1, <3>1 DEF Shows, CountsPast
    <2> QED
      BY <1>2, <2>1, <2>4, <2>5, StepKinds, SendShows, WriterShows
  <1> QED
    BY <1>1, <1>2

\* At first there is neither a stream nor a message.
LEMMA InitShows == Init => ShowInv
  <1> SUFFICES ASSUME Init PROVE Shows
    BY DEF ShowInv
  <1>1. /\ \A j \in Jobs : actors[j].pc = "idle"
        /\ line = Fewer + 1 /\ newest = 0 /\ linkUp /\ DOMAIN wire = {}
        /\ \A c \in Clients : streams[c].pc = "off"
    BY DEF Init, IdleActor, NoStream, Actors
  <1>2. Told
    BY <1>1 DEF Told, WireShows, Open
  <1>3. newest <= line
    BY <1>1 DEF Fewer
  <1> QED
    BY <1>1, <1>2, <1>3 DEF Shows, CountsPast, Open

\* PositionJob, Broker and Subscriber: a change of the line is dispatched, counted,
\* published, stored and signalled in separate steps, each of which may be merged
\* with that of another change, and a client may connect at any of them.  When all
\* are through, every stream shows the line as it is, unless a message was lost,
\* overtaken, dropped or went past Redis, or a stream began with a cached count that
\* was old or left out the guests who are not WAITING.
THEOREM SettledStreamsShow == Spec => []SettledShows
  <1>1. IInv /\ ShowInv => SettledShows
    <2> SUFFICES ASSUME IInv, ShowInv, Quiet, faults = {}, NEW c \in Clients,
                        StreamAt(c, "loop"), streams[c].latest = 0, phase # "stopped"
                 PROVE  streams[c].shown = line
      BY DEF SettledShows
    <2>1. Shows /\ wire = <<>> /\ posChan = <<>> /\ actors["listener"].pc = "idle"
      BY PlaceTypes DEF ShowInv, Quiet, ActorAt
    <2>2. phase \in {"up", "draining"}
      BY DEF IInv, ShutdownClean, TypeOK, Phases, StreamAt
    <2>3. ~Announced
      <3>1. \A j \in Jobs : actors[j].pc = "idle"
        BY PlaceTypes DEF Quiet, ActorAt
      <3> QED
        BY <2>1, <3>1 DEF Announced, PositionDue, PositionQueued, Announces, Quiet
    <2>4. Told /\ Open(c)
      BY <2>1, <2>2, <2>3 DEF Shows, Open, StreamAt
    <2> QED
      BY <2>1, <2>4 DEF Told, WillShow, NoCount, ToBeTold, StreamAt
  <1> QED
    BY <1>1, InitShows, NextShows, Invariance, PTL DEF Spec
=============================================================================
