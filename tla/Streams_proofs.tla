--------------------------- MODULE Streams_proofs ---------------------------
(***************************************************************************)
(* Proofs about Streams, for every number of clients and handlers, every   *)
(* capacity and every scenario.                                            *)
(*                                                                         *)
(* The properties rest on who may touch a subscriber when: a dispatcher    *)
(* holds the broker's mutex for reading from the copy of the subscribers   *)
(* to the last send, and a subscriber is closed only with the mutex held   *)
(* for writing.  IInv says so state by state.                              *)
(***************************************************************************)
EXTENDS Streams, TLAPS

\* The commands of a request that are still to be called.
Calls == {"event", "position", "invalidate", "call"}

\* A subscriber of the broker is not closed, and its writer is there.
SubsOpen ==
    \A c \in subs : /\ ~streams[c].closed
                    /\ streams[c].pc \in {"snapshot", "loop", "drain", "unsubscribe"}

\* Who sends under the read lock sends to subscribers, and signals one of them.
SendersLocked ==
    \A a \in Actors :
        /\ actors[a].pc \in {"local", "signal"} => actors[a].todo \subseteq subs
        /\ actors[a].pc = "signal" => \E c \in actors[a].todo : actors[a].at = {c}

\* A count on its way is a version of the line, never 0 and never Fewer.
IsVersion(m) == m.kind = "count" => m.n > Fewer
CountsPositive ==
    /\ \A a \in Actors : actors[a].pc \in {"publish", "local", "signal"}
                           => IsVersion(actors[a].msg)
    /\ \A i \in DOMAIN wire : IsVersion(wire[i])

\* A stream that is not subscribed has no count.
FreshStreams == \A c \in Clients : streams[c].pc \in {"off", "asked"} => streams[c].latest = 0

\* After the shutdown of the broker nothing is subscribed, if the server has drained.
ShutdownClean ==
    phase \in {"closed", "cancelled"} /\ "timeout" \notin faults =>
        subs = {} /\ \A c \in Clients : streams[c].pc = "off"

\* The inductive invariant.
IInv == /\ TypeOK
        /\ SubsOpen /\ SendersLocked /\ CountsPositive /\ FreshStreams
        /\ NoLostWakeup /\ ShutdownClean
-----------------------------------------------------------------------------
(* What the steps of an actor, and of a stream, have in common *)

\* Actor a goes on with a message, and with subscribers whom it may send it to.
ActorMoves(a) ==
    /\ actors' \in [Actors -> ActorType]
    /\ \A b \in Actors : b # a => actors'[b] = actors[b]
    /\ actors'[a].pc \in {"local", "signal"} => actors'[a].todo \subseteq subs
    /\ actors'[a].pc = "signal" => \E c \in actors'[a].todo : actors'[a].at = {c}
    /\ actors'[a].pc \in {"publish", "local", "signal"} => IsVersion(actors'[a].msg)

\* The fields of an actor.
LEMMA ActorFields ==
    ASSUME IInv, NEW a \in Actors
    PROVE  /\ actors[a] \in ActorType /\ actors[a].msg \in Message
           /\ actors[a].todo \in SUBSET Clients /\ actors[a].at \in SUBSET Clients
  BY DEF IInv, TypeOK, ActorType

\* An actor that gets another record moves, if that is in order.
LEMMA ActorChanged ==
    ASSUME IInv, NEW a \in Actors, NEW q \in ActorType,
           actors' = [actors EXCEPT ![a] = q],
           q.pc \in {"local", "signal"} => q.todo \subseteq subs,
           q.pc = "signal" => \E c \in q.todo : q.at = {c},
           q.pc \in {"publish", "local", "signal"} => IsVersion(q.msg)
    PROVE  ActorMoves(a) /\ actors'[a] = q
  BY DEF ActorMoves, IInv, TypeOK

\* An actor that is done with its message, or exits.
LEMMA ActorIdlesMoves ==
    ASSUME IInv, NEW a \in Actors, NEW l \in {"idle", "exited"},
           actors' = [actors EXCEPT ![a] = [IdleActor EXCEPT !.pc = l]]
    PROVE  ActorMoves(a) /\ actors'[a].pc = l
  <1> DEFINE q == [IdleActor EXCEPT !.pc = l]
  <1>1. q \in ActorType /\ q.pc = l
    BY DEF IdleActor, ActorType, Nothing, Message
  <1>2. actors' = [actors EXCEPT ![a] = q]
    OBVIOUS
  <1> HIDE DEF q
  <1> QED
    BY <1>1, <1>2, ActorChanged

\* ActorIdles is the record of an actor without a message.
LEMMA IdlesMoves ==
    ASSUME IInv, NEW a \in Actors, ActorIdles(a)
    PROVE  ActorMoves(a) /\ actors'[a].pc = "idle"
  <1>1. IdleActor = [IdleActor EXCEPT !.pc = "idle"]
    BY DEF IdleActor
  <1> QED
    BY <1>1, ActorIdlesMoves DEF ActorIdles

\* An actor that goes on to count or to notify.
LEMMA ActorGotoMoves ==
    ASSUME IInv, NEW a \in Actors, NEW l \in {"count", "notify"}, ActorGoto(a, l)
    PROVE  ActorMoves(a) /\ actors'[a].pc = l
  <1> DEFINE q == [actors[a] EXCEPT !.pc = l]
  <1>1. q \in ActorType /\ q.pc = l
    BY ActorFields DEF ActorType
  <1>2. actors' = [actors EXCEPT ![a] = q]
    BY DEF ActorGoto, IInv, TypeOK
  <1> HIDE DEF q
  <1> QED
    BY <1>1, <1>2, ActorChanged

\* After its message is out, an actor counts, notifies or waits for the next.
LEMMA AfterPublishMoves ==
    ASSUME IInv, NEW a \in Actors, AfterPublish(a)
    PROVE  ActorMoves(a) /\ actors'[a].pc \in {"idle", "count", "notify"}
  BY IdlesMoves, ActorGotoMoves DEF AfterPublish

\* An actor that begins to dispatch a message to the subscribers.
LEMMA DispatchMoves ==
    ASSUME IInv, NEW a \in Actors, NEW q \in ActorType,
           actors' = [actors EXCEPT ![a] = q], q.pc = "local", q.todo = subs, IsVersion(q.msg)
    PROVE  ActorMoves(a) /\ actors'[a].pc = "local"
  BY ActorChanged

\* After a send, one subscriber less is to be sent the message.
LEMMA SentMoves ==
    ASSUME IInv, NEW a \in Actors, NEW c \in Clients, Sent(a, c),
           actors[a].pc \in {"local", "signal"}
    PROVE  ActorMoves(a) /\ actors'[a].pc \in {"idle", "count", "notify", "local"}
  <1>1. CASE actors[a].todo \subseteq {c}
    BY <1>1, IdlesMoves, AfterPublishMoves DEF Sent
  <1>2. CASE ~(actors[a].todo \subseteq {c})
    <2> DEFINE q == [actors[a] EXCEPT !.pc = "local", !.todo = @ \ {c}, !.at = {}]
    <2>1. q \in ActorType /\ q.pc = "local" /\ q.msg = actors[a].msg
            /\ q.todo \subseteq actors[a].todo
      BY ActorFields DEF ActorType
    <2>2. actors' = [actors EXCEPT ![a] = q]
      BY <1>2 DEF Sent, IInv, TypeOK
    <2> HIDE DEF q
    <2>3. q.todo \subseteq subs /\ IsVersion(q.msg)
      BY <2>1 DEF IInv, SendersLocked, CountsPositive, IsVersion
    <2> QED
      BY <2>1, <2>2, <2>3, ActorChanged
  <1> QED
    BY <1>1, <1>2

\* When an actor that does not leave a signal undone moves, and the broker and its
\* streams stay, the invariant does.
LEMMA ActorInv ==
    ASSUME IInv, NEW a \in Actors, ActorMoves(a), actors[a].pc # "signal",
           UNCHANGED <<subs, streams, phase>>, TypeOK', faults \subseteq faults',
           phase # "stopped",
           \A i \in DOMAIN wire' : IsVersion(wire'[i])
    PROVE  IInv'
  <1> USE DEF IInv, ActorMoves
  <1>1. SubsOpen' /\ FreshStreams'
    BY DEF SubsOpen, FreshStreams
  <1>2. SendersLocked'
    BY DEF SendersLocked
  <1>3. CountsPositive'
    BY DEF CountsPositive, IsVersion
  <1>4. NoLostWakeup'
    BY DEF NoLostWakeup, ActorAt, StreamAt
  <1>5. ShutdownClean'
    BY DEF ShutdownClean
  <1> QED
    BY <1>1, <1>2, <1>3, <1>4, <1>5

\* So do the steps that touch neither actors nor streams.
LEMMA OutsideInv ==
    ASSUME IInv, UNCHANGED <<actors, subs, streams>>, TypeOK', ShutdownClean',
           wire' = wire \/ wire' = <<>>
    PROVE  IInv'
  <1> USE DEF IInv
  <1>1. SubsOpen' /\ FreshStreams' /\ SendersLocked'
    BY DEF SubsOpen, FreshStreams, SendersLocked
  <1>2. CountsPositive'
    BY DEF CountsPositive, IsVersion
  <1>3. NoLostWakeup'
    BY DEF NoLostWakeup, ActorAt, StreamAt
  <1> QED
    BY <1>1, <1>2, <1>3
-----------------------------------------------------------------------------
(* Channels and messages *)

\* A send with a default keeps a channel within its capacity.
LEMMA TrySendType ==
    ASSUME NEW S, NEW ch \in Seq(S), NEW m \in S, NEW cap \in Nat, Len(ch) <= cap
    PROVE  /\ TrySend(ch, m, cap) \in Seq(S) /\ Len(TrySend(ch, m, cap)) <= cap
           /\ Len(ch) \in Nat
  BY DEF TrySend

\* What was taken from a channel, and what is left.
LEMMA TakenType ==
    ASSUME NEW S, NEW ch \in Seq(S), ch # <<>>
    PROVE  /\ Head(ch) \in S /\ Tail(ch) \in Seq(S) /\ Len(Tail(ch)) = Len(ch) - 1
           /\ Len(ch) \in Nat
           /\ \A i \in DOMAIN Tail(ch) : i + 1 \in DOMAIN ch /\ Tail(ch)[i] = ch[i + 1]
           /\ Head(ch) = ch[1] /\ 1 \in DOMAIN ch
  OBVIOUS

\* Counts and events are messages.
LEMMA MessageTypes ==
    ASSUME NEW a \in Actors, NEW n \in Nat
    PROVE  /\ Count(a, n) \in Message /\ Event(a, n) \in Message
           /\ (n > Fewer => IsVersion(Count(a, n))) /\ IsVersion(Event(a, n))
  BY DEF Count, Event, Message, IsVersion

\* What goes over Redis.
LEMMA WireAppend ==
    ASSUME IInv, NEW m \in Message, IsVersion(m)
    PROVE  /\ Append(wire, m) \in Seq(Message)
           /\ \A i \in DOMAIN Append(wire, m) : IsVersion(Append(wire, m)[i])
           /\ \A i \in DOMAIN wire : IsVersion(wire[i])
  <1>1. wire \in Seq(Message)
    BY DEF IInv, TypeOK
  <1>2. \A i \in DOMAIN Append(wire, m) :
          (i \in DOMAIN wire /\ Append(wire, m)[i] = wire[i]) \/ Append(wire, m)[i] = m
    BY <1>1
  <1> QED
    BY <1>1, <1>2 DEF IInv, CountsPositive
-----------------------------------------------------------------------------
(* Requests and the clock *)

\* Requests, caches and timers outside the streams.
LEMMA RequestInv ==
    ASSUME IInv, phase # "stopped", NEW h \in Handlers, Request(h) \/ StartRequest(h)
    PROVE  IInv'
  <1> USE DEF queue, channels, broker, process, history
  <1>0. handlers[h] \in Seq(Calls) /\ (handlers[h] # <<>> => Tail(handlers[h]) \in Seq(Calls))
    BY DEF IInv, TypeOK, Calls
  <1>1. ASSUME NEW s, NextCall(h, s) PROVE handlers' \in [Handlers -> Seq(Calls)]
    BY <1>0, <1>1 DEF NextCall, IInv, TypeOK, Calls
  <1>2. CASE DispatchEvent(h)
    <2>1. /\ TrySend(eventChans["host"], events + 1, JobCap) \in Seq(Nat)
          /\ Len(TrySend(eventChans["host"], events + 1, JobCap)) <= JobCap
      <3>1. /\ eventChans["host"] \in Seq(Nat) /\ Len(eventChans["host"]) <= JobCap
            /\ events + 1 \in Nat /\ JobCap \in Nat
        BY StreamsAssumption DEF IInv, TypeOK, EventJobs
      <3> QED
        BY <3>1, TrySendType
    <2>2. TypeOK'
      BY <1>1, <1>2, <2>1 DEF DispatchEvent, IInv, TypeOK, Calls, EventJobs
    <2> QED
      BY <1>2, <2>2, OutsideInv DEF DispatchEvent, IInv, ShutdownClean
  <1>3. CASE DispatchCall(h)
    <2>1. /\ TrySend(eventChans["caller"], events + 1, JobCap) \in Seq(Nat)
          /\ Len(TrySend(eventChans["caller"], events + 1, JobCap)) <= JobCap
      <3>1. /\ eventChans["caller"] \in Seq(Nat) /\ Len(eventChans["caller"]) <= JobCap
            /\ events + 1 \in Nat /\ JobCap \in Nat
        BY StreamsAssumption DEF IInv, TypeOK, EventJobs
      <3> QED
        BY <3>1, TrySendType
    <2>2. TypeOK'
      BY <1>1, <1>3, <2>1 DEF DispatchCall, IInv, TypeOK, Calls, EventJobs
    <2> QED
      BY <1>3, <2>2, OutsideInv DEF DispatchCall, IInv, ShutdownClean
  <1>4. CASE DispatchPosition(h)
    <2>1. /\ TrySend(posChan, "this", JobCap) \in Seq({"this", "other"})
          /\ Len(TrySend(posChan, "this", JobCap)) <= JobCap
      <3>1. /\ posChan \in Seq({"this", "other"}) /\ Len(posChan) <= JobCap
            /\ "this" \in {"this", "other"} /\ JobCap \in Nat
        BY StreamsAssumption DEF IInv, TypeOK
      <3> QED
        BY <3>1, TrySendType
    <2>2. faults' \subseteq FaultKinds /\ faults \subseteq faults' /\ ("timeout" \in faults' => "timeout" \in faults)
      BY <1>4 DEF DispatchPosition, Note, IInv, TypeOK, FaultKinds
    <2>3. TypeOK'
      BY <1>1, <1>4, <2>1, <2>2 DEF DispatchPosition, IInv, TypeOK, Calls
    <2> QED
      BY <1>4, <2>2, <2>3, OutsideInv DEF DispatchPosition, IInv, ShutdownClean
  <1>5. CASE InvalidateSnapshot(h)
    <2>1. TypeOK'
      BY <1>1, <1>5 DEF InvalidateSnapshot, IInv, TypeOK, Calls
    <2> QED
      BY <1>5, <2>1, OutsideInv DEF InvalidateSnapshot, IInv, ShutdownClean
  <1>6. CASE StartRequest(h)
    <2>1. PICK op \in DOMAIN Steps \cap scenario :
            /\ handlers' = [handlers EXCEPT ![h] = Steps[op]]
            /\ line' = IF op = "line" THEN line + 1 ELSE line
            /\ allWaiting' \in StatusesAfter(op)
      BY <1>6 DEF StartRequest
    <2>2. Steps[op] \in Seq(Calls)
      <3>1. op \in {"line", "status", "settings", "next", "recall"}
        BY DEF Steps
      <3>2. /\ <<"event", "position", "invalidate">> \in Seq(Calls)
            /\ <<"event", "invalidate">> \in Seq(Calls)
            /\ <<"position", "invalidate">> \in Seq(Calls)
            /\ <<"position", "invalidate", "call", "event">> \in Seq(Calls)
            /\ <<"call", "event">> \in Seq(Calls)
        BY DEF Calls
      <3>3. /\ Steps["line"] = <<"event", "position", "invalidate">>
            /\ Steps["status"] = <<"event", "invalidate">>
            /\ Steps["settings"] = <<"position", "invalidate">>
            /\ Steps["next"] = <<"position", "invalidate", "call", "event">>
            /\ Steps["recall"] = <<"call", "event">>
        BY DEF Steps
      <3> QED
        BY <3>1, <3>2, <3>3
    <2>3. /\ handlers' \in [Handlers -> Seq(Calls)] /\ line' \in Nat \ 0..Fewer
          /\ allWaiting' \in BOOLEAN
      <3>1. op \in {"line", "status", "settings", "next", "recall"}
        BY DEF Steps
      <3>2. line \in Nat \ 0..Fewer /\ allWaiting \in BOOLEAN
        BY DEF IInv, TypeOK
      <3>3. line' \in Nat \ 0..Fewer
        BY <2>1, <3>2 DEF Fewer
      <3>4. allWaiting' \in BOOLEAN
        BY <2>1, <3>1, <3>2 DEF StatusesAfter
      <3>5. handlers' \in [Handlers -> Seq(Calls)]
        BY <2>1, <2>2 DEF IInv, TypeOK, Calls
      <3> QED
        BY <3>3, <3>4, <3>5
    <2>4. turns' \in 0..MaxTurns
      BY <1>6, StreamsAssumption DEF StartRequest, Turn, IInv, TypeOK
    <2>5. TypeOK'
      BY <1>6, <2>3, <2>4 DEF StartRequest, IInv, TypeOK, Calls
    <2> QED
      BY <1>6, <2>5, OutsideInv DEF StartRequest, IInv, ShutdownClean
  <1> QED
    BY <1>2, <1>3, <1>4, <1>5, <1>6 DEF Request

\* The caches, the link to Redis, the notification workers and the phases of the
\* process up to the shutdown of the broker, and after it.
LEMMA ProcessInv ==
    ASSUME IInv, phase # "stopped",
           \/ DispatchOther \/ ReadStatus \/ FillSnapshot \/ SnapshotExpires
           \/ LinkDrops \/ Reconnect
           \/ StopServing \/ CancelContext \/ ClosePool \/ WorkerTakes \/ WorkerDone
           \/ StopProcess
    PROVE  IInv'
  <1> USE DEF queue, channels, broker, process, history
  <1>0. /\ MaxTurns \in Nat /\ JobCap \in Nat /\ PoolCap \in Nat /\ Workers \in Nat
    BY StreamsAssumption
  <1>00. ASSUME Turn PROVE turns' \in 0..MaxTurns
    BY <1>0, <1>00 DEF Turn, IInv, TypeOK
  <1>1. CASE DispatchOther
    <2>1. posChan' \in Seq({"this", "other"}) /\ Len(posChan') <= JobCap
      BY <1>0, <1>1 DEF DispatchOther, IInv, TypeOK
    <2>2. TypeOK' /\ ShutdownClean'
      BY <1>00, <1>1, <2>1 DEF DispatchOther, IInv, TypeOK, ShutdownClean
    <2> QED
      BY <1>1, <2>2, OutsideInv DEF DispatchOther
  <1>2. CASE ReadStatus
    <2>1. TypeOK' /\ ShutdownClean'
      BY <1>2, <1>00 DEF ReadStatus, StatusCount, Fewer, IInv, TypeOK, ShutdownClean
    <2> QED
      BY <1>2, <2>1, OutsideInv DEF ReadStatus
  <1>3. CASE FillSnapshot
    <2>1. TypeOK' /\ ShutdownClean'
      BY <1>3 DEF FillSnapshot, IInv, TypeOK, ShutdownClean
    <2> QED
      BY <1>3, <2>1, OutsideInv DEF FillSnapshot
  <1>4. CASE SnapshotExpires
    <2>1. TypeOK' /\ ShutdownClean'
      BY <1>4 DEF SnapshotExpires, IInv, TypeOK, ShutdownClean
    <2> QED
      BY <1>4, <2>1, OutsideInv DEF SnapshotExpires
  <1>5. CASE LinkDrops
    <2>0. faults' = faults \cup {"lost"} /\ wire' = <<>> /\ wire' \in Seq(Message)
      BY <1>5 DEF LinkDrops, Note
    <2>1. TypeOK' /\ ShutdownClean'
      <3>1. TypeOK'
        BY <1>5, <1>00, <2>0 DEF LinkDrops, IInv, TypeOK, FaultKinds
      <3>2. ShutdownClean'
        BY <1>5, <2>0 DEF LinkDrops, IInv, ShutdownClean
      <3> QED
        BY <3>1, <3>2
    <2> QED
      BY <1>5, <2>1, OutsideInv DEF LinkDrops
  <1>6. CASE Reconnect
    <2>1. TypeOK' /\ ShutdownClean'
      BY <1>6 DEF Reconnect, IInv, TypeOK, ShutdownClean
    <2> QED
      BY <1>6, <2>1, OutsideInv DEF Reconnect
  <1>7. CASE StopServing
    <2>1. TypeOK' /\ ShutdownClean'
      BY <1>7 DEF StopServing, IInv, TypeOK, ShutdownClean, Phases
    <2> QED
      BY <1>7, <2>1, OutsideInv DEF StopServing
  <1>8. CASE CancelContext
    <2>1. TypeOK' /\ ShutdownClean'
      BY <1>8 DEF CancelContext, IInv, TypeOK, ShutdownClean, Phases
    <2> QED
      BY <1>8, <2>1, OutsideInv DEF CancelContext
  <1>9. CASE ClosePool
    <2>1. TypeOK' /\ ShutdownClean'
      BY <1>9 DEF ClosePool, IInv, TypeOK, ShutdownClean
    <2> QED
      BY <1>9, <2>1, OutsideInv DEF ClosePool
  <1>10. CASE WorkerTakes
    <2>1. TypeOK' /\ ShutdownClean'
      BY <1>10, <1>0 DEF WorkerTakes, IInv, TypeOK, ShutdownClean
    <2> QED
      BY <1>10, <2>1, OutsideInv DEF WorkerTakes
  <1>11. CASE WorkerDone
    <2>1. TypeOK' /\ ShutdownClean'
      BY <1>11, <1>0 DEF WorkerDone, IInv, TypeOK, ShutdownClean
    <2> QED
      BY <1>11, <2>1, OutsideInv DEF WorkerDone
  <1>12. CASE StopProcess
    <2>1. TypeOK' /\ ShutdownClean'
      BY <1>12 DEF StopProcess, IInv, TypeOK, ShutdownClean, Phases
    <2> QED
      BY <1>12, <2>1, OutsideInv DEF StopProcess
  <1> QED
    BY <1>1, <1>2, <1>3, <1>4, <1>5, <1>6, <1>7, <1>8, <1>9, <1>10, <1>11, <1>12
-----------------------------------------------------------------------------
(* The jobs and the listener *)

\* What an actor takes from its channel, a ticker or Redis' keyspace events.
LEMMA TakeInv ==
    ASSUME IInv, phase # "stopped",
           \/ TakePosition \/ Sweep \/ TimerExpires \/ Receive
           \/ \E j \in EventJobs : TakeEvent(j)
    PROVE  IInv'
  <1> USE DEF queue, channels, broker, process, history, ActorAt
  <1>1. CASE TakePosition
    <2>1. posChan' \in Seq({"this", "other"}) /\ Len(posChan') <= JobCap
      <3>1. posChan \in Seq({"this", "other"}) /\ posChan # <<>> /\ Len(posChan) <= JobCap
        BY <1>1 DEF TakePosition, IInv, TypeOK
      <3>2. Len(posChan) \in Nat /\ JobCap \in Nat
        BY <3>1, StreamsAssumption
      <3> QED
        BY <1>1, <3>1, <3>2, TakenType DEF TakePosition
    <2>2. CASE ActorGoto("position", "count")
      <3>1. ActorMoves("position")
        BY <2>2, ActorGotoMoves DEF Actors, Jobs
      <3>2. TypeOK'
        BY <1>1, <2>1, <3>1 DEF TakePosition, IInv, TypeOK, ActorMoves
      <3> QED
        BY <1>1, <3>1, <3>2, ActorInv
        DEF TakePosition, Actors, Jobs, IInv, CountsPositive
    <2>3. CASE UNCHANGED actors
      <3>1. TypeOK' /\ ShutdownClean'
        BY <1>1, <2>1, <2>3 DEF TakePosition, IInv, TypeOK, ShutdownClean
      <3> QED
        BY <1>1, <2>3, <3>1, OutsideInv DEF TakePosition
    <2> QED
      BY <1>1, <2>2, <2>3 DEF TakePosition
  <1>2. CASE Sweep
    <2>1. ActorMoves("sweeper")
      BY <1>2, ActorGotoMoves DEF Sweep, Actors, Jobs
    <2>2. TypeOK'
      BY <1>2, <2>1 DEF Sweep, IInv, TypeOK, ActorMoves
    <2> QED
      BY <1>2, <2>1, <2>2, ActorInv DEF Sweep, Actors, Jobs, IInv, CountsPositive
  <1>3. CASE TimerExpires
    <2> DEFINE q == [IdleActor EXCEPT !.pc = "publish", !.msg = Event("keyspace", events + 1)]
    <2>0. "keyspace" \in Actors /\ events + 1 \in Nat
            /\ IsVersion(Event("keyspace", events + 1))
      BY DEF Actors, Jobs, IInv, TypeOK, IsVersion, Event
    <2>1. q \in ActorType /\ q.pc = "publish" /\ q.msg = Event("keyspace", events + 1)
      BY <2>0, MessageTypes DEF IdleActor, ActorType
    <2>2. actors' = [actors EXCEPT !["keyspace"] = q]
      BY <1>3 DEF TimerExpires
    <2> HIDE DEF q
    <2>3. ActorMoves("keyspace")
      BY <2>0, <2>1, <2>2, ActorChanged
    <2>4. turns' \in 0..MaxTurns
      <3>1. Turn /\ turns \in 0..MaxTurns
        BY <1>3 DEF TimerExpires, IInv, TypeOK
      <3> QED
        BY <3>1, StreamsAssumption DEF Turn
    <2>5. TypeOK'
      BY <1>3, <2>3, <2>4 DEF TimerExpires, IInv, TypeOK, ActorMoves
    <2> QED
      BY <1>3, <2>0, <2>3, <2>5, ActorInv DEF TimerExpires, IInv, CountsPositive
  <1>4. CASE Receive
    <2>0. /\ wire' \in Seq(Message) /\ Head(wire) \in Message /\ IsVersion(Head(wire))
          /\ \A i \in DOMAIN wire' : IsVersion(wire'[i])
      <3>1. wire \in Seq(Message) /\ wire # <<>> /\ wire' = Tail(wire)
        BY <1>4 DEF Receive, IInv, TypeOK
      <3> QED
        BY <3>1, TakenType DEF IInv, CountsPositive
    <2>1. CASE subs = {}
      <3>1. TypeOK' /\ ShutdownClean'
        BY <1>4, <2>0, <2>1 DEF Receive, IInv, TypeOK, ShutdownClean
      <3> USE <1>4, <2>1 DEF IInv, Receive
      <3>2. SubsOpen' /\ SendersLocked' /\ FreshStreams' /\ NoLostWakeup'
        BY DEF SubsOpen, SendersLocked, FreshStreams, NoLostWakeup, StreamAt
      <3>3. CountsPositive'
        BY <2>0 DEF CountsPositive, IsVersion
      <3> QED
        BY <3>1, <3>2, <3>3
    <2>2. CASE subs # {}
      <3> DEFINE q == [IdleActor EXCEPT !.pc = "local", !.msg = Head(wire), !.todo = subs]
      <3>0. "listener" \in Actors /\ subs \in SUBSET Clients
        BY DEF Actors, IInv, TypeOK
      <3>1. q \in ActorType /\ q.pc = "local" /\ q.todo = subs /\ q.msg = Head(wire)
        BY <2>0, <3>0 DEF IdleActor, ActorType
      <3>2. actors' = [actors EXCEPT !["listener"] = q]
        BY <1>4, <2>2 DEF Receive
      <3> HIDE DEF q
      <3>3. ActorMoves("listener")
        BY <2>0, <3>0, <3>1, <3>2, DispatchMoves
      <3>4. TypeOK'
        BY <1>4, <2>0, <3>3 DEF Receive, IInv, TypeOK, ActorMoves
      <3> QED
        BY <1>4, <2>0, <3>0, <3>3, <3>4, ActorInv DEF Receive
    <2> QED
      BY <2>1, <2>2
  <1>5. ASSUME NEW j \in EventJobs, TakeEvent(j) PROVE IInv'
    <2>0. /\ Head(eventChans[j]) \in Nat /\ Tail(eventChans[j]) \in Seq(Nat)
          /\ Len(Tail(eventChans[j])) <= JobCap
      <3>1. /\ eventChans[j] \in Seq(Nat) /\ eventChans[j] # <<>>
            /\ Len(eventChans[j]) <= JobCap /\ JobCap \in Nat
        BY <1>5, StreamsAssumption DEF TakeEvent, IInv, TypeOK
      <3> QED
        BY <3>1, TakenType
    <2> DEFINE q == [IdleActor EXCEPT !.pc = "publish", !.msg = Event(j, Head(eventChans[j]))]
    <2>1. j \in Actors
      BY DEF Actors, Jobs
    <2>2. /\ q \in ActorType /\ q.pc = "publish" /\ q.msg = Event(j, Head(eventChans[j]))
      BY <2>0, <2>1, MessageTypes DEF IdleActor, ActorType
    <2>3. actors' = [actors EXCEPT ![j] = q]
      BY <1>5 DEF TakeEvent
    <2> HIDE DEF q
    <2>4. ActorMoves(j)
      <3>1. IsVersion(Event(j, Head(eventChans[j])))
        BY <2>0, <2>1, MessageTypes, Zenon
      <3>2. IsVersion(q.msg)
        BY <2>2, <3>1, Zenon
      <3> QED
        BY <2>1, <2>2, <2>3, <3>2, ActorChanged
    <2>5. TypeOK'
      BY <1>5, <2>0, <2>4 DEF TakeEvent, IInv, TypeOK, ActorMoves
    <2> QED
      BY <1>5, <2>1, <2>4, <2>5, ActorInv DEF TakeEvent, IInv, CountsPositive
  <1> QED
    BY <1>1, <1>2, <1>3, <1>4, <1>5

\* What an actor does with its message: it counts, publishes and notifies.
LEMMA PublisherInv ==
    ASSUME IInv, phase # "stopped", NEW a \in Jobs,
           CountLine(a) \/ Publish(a) \/ PublishFails(a) \/ Notify(a) \/ JobExits(a)
    PROVE  IInv'
  <1> USE DEF queue, channels, broker, process, history, ActorAt
  <1>0. /\ a \in Actors /\ actors[a] \in ActorType /\ line \in Nat /\ line > Fewer
        /\ \A i \in DOMAIN wire : IsVersion(wire[i])
    BY ActorFields DEF Actors, Fewer, IInv, TypeOK, CountsPositive
  <1>1. CASE CountLine(a)
    <2>1. ActorMoves(a)
      <3>1. CASE ActorIdles(a)
        BY <1>0, <3>1, IdlesMoves
      <3>2. CASE actors' = [actors EXCEPT ![a].pc = "publish", ![a].msg = Count(a, line)]
        <4> DEFINE q == [actors[a] EXCEPT !.pc = "publish", !.msg = Count(a, line)]
        <4>1. /\ q \in ActorType /\ q.pc = "publish" /\ q.msg = Count(a, line)
              /\ IsVersion(Count(a, line))
          BY <1>0, MessageTypes DEF ActorType
        <4>2. actors' = [actors EXCEPT ![a] = q]
          BY <1>0, <3>2 DEF IInv, TypeOK
        <4> HIDE DEF q
        <4> QED
          BY <1>0, <4>1, <4>2, ActorChanged
      <3> QED
        BY <1>1, <3>1, <3>2 DEF CountLine
    <2>2. TypeOK'
      BY <1>1, <2>1 DEF CountLine, IInv, TypeOK, ActorMoves
    <2> QED
      BY <1>0, <1>1, <2>1, <2>2, ActorInv DEF CountLine
  <1>2. CASE Publish(a) \/ PublishFails(a)
    <2>0. actors[a].pc = "publish" /\ actors[a].msg \in Message /\ IsVersion(actors[a].msg)
      BY <1>0, <1>2, ActorFields DEF Publish, PublishFails, IInv, CountsPositive
    <2>1. ActorMoves(a)
      <3>1. CASE AfterPublish(a)
        BY <1>0, <3>1, AfterPublishMoves
      <3>2. CASE actors' = [actors EXCEPT ![a].pc = "local", ![a].todo = subs]
        <4> DEFINE q == [actors[a] EXCEPT !.pc = "local", !.todo = subs]
        <4>1. /\ q \in ActorType /\ q.pc = "local" /\ q.todo = subs /\ q.msg = actors[a].msg
          BY <1>0 DEF ActorType, IInv, TypeOK
        <4>2. actors' = [actors EXCEPT ![a] = q]
          BY <1>0, <3>2 DEF IInv, TypeOK
        <4> HIDE DEF q
        <4> QED
          BY <1>0, <2>0, <4>1, <4>2, DispatchMoves
      <3> QED
        BY <1>2, <3>1, <3>2 DEF Publish, PublishFails
    <2>2. wire' \in Seq(Message) /\ \A i \in DOMAIN wire' : IsVersion(wire'[i])
      <3>1. wire' = wire \/ wire' = Append(wire, actors[a].msg)
        BY <1>2 DEF Publish, PublishFails
      <3> QED
        BY <2>0, <3>1, WireAppend DEF IInv, TypeOK
    <2>3. faults' \subseteq FaultKinds /\ faults \subseteq faults'
      BY <1>2 DEF Publish, PublishFails, NotePublished, Note, FaultKinds, IInv, TypeOK
    <2>4. newest' \in Nat /\ turns' \in 0..MaxTurns
      <3>1. actors[a].msg.n \in Nat /\ newest \in Nat /\ turns \in 0..MaxTurns
        BY <2>0 DEF Message, IInv, TypeOK
      <3>2. newest' \in Nat
        BY <1>2, <3>1 DEF Publish, PublishFails, NotePublished
      <3>3. turns' \in 0..MaxTurns
        <4>1. turns' = turns \/ (turns < MaxTurns /\ turns' = turns + 1)
          BY <1>2 DEF Publish, PublishFails, Turn
        <4>2. MaxTurns \in Nat
          BY StreamsAssumption
        <4> QED
          BY <3>1, <4>1, <4>2
      <3> QED
        BY <3>2, <3>3
    <2>5. UNCHANGED <<queue, channels, linkUp, subs, streams, process>>
      BY <1>2 DEF Publish, PublishFails
    <2>6. TypeOK'
      BY <2>1, <2>2, <2>3, <2>4, <2>5 DEF IInv, TypeOK, ActorMoves
    <2> QED
      BY <1>0, <2>0, <2>1, <2>2, <2>3, <2>5, <2>6, ActorInv
  <1>3. CASE Notify(a)
    <2>1. ActorMoves(a)
      BY <1>0, <1>3, IdlesMoves, ActorIdlesMoves DEF Notify
    <2>2. pool' \in 0..PoolCap
      BY <1>3, StreamsAssumption DEF Notify, IInv, TypeOK
    <2>3. TypeOK'
      BY <1>3, <2>1, <2>2 DEF Notify, IInv, TypeOK, ActorMoves
    <2> QED
      BY <1>0, <1>3, <2>1, <2>3, ActorInv DEF Notify
  <1>4. CASE JobExits(a)
    <2>1. ActorMoves(a)
      BY <1>0, <1>4, ActorIdlesMoves DEF JobExits
    <2>2. TypeOK'
      BY <1>4, <2>1 DEF JobExits, IInv, TypeOK, ActorMoves
    <2> QED
      BY <1>0, <1>4, <2>1, <2>2, ActorInv DEF JobExits
  <1> QED
    BY <1>1, <1>2, <1>3, <1>4
-----------------------------------------------------------------------------
(* Sending *)

\* A stream that gets another record.
LEMMA StreamChanged ==
    ASSUME IInv, NEW c \in Clients, NEW q \in StreamType, Len(q.fifo) <= FifoCap,
           streams' = [streams EXCEPT ![c] = q]
    PROVE  /\ streams' \in [Clients -> StreamType] /\ streams'[c] = q
           /\ \A d \in Clients : d # c => streams'[d] = streams[d]
           /\ \A d \in Clients : Len(streams'[d].fifo) <= FifoCap
  BY DEF IInv, TypeOK

\* A send keeps the invariant: it holds the lock, the subscriber is open, and the
\* signal follows the count.
LEMMA SendInv ==
    ASSUME IInv, phase # "stopped", NEW a \in Actors, NEW c \in Clients,
           StoreLatest(a, c) \/ SignalWriter(a, c) \/ SendEvent(a, c)
    PROVE  IInv'
  <1> USE DEF queue, channels, broker, process, history, ActorAt
  <1>0. /\ UNCHANGED <<queue, channels, wire, linkUp, subs, process, history>>
        /\ streams[c] \in StreamType /\ Len(streams[c].fifo) <= FifoCap
        /\ c \in subs
    BY ActorFields DEF StoreLatest, SignalWriter, SendEvent, IInv, TypeOK, SendersLocked
  <1>1. CASE StoreLatest(a, c) /\ ~streams[c].closed
    <2> DEFINE q == [streams[c] EXCEPT !.latest = actors[a].msg.n]
               m == [actors[a] EXCEPT !.pc = "signal", !.at = {c}]
    <2>0. /\ actors[a].msg.n \in Nat /\ actors[a].todo \subseteq subs /\ c \in actors[a].todo
          /\ IsVersion(actors[a].msg) /\ actors[a].pc = "local" /\ actors[a] \in ActorType
      BY <1>1, ActorFields DEF StoreLatest, Message, IInv, SendersLocked, CountsPositive
    <2>1. q \in StreamType /\ q.pc = streams[c].pc /\ q.closed = streams[c].closed
            /\ q.fifo = streams[c].fifo
      BY <1>0, <2>0 DEF StreamType
    <2>2. streams' = [streams EXCEPT ![c] = q]
      BY <1>1 DEF StoreLatest, IInv, TypeOK
    <2>3. /\ m \in ActorType /\ m.pc = "signal" /\ m.at = {c} /\ m.todo = actors[a].todo
          /\ m.msg = actors[a].msg
      BY <2>0 DEF ActorType
    <2>4. actors' = [actors EXCEPT ![a] = m]
      BY <1>1 DEF StoreLatest, IInv, TypeOK
    <2> HIDE DEF q, m
    <2>5. ActorMoves(a) /\ actors'[a] = m
      BY <2>0, <2>3, <2>4, ActorChanged
    <2>6. /\ streams' \in [Clients -> StreamType] /\ streams'[c] = q
          /\ \A d \in Clients : d # c => streams'[d] = streams[d]
          /\ \A d \in Clients : Len(streams'[d].fifo) <= FifoCap
      BY <1>0, <2>1, <2>2, StreamChanged
    <2> USE <1>0 DEF IInv
    <2>7. TypeOK'
      BY <2>5, <2>6 DEF TypeOK, ActorMoves
    <2>8. SubsOpen' /\ FreshStreams'
      BY <2>1, <2>6 DEF SubsOpen, FreshStreams, TypeOK
    <2>9. SendersLocked' /\ CountsPositive'
      BY <2>5 DEF SendersLocked, CountsPositive, ActorMoves, IsVersion
    <2>10. NoLostWakeup'
      <3>1. ASSUME NEW d \in Clients, d # c, streams'[d].latest # 0, ~streams'[d].closed
            PROVE  \/ streams'[d].signal \/ streams'[d].pc \in {"drain", "unsubscribe"}
                   \/ \E b \in Actors : actors'[b].pc = "signal" /\ d \in actors'[b].at
        <4>1. \/ streams[d].signal \/ streams[d].pc \in {"drain", "unsubscribe"}
              \/ \E b \in Actors : actors[b].pc = "signal" /\ d \in actors[b].at
          BY <2>6, <3>1 DEF NoLostWakeup, StreamAt
        <4> QED
          BY <2>0, <2>5, <2>6, <3>1, <4>1 DEF ActorMoves
      <3>2. actors'[a].pc = "signal" /\ c \in actors'[a].at
        BY <2>3, <2>5
      <3> QED
        BY <3>1, <3>2 DEF NoLostWakeup, StreamAt
    <2>11. ShutdownClean'
      BY <2>1, <2>6 DEF ShutdownClean
    <2> QED
      BY <2>7, <2>8, <2>9, <2>10, <2>11
  <1>2. CASE SignalWriter(a, c)
    <2> DEFINE q == [streams[c] EXCEPT !.signal = TRUE]
    <2>0. actors[a].pc = "signal" /\ actors[a].at = {c}
      BY <1>2 DEF SignalWriter, IInv, SendersLocked
    <2>1. q \in StreamType /\ q.pc = streams[c].pc /\ q.closed = streams[c].closed
            /\ q.fifo = streams[c].fifo /\ q.signal /\ q.latest = streams[c].latest
      BY <1>0 DEF StreamType
    <2>2. streams' = [streams EXCEPT ![c] = q]
      BY <1>2 DEF SignalWriter, IInv, TypeOK
    <2> HIDE DEF q
    <2>3. ActorMoves(a)
      BY <1>2, <2>0, SentMoves DEF SignalWriter
    <2>4. /\ streams' \in [Clients -> StreamType] /\ streams'[c] = q
          /\ \A d \in Clients : d # c => streams'[d] = streams[d]
          /\ \A d \in Clients : Len(streams'[d].fifo) <= FifoCap
      BY <1>0, <2>1, <2>2, StreamChanged
    <2> USE <1>0 DEF IInv
    <2>5. TypeOK'
      BY <2>3, <2>4 DEF TypeOK, ActorMoves
    <2>6. SubsOpen' /\ FreshStreams'
      BY <2>1, <2>4 DEF SubsOpen, FreshStreams, TypeOK
    <2>7. SendersLocked' /\ CountsPositive'
      BY <2>3 DEF SendersLocked, CountsPositive, ActorMoves, IsVersion
    <2>8. NoLostWakeup'
      <3>1. ASSUME NEW d \in Clients, d # c, streams'[d].latest # 0, ~streams'[d].closed
            PROVE  \/ streams'[d].signal \/ streams'[d].pc \in {"drain", "unsubscribe"}
                   \/ \E b \in Actors : actors'[b].pc = "signal" /\ d \in actors'[b].at
        <4>1. \/ streams[d].signal \/ streams[d].pc \in {"drain", "unsubscribe"}
              \/ \E b \in Actors : actors[b].pc = "signal" /\ d \in actors[b].at
          BY <2>4, <3>1 DEF NoLostWakeup, StreamAt
        <4> QED
          BY <2>0, <2>3, <2>4, <3>1, <4>1 DEF ActorMoves
      <3> QED
        BY <2>1, <2>4, <3>1 DEF NoLostWakeup, StreamAt
    <2>9. ShutdownClean'
      BY <2>1, <2>4 DEF ShutdownClean
    <2> QED
      BY <2>5, <2>6, <2>7, <2>8, <2>9
  <1>3. CASE SendEvent(a, c)
    <2> DEFINE q == [streams[c] EXCEPT !.fifo = TrySend(@, actors[a].msg, FifoCap)]
    <2>0. /\ actors[a].pc = "local" /\ actors[a].msg \in Message
          /\ streams[c].fifo \in Seq(Message) /\ FifoCap \in Nat
      BY <1>0, <1>3, ActorFields, StreamsAssumption DEF SendEvent, StreamType
    <2>1. /\ TrySend(streams[c].fifo, actors[a].msg, FifoCap) \in Seq(Message)
          /\ Len(TrySend(streams[c].fifo, actors[a].msg, FifoCap)) <= FifoCap
      BY <1>0, <2>0, TrySendType
    <2>2. q \in StreamType /\ q.pc = streams[c].pc /\ q.closed = streams[c].closed
            /\ q.signal = streams[c].signal /\ q.latest = streams[c].latest
            /\ Len(q.fifo) <= FifoCap
      BY <1>0, <2>1 DEF StreamType
    <2>3. streams' = [streams EXCEPT ![c] = q]
      BY <1>3 DEF SendEvent, IInv, TypeOK
    <2> HIDE DEF q
    <2>4. ActorMoves(a)
      BY <1>3, <2>0, SentMoves DEF SendEvent
    <2>5. /\ streams' \in [Clients -> StreamType] /\ streams'[c] = q
          /\ \A d \in Clients : d # c => streams'[d] = streams[d]
          /\ \A d \in Clients : Len(streams'[d].fifo) <= FifoCap
      BY <2>2, <2>3, StreamChanged
    <2> USE <1>0 DEF IInv
    <2>6. TypeOK'
      BY <2>4, <2>5 DEF TypeOK, ActorMoves
    <2>7. SubsOpen' /\ FreshStreams'
      BY <2>2, <2>5 DEF SubsOpen, FreshStreams, TypeOK
    <2>8. SendersLocked' /\ CountsPositive'
      BY <2>4 DEF SendersLocked, CountsPositive, ActorMoves, IsVersion
    <2>9. NoLostWakeup'
      <3>1. ASSUME NEW d \in Clients, streams'[d].latest # 0, ~streams'[d].closed
            PROVE  \/ streams'[d].signal \/ streams'[d].pc \in {"drain", "unsubscribe"}
                   \/ \E b \in Actors : actors'[b].pc = "signal" /\ d \in actors'[b].at
        <4>1. /\ streams'[d].latest = streams[d].latest /\ streams'[d].pc = streams[d].pc
              /\ streams'[d].closed = streams[d].closed
              /\ streams'[d].signal = streams[d].signal
          BY <2>2, <2>5
        <4>2. \/ streams[d].signal \/ streams[d].pc \in {"drain", "unsubscribe"}
              \/ \E b \in Actors : actors[b].pc = "signal" /\ d \in actors[b].at
          BY <3>1, <4>1 DEF NoLostWakeup, StreamAt
        <4> QED
          BY <2>0, <2>4, <4>1, <4>2 DEF ActorMoves
      <3> QED
        BY <3>1 DEF NoLostWakeup, StreamAt
    <2>10. ShutdownClean'
      BY <2>2, <2>5 DEF ShutdownClean
    <2> QED
      BY <2>6, <2>7, <2>8, <2>9, <2>10
  <1> QED
    BY <1>0, <1>1, <1>2, <1>3 DEF IInv, SubsOpen
-----------------------------------------------------------------------------
(* The writers and the shutdown *)

\* A step of a stream that stays subscribed, or is not, keeps the invariant, if it
\* leaves no count without a wake-up.
LEMMA WriterInv ==
    ASSUME IInv, phase # "stopped", NEW c \in Clients, NEW q \in StreamType,
           streams' = [streams EXCEPT ![c] = q],
           UNCHANGED <<queue, channels, actors, wire, linkUp, subs, process, newest>>,
           turns' \in 0..MaxTurns, faults \subseteq faults', faults' \subseteq FaultKinds,
           Len(q.fifo) <= FifoCap, q.closed = streams[c].closed,
           streams[c].pc \in {"snapshot", "loop", "drain"} =>
             q.pc \in {"snapshot", "loop", "drain", "unsubscribe"},
           streams[c].pc \in {"off", "asked"} => q.pc = "asked" /\ phase = "up" /\ q.latest = 0,
           streams[c].pc # "unsubscribe",
           q.latest # 0 /\ ~q.closed => \/ q.signal \/ q.pc \in {"drain", "unsubscribe"}
                                        \/ q.latest = streams[c].latest /\ ~streams[c].signal
                                             /\ streams[c].pc \in {"snapshot", "loop"}
    PROVE  IInv'
  <1> USE DEF queue, channels, process
  <1>1. /\ streams' \in [Clients -> StreamType] /\ streams'[c] = q
        /\ \A d \in Clients : d # c => streams'[d] = streams[d]
        /\ \A d \in Clients : Len(streams'[d].fifo) <= FifoCap
    BY StreamChanged
  <1> USE DEF IInv
  <1>2. TypeOK'
    BY <1>1 DEF TypeOK
  <1>3. streams[c].pc \in {"off", "asked", "snapshot", "loop", "drain"}
    BY DEF TypeOK, StreamType
  <1>4. SubsOpen' /\ FreshStreams'
    BY <1>1, <1>3 DEF SubsOpen, FreshStreams
  <1>5. SendersLocked' /\ CountsPositive'
    BY DEF SendersLocked, CountsPositive, IsVersion
  <1>6. NoLostWakeup'
    BY <1>1 DEF NoLostWakeup, StreamAt, ActorAt
  <1>7. ShutdownClean'
    BY <1>1, <1>3 DEF ShutdownClean
  <1> QED
    BY <1>2, <1>4, <1>5, <1>6, <1>7

\* The writer's loop, its start and its end.
LEMMA LoopInv ==
    ASSUME IInv, phase # "stopped", NEW c \in Clients,
           \/ Connect(c) \/ SendSnapshot(c) \/ TakeSignal(c) \/ DrainLatest(c)
           \/ TakeEventFrame(c) \/ StreamEnds(c) \/ WriteFails(c)
    PROVE  IInv'
  <1> USE DEF StreamAt, StreamGoto, history
  <1>0. /\ streams[c] \in StreamType /\ Len(streams[c].fifo) <= FifoCap
        /\ streams[c].fifo \in Seq(Message) /\ streams[c].latest \in Nat
        /\ turns \in 0..MaxTurns /\ faults \subseteq FaultKinds /\ FifoCap \in Nat
        /\ MaxTurns \in Nat
    BY StreamsAssumption DEF IInv, TypeOK, StreamType
  <1>1. ASSUME Turn PROVE turns' \in 0..MaxTurns
    BY <1>0, <1>1 DEF Turn
  <1>2. CASE Connect(c)
    <2> DEFINE q == [streams[c] EXCEPT !.pc = "asked"]
    <2>1. /\ q \in StreamType /\ q.pc = "asked" /\ q.closed = streams[c].closed
          /\ q.latest = streams[c].latest /\ q.fifo = streams[c].fifo
      BY <1>0 DEF StreamType
    <2>2. streams[c].pc = "off" /\ streams[c].latest = 0 /\ phase = "up"
      BY <1>2 DEF Connect, IInv, FreshStreams
    <2>3. streams' = [streams EXCEPT ![c] = q]
      BY <1>2 DEF Connect, IInv, TypeOK
    <2> HIDE DEF q
    <2> QED
      BY <1>0, <1>1, <1>2, <2>1, <2>2, <2>3, WriterInv DEF Connect
  <1>3. CASE SendSnapshot(c)
    <2>0. PICK v \in Nat :
            /\ streams' = [streams EXCEPT ![c].pc = "loop", ![c].shown = v]
            /\ Note(IF v = Fewer THEN "miscounted" ELSE "stale", v # line)
      BY <1>3 DEF SendSnapshot, IInv, TypeOK
    <2> DEFINE q == [streams[c] EXCEPT !.pc = "loop", !.shown = v]
    <2>1. /\ q \in StreamType /\ q.pc = "loop" /\ q.closed = streams[c].closed
          /\ q.latest = streams[c].latest /\ q.fifo = streams[c].fifo
          /\ q.signal = streams[c].signal
      BY <1>0 DEF StreamType
    <2>2. streams[c].pc = "snapshot"
      BY <1>3 DEF SendSnapshot
    <2>3. streams' = [streams EXCEPT ![c] = q]
      BY <2>0 DEF IInv, TypeOK
    <2>4. faults \subseteq faults' /\ faults' \subseteq FaultKinds
      BY <1>0, <2>0 DEF Note, FaultKinds
    <2> HIDE DEF q
    <2> QED
      <3>1. /\ UNCHANGED <<queue, channels, actors, wire, linkUp, subs, process, newest>>
            /\ turns' \in 0..MaxTurns
        BY <1>0, <1>3 DEF SendSnapshot
      <3>2. Len(q.fifo) <= FifoCap /\ q.latest = streams[c].latest /\ q.signal = streams[c].signal
        BY <1>0, <2>1
      <3> QED
        BY <1>0, <2>1, <2>2, <2>3, <2>4, <3>1, <3>2, WriterInv
  <1>4. CASE TakeSignal(c)
    <2> DEFINE q == [streams[c] EXCEPT !.pc = "drain", !.signal = FALSE]
    <2>1. /\ q \in StreamType /\ q.pc = "drain" /\ q.closed = streams[c].closed
          /\ q.fifo = streams[c].fifo
      BY <1>0 DEF StreamType
    <2>2. streams[c].pc = "loop"
      BY <1>4 DEF TakeSignal
    <2>3. streams' = [streams EXCEPT ![c] = q]
      BY <1>4 DEF TakeSignal, IInv, TypeOK
    <2> HIDE DEF q
    <2> QED
      BY <1>0, <1>4, <2>1, <2>2, <2>3, WriterInv DEF TakeSignal
  <1>5. CASE DrainLatest(c)
    <2>0. PICK v \in Nat :
            streams' = [streams EXCEPT ![c].pc = "loop", ![c].latest = 0, ![c].shown = v]
      <3>1. streams[c].shown \in Nat
        BY <1>0 DEF StreamType
      <3> QED
        BY <1>0, <1>5, <3>1 DEF DrainLatest, IInv, TypeOK
    <2> DEFINE q == [streams[c] EXCEPT !.pc = "loop", !.latest = 0, !.shown = v]
    <2>1. /\ q \in StreamType /\ q.pc = "loop" /\ q.closed = streams[c].closed
          /\ q.fifo = streams[c].fifo /\ q.latest = 0
      BY <1>0 DEF StreamType
    <2>2. streams[c].pc = "drain"
      BY <1>5 DEF DrainLatest
    <2>3. streams' = [streams EXCEPT ![c] = q]
      BY <2>0 DEF IInv, TypeOK
    <2> HIDE DEF q
    <2> QED
      BY <1>0, <1>5, <2>1, <2>2, <2>3, WriterInv DEF DrainLatest
  <1>6. CASE TakeEventFrame(c)
    <2> DEFINE m == Head(streams[c].fifo)
               q == [streams[c] EXCEPT !.fifo = Tail(@), !.got[m.by] = m.n]
    <2>0. /\ streams[c].pc = "loop" /\ streams[c].fifo # <<>>
          /\ streams' = [streams EXCEPT ![c].fifo = Tail(@), ![c].got[m.by] = m.n]
      BY <1>6 DEF TakeEventFrame
    <2>1. m \in Message /\ Tail(streams[c].fifo) \in Seq(Message)
            /\ Len(Tail(streams[c].fifo)) <= FifoCap
      BY <1>0, <2>0, TakenType
    <2>2. [streams[c].got EXCEPT ![m.by] = m.n] \in [Jobs -> Nat]
      BY <1>0, <2>1 DEF StreamType, Message
    <2>3. /\ q \in StreamType /\ q.pc = streams[c].pc /\ q.closed = streams[c].closed
          /\ q.fifo = Tail(streams[c].fifo) /\ q.latest = streams[c].latest
          /\ q.signal = streams[c].signal
      BY <1>0, <2>1, <2>2 DEF StreamType
    <2>4. streams' = [streams EXCEPT ![c] = q]
      BY <2>0 DEF IInv, TypeOK
    <2> HIDE DEF q, m
    <2> QED
      <3>1. /\ UNCHANGED <<queue, channels, actors, wire, linkUp, subs, process, newest>>
            /\ turns' \in 0..MaxTurns /\ faults \subseteq faults' /\ faults' \subseteq FaultKinds
        BY <1>0, <1>6 DEF TakeEventFrame
      <3>2. /\ Len(q.fifo) <= FifoCap /\ q.pc = "loop" /\ streams[c].pc = "loop"
            /\ q.closed = streams[c].closed /\ q.latest = streams[c].latest
            /\ q.signal = streams[c].signal /\ q \in StreamType
        BY <2>0, <2>1, <2>3
      <3>3. q.latest # 0 /\ ~q.closed => \/ q.signal
                                         \/ q.latest = streams[c].latest /\ ~streams[c].signal
        BY <1>0, <3>2 DEF StreamType
      <3> QED
        BY <1>0, <2>4, <3>1, <3>2, <3>3, WriterInv
  <1>7. CASE StreamEnds(c) \/ WriteFails(c)
    <2> DEFINE q == [streams[c] EXCEPT !.pc = "unsubscribe"]
    <2>1. /\ q \in StreamType /\ q.pc = "unsubscribe" /\ q.closed = streams[c].closed
          /\ q.fifo = streams[c].fifo
      BY <1>0 DEF StreamType
    <2>2. streams[c].pc \in {"snapshot", "loop", "drain"}
      BY <1>7 DEF StreamEnds, WriteFails
    <2>3. streams' = [streams EXCEPT ![c] = q]
      BY <1>7 DEF StreamEnds, WriteFails, IInv, TypeOK
    <2> HIDE DEF q
    <2> QED
      BY <1>0, <1>1, <1>7, <2>1, <2>2, <2>3, WriterInv DEF StreamEnds, WriteFails
  <1> QED
    BY <1>2, <1>3, <1>4, <1>5, <1>6, <1>7

\* Subscribing, unsubscribing and the broker's shutdown wait for the senders.
LEMMA SubscriptionInv ==
    ASSUME IInv, phase # "stopped",
           \/ BrokerShutdown
           \/ \E c \in Clients : Subscribe(c) \/ Unsubscribe(c)
    PROVE  IInv'
  <1> USE DEF StreamAt, queue, channels, process, history
  <1>0. /\ UNCHANGED <<queue, channels, actors, wire, linkUp, pool, poolOpen, busy, newest>>
        /\ \A a \in Actors : actors[a].pc \notin {"local", "signal"}
    BY DEF BrokerShutdown, Subscribe, Unsubscribe, ReadLocked
  <1>1. SendersLocked' /\ CountsPositive'
    BY <1>0 DEF IInv, SendersLocked, CountsPositive, IsVersion
  <1>2. CASE BrokerShutdown
    <2>1. /\ phase' = "closed" /\ phase = "draining" /\ subs' = {}
          /\ streams' = [c \in Clients |-> [streams[c] EXCEPT !.closed = @ \/ c \in subs]]
          /\ \/ Drained /\ UNCHANGED <<turns, faults>>
             \/ ~Drained /\ Turn /\ Note("timeout", TRUE)
      BY <1>2 DEF BrokerShutdown
    <2>2. /\ streams' \in [Clients -> StreamType]
          /\ \A c \in Clients : /\ streams'[c].pc = streams[c].pc
                                /\ streams'[c].latest = streams[c].latest
                                /\ streams'[c].signal = streams[c].signal
                                /\ streams'[c].fifo = streams[c].fifo
                                /\ (~streams'[c].closed => ~streams[c].closed)
      <3>1. streams \in [Clients -> StreamType]
        BY DEF IInv, TypeOK
      <3>2. ASSUME NEW o \in StreamType, NEW b \in BOOLEAN, NEW q, q = [o EXCEPT !.closed = b]
            PROVE  /\ q \in StreamType /\ q.pc = o.pc /\ q.latest = o.latest
                   /\ q.signal = o.signal /\ q.fifo = o.fifo /\ q.closed = b
        BY <3>2 DEF StreamType
      <3>3. ASSUME NEW c \in Clients
            PROVE  /\ streams'[c] = [streams[c] EXCEPT !.closed = streams[c].closed \/ c \in subs]
                   /\ streams[c] \in StreamType
        BY <2>1, <3>1
      <3>4. ASSUME NEW c \in Clients
            PROVE  /\ streams'[c] \in StreamType /\ streams'[c].pc = streams[c].pc
                   /\ streams'[c].latest = streams[c].latest
                   /\ streams'[c].signal = streams[c].signal
                   /\ streams'[c].fifo = streams[c].fifo
                   /\ (~streams'[c].closed => ~streams[c].closed)
        <4> DEFINE b == streams[c].closed \/ c \in subs
        <4>1. streams'[c] = [streams[c] EXCEPT !.closed = b]
          BY <3>3
        <4>2. b \in BOOLEAN /\ (~b => ~streams[c].closed)
          BY <3>3 DEF StreamType
        <4> HIDE DEF b
        <4> QED
          BY <3>3, <4>1, <4>2 DEF StreamType
      <3> QED
        BY <2>1, <3>4
    <2>3. turns' \in 0..MaxTurns /\ faults' \subseteq FaultKinds
      <3>1. turns \in 0..MaxTurns /\ faults \subseteq FaultKinds
        BY DEF IInv, TypeOK
      <3>2. turns' = turns \/ (turns < MaxTurns /\ turns' = turns + 1)
        BY <2>1, Zenon DEF Turn
      <3>5. turns' \in 0..MaxTurns
        BY <3>1, <3>2, StreamsAssumption
      <3>3. faults' \subseteq FaultKinds
        BY <2>1, <3>1 DEF Note, FaultKinds
      <3> QED
        BY <3>5, <3>3
    <2> USE DEF IInv
    <2>4. TypeOK'
      BY <1>0, <2>1, <2>2, <2>3 DEF TypeOK, Phases
    <2>5. SubsOpen' /\ FreshStreams'
      BY <2>1, <2>2 DEF SubsOpen, FreshStreams
    <2>6. NoLostWakeup'
      BY <1>0, <2>2 DEF NoLostWakeup, ActorAt
    <2>7. ShutdownClean'
      BY <2>1, <2>2 DEF ShutdownClean, Drained, Note
    <2> QED
      BY <1>1, <2>4, <2>5, <2>6, <2>7
  <1>3. ASSUME NEW c \in Clients, Subscribe(c) PROVE IInv'
    <2> DEFINE q == [streams[c] EXCEPT !.pc = "snapshot", !.closed = FALSE]
    <2>0. streams[c] \in StreamType /\ streams[c].pc = "asked" /\ streams[c].latest = 0
      BY <1>3 DEF Subscribe, IInv, TypeOK, FreshStreams
    <2>1. /\ q \in StreamType /\ q.pc = "snapshot" /\ ~q.closed
          /\ q.fifo = streams[c].fifo /\ q.latest = 0
      BY <2>0 DEF StreamType
    <2>2. streams' = [streams EXCEPT ![c] = q] /\ subs' = subs \cup {c}
      BY <1>3 DEF Subscribe, IInv, TypeOK
    <2> HIDE DEF q
    <2>3. UNCHANGED <<phase, turns, faults>>
      BY <1>3 DEF Subscribe
    <2>4. Len(q.fifo) <= FifoCap
      BY <2>1 DEF IInv, TypeOK
    <2>5. /\ streams' \in [Clients -> StreamType] /\ streams'[c] = q
          /\ \A d \in Clients : d # c => streams'[d] = streams[d]
          /\ \A d \in Clients : Len(streams'[d].fifo) <= FifoCap
      BY <2>1, <2>2, <2>4, StreamChanged
    <2> USE DEF IInv
    <2>6. TypeOK'
      BY <1>0, <2>2, <2>3, <2>5 DEF TypeOK
    <2>7. SubsOpen' /\ FreshStreams'
      BY <2>1, <2>2, <2>5 DEF SubsOpen, FreshStreams, TypeOK
    <2>8. NoLostWakeup'
      BY <1>0, <2>1, <2>5 DEF NoLostWakeup, ActorAt
    <2>9. ShutdownClean'
      BY <1>0, <2>0, <2>3 DEF ShutdownClean
    <2> QED
      BY <1>1, <2>6, <2>7, <2>8, <2>9
  <1>4. ASSUME NEW c \in Clients, Unsubscribe(c) PROVE IInv'
    <2> DEFINE q == [NoStream EXCEPT !.shown = streams[c].shown, !.got = streams[c].got]
    <2>0. streams[c] \in StreamType
      BY DEF IInv, TypeOK
    <2>1. /\ q \in StreamType /\ q.pc = "off" /\ q.closed /\ q.latest = 0 /\ q.fifo = <<>>
      <3>1. /\ streams[c].shown \in Nat /\ streams[c].got \in [Jobs -> Nat]
            /\ <<>> \in Seq(Message)
        BY <2>0 DEF StreamType
      <3> QED
        BY <3>1 DEF StreamType, NoStream
    <2>2. streams' = [streams EXCEPT ![c] = q] /\ subs' = subs \ {c}
      BY <1>4 DEF Unsubscribe
    <2> HIDE DEF q
    <2>3. UNCHANGED <<phase, turns, faults>>
      BY <1>4 DEF Unsubscribe
    <2>4. Len(q.fifo) <= FifoCap
      BY <2>1, StreamsAssumption
    <2>5. /\ streams' \in [Clients -> StreamType] /\ streams'[c] = q
          /\ \A d \in Clients : d # c => streams'[d] = streams[d]
          /\ \A d \in Clients : Len(streams'[d].fifo) <= FifoCap
      BY <2>1, <2>2, <2>4, StreamChanged
    <2> USE DEF IInv
    <2>6. TypeOK'
      BY <1>0, <2>2, <2>3, <2>5 DEF TypeOK
    <2>7. SubsOpen' /\ FreshStreams'
      BY <2>1, <2>2, <2>5 DEF SubsOpen, FreshStreams, TypeOK
    <2>8. NoLostWakeup'
      BY <1>0, <2>1, <2>5 DEF NoLostWakeup, ActorAt
    <2>9. ShutdownClean'
      BY <1>0, <2>1, <2>2, <2>3, <2>5 DEF ShutdownClean
    <2> QED
      BY <1>1, <2>6, <2>7, <2>8, <2>9
  <1> QED
    BY <1>2, <1>3, <1>4
-----------------------------------------------------------------------------
(* The theorems *)

\* Initially nobody sends and nothing is subscribed.
LEMMA InitInv == Init => IInv
  <1> SUFFICES ASSUME Init PROVE IInv
    OBVIOUS
  <1>1. /\ IdleActor \in ActorType /\ NoStream \in StreamType
        /\ IdleActor.pc = "idle" /\ NoStream.pc = "off" /\ NoStream.latest = 0
        /\ NoStream.fifo = <<>>
    BY DEF IdleActor, ActorType, Nothing, Message, NoStream, StreamType
  <1>2. /\ scenario \in Scenarios /\ line = Fewer + 1 /\ allWaiting = TRUE
        /\ cache = 0 /\ filler = 0 /\ events = 0
        /\ handlers = [h \in Handlers |-> <<>>]
        /\ posChan = <<>> /\ eventChans = [j \in EventJobs |-> <<>>]
        /\ actors = [a \in Actors |-> IdleActor]
        /\ wire = <<>> /\ linkUp = TRUE /\ subs = {}
        /\ streams = [c \in Clients |-> NoStream]
        /\ phase = "up" /\ pool = 0 /\ poolOpen = TRUE /\ busy = 0
        /\ newest = 0 /\ turns = 0 /\ faults = {}
    BY DEF Init
  <1>3. /\ actors \in [Actors -> ActorType] /\ streams \in [Clients -> StreamType]
        /\ \A a \in Actors : actors[a].pc = "idle"
        /\ \A c \in Clients : streams[c].pc = "off" /\ streams[c].latest = 0
                                /\ Len(streams[c].fifo) = 0
    BY <1>1, <1>2
  <1>4. /\ handlers \in [Handlers -> Seq({"event", "position", "invalidate", "call"})]
        /\ posChan \in Seq({"this", "other"}) /\ Len(posChan) = 0
        /\ eventChans \in [EventJobs -> Seq(Nat)] /\ wire \in Seq(Message)
        /\ \A j \in EventJobs : Len(eventChans[j]) = 0
        /\ DOMAIN wire = {}
    BY <1>2
  <1>5. TypeOK
    BY <1>2, <1>3, <1>4, StreamsAssumption DEF TypeOK, Phases, Fewer
  <1>6. SubsOpen /\ SendersLocked /\ CountsPositive
    BY <1>2, <1>3, <1>4 DEF SubsOpen, SendersLocked, CountsPositive
  <1>7. FreshStreams /\ NoLostWakeup /\ ShutdownClean
    BY <1>2, <1>3 DEF FreshStreams, NoLostWakeup, ShutdownClean
  <1> QED
    BY <1>5, <1>6, <1>7 DEF IInv

\* The steps that change neither the streams nor the subscribers.
Elsewhere ==
    \/ \E h \in Handlers : Request(h) \/ StartRequest(h)
    \/ DispatchOther \/ ReadStatus \/ FillSnapshot \/ SnapshotExpires
    \/ LinkDrops \/ Reconnect
    \/ StopServing \/ CancelContext \/ ClosePool \/ WorkerTakes \/ WorkerDone
    \/ StopProcess
    \/ TakePosition \/ Sweep \/ TimerExpires \/ Receive
    \/ \E j \in EventJobs : TakeEvent(j)
    \/ \E j \in Jobs : CountLine(j) \/ Publish(j) \/ PublishFails(j) \/ Notify(j)
                         \/ JobExits(j)

\* A step is one elsewhere, a send, a step of a writer, or one of a subscription.
LEMMA StepKinds ==
    ASSUME Next
    PROVE  /\ phase # "stopped"
           /\ \/ Elsewhere
              \/ \E a \in Actors, c \in Clients :
                   StoreLatest(a, c) \/ SignalWriter(a, c) \/ SendEvent(a, c)
              \/ \E c \in Clients :
                   \/ Connect(c) \/ SendSnapshot(c) \/ TakeSignal(c) \/ DrainLatest(c)
                   \/ TakeEventFrame(c) \/ StreamEnds(c) \/ WriteFails(c)
              \/ BrokerShutdown \/ \E c \in Clients : Subscribe(c) \/ Unsubscribe(c)
  BY Zenon
  DEF Next, Environment, Shutdown, ActorStep, JobTakes, StreamStep, Elsewhere

\* No step breaks the inductive invariant.
LEMMA NextInv == IInv /\ [Next]_vars => IInv'
  <1> SUFFICES ASSUME IInv, [Next]_vars PROVE IInv'
    OBVIOUS
  <1>1. CASE Next /\ Elsewhere
    BY <1>1, StepKinds, RequestInv, ProcessInv, TakeInv, PublisherInv DEF Elsewhere
  <1>2. CASE Next /\ ~Elsewhere
    BY <1>2, StepKinds, SendInv, LoopInv, SubscriptionInv
  <1>3. CASE UNCHANGED vars
    <2> USE <1>3 DEF vars, queue, channels, broker, process, history, IInv
    <2>1. TypeOK' /\ ShutdownClean'
      BY DEF TypeOK, ShutdownClean
    <2> QED
      BY <2>1, OutsideInv
  <1> QED
    BY <1>1, <1>2, <1>3

\* The inductive invariant holds in every state.
THEOREM Invariance == Spec => []IInv
  <1>1. Init => IInv
    BY InitInv
  <1>2. IInv /\ [Next]_vars => IInv'
    BY NextInv
  <1> QED
    BY <1>1, <1>2, PTL DEF Spec

\* Channels keep within their capacities, and every message has its type.
THEOREM TypeCorrect == Spec => []TypeOK
  <1>1. IInv => TypeOK
    BY DEF IInv
  <1> QED
    BY <1>1, Invariance, PTL

\* Subscriber.Send: no dispatcher sends on a closed channel, whatever the number
\* of dispatchers, writers that unsubscribe, and the shutdown of the broker.
THEOREM SendsAreSafe == Spec => []NoSendOnClosed
  <1>1. IInv => NoSendOnClosed
    <2> SUFFICES ASSUME IInv, NEW a \in Actors, NEW c \in Clients,
                        actors[a].pc \in {"local", "signal"},
                        actors[a].pc = "local" => c \in actors[a].todo,
                        actors[a].pc = "signal" => c \in actors[a].at
                 PROVE  ~streams[c].closed
      BY DEF NoSendOnClosed, ActorAt
    <2>1. c \in subs
      BY DEF IInv, SendersLocked, TypeOK, ActorType
    <2> QED
      BY <2>1 DEF IInv, SubsOpen
  <1> QED
    BY <1>1, Invariance, PTL

\* Subscriber.Send and DrainLatest: the signal, set after the slot and without the
\* subscriber's mutex, never leaves a count in a slot whose writer sleeps.
THEOREM WakeupsAreKept == Spec => []NoLostWakeup
  <1>1. IInv => NoLostWakeup
    BY DEF IInv
  <1> QED
    BY <1>1, Invariance, PTL
-----------------------------------------------------------------------------
(* The refinement *)

\* What a mailbox sees of a stream.
IsOpen(q) == q.pc \in {"snapshot", "loop", "drain"}
BoxOf(q) == IF IsOpen(q) THEN q.latest ELSE 0

\* The steps of a mailbox, from stream q to stream n.
MailboxStep(q, n) ==
    \/ (IsOpen(n) <=> IsOpen(q)) /\ BoxOf(n) = BoxOf(q) /\ n.shown = q.shown
    \/ ~IsOpen(q) /\ IsOpen(n) /\ BoxOf(n) = 0 /\ n.shown = q.shown
    \/ IsOpen(q) /\ IsOpen(n) /\ BoxOf(n) \in Nat \ {0} /\ n.shown = q.shown
    \/ IsOpen(q) /\ IsOpen(n) /\ BoxOf(q) # 0 /\ n.shown = BoxOf(q) /\ BoxOf(n) = 0
    \/ IsOpen(q) /\ IsOpen(n) /\ n.shown \in Nat /\ BoxOf(n) = BoxOf(q)
    \/ IsOpen(q) /\ ~IsOpen(n) /\ BoxOf(n) = 0 /\ n.shown = q.shown

\* Every step of a stream is one of the mailbox, or leaves what it sees.
LEMMA BoxStep ==
    ASSUME IInv, Next, NEW c \in Clients
    PROVE  MailboxStep(streams[c], streams'[c])
  <1> USE DEF queue, channels, process, history, broker, StreamAt, StreamGoto
  <1>0. /\ streams \in [Clients -> StreamType] /\ streams[c] \in StreamType
        /\ streams[c].latest \in Nat /\ streams[c].shown \in Nat
    BY DEF IInv, TypeOK, StreamType
  <1>1. CASE streams'[c] = streams[c]
    BY <1>1 DEF MailboxStep
  <1>2. ASSUME NEW a \in Actors, StoreLatest(a, c), ~streams[c].closed
        PROVE  /\ streams'[c].pc = streams[c].pc /\ streams'[c].shown = streams[c].shown
               /\ streams'[c].latest \in Nat \ {0}
    BY <1>0, <1>2, ActorFields
    DEF StoreLatest, Message, StreamType, ActorAt, IInv, CountsPositive, IsVersion, Fewer
  <1>3. CASE \/ \E a \in Actors : SignalWriter(a, c) \/ SendEvent(a, c)
             \/ Connect(c) \/ TakeSignal(c) \/ TakeEventFrame(c)
    <2>1. /\ streams'[c].latest = streams[c].latest /\ streams'[c].shown = streams[c].shown
          /\ streams'[c].pc \in {"snapshot", "loop", "drain"} <=>
               streams[c].pc \in {"snapshot", "loop", "drain"}
      BY <1>0, <1>3
      DEF SignalWriter, SendEvent, Connect, TakeSignal, TakeEventFrame, StreamType
    <2> QED
      BY <2>1 DEF MailboxStep, IsOpen, BoxOf
  <1>4. CASE SendSnapshot(c)
    <2>1. /\ streams'[c].latest = streams[c].latest /\ streams'[c].shown \in Nat
          /\ streams'[c].pc = "loop" /\ streams[c].pc = "snapshot"
      BY <1>0, <1>4 DEF SendSnapshot, StreamType, IInv, TypeOK
    <2> QED
      BY <2>1 DEF MailboxStep, IsOpen, BoxOf
  <1>5. CASE DrainLatest(c)
    <2>1. /\ streams'[c].latest = 0 /\ streams'[c].pc = "loop" /\ streams[c].pc = "drain"
          /\ streams'[c].shown = IF streams[c].latest # 0 THEN streams[c].latest
                                                          ELSE streams[c].shown
      BY <1>0, <1>5 DEF DrainLatest, StreamType
    <2> QED
      BY <2>1 DEF MailboxStep, IsOpen, BoxOf
  <1>6. CASE StreamEnds(c) \/ WriteFails(c)
    <2>1. /\ streams'[c].shown = streams[c].shown /\ streams'[c].pc = "unsubscribe"
          /\ streams[c].pc \in {"snapshot", "loop", "drain"}
      BY <1>0, <1>6 DEF StreamEnds, WriteFails, StreamType
    <2> QED
      BY <2>1 DEF MailboxStep, IsOpen, BoxOf
  <1>7. CASE Subscribe(c)
    <2>1. /\ streams'[c].shown = streams[c].shown /\ streams'[c].pc = "snapshot"
          /\ streams[c].pc = "asked" /\ streams'[c].latest = 0
      BY <1>0, <1>7 DEF Subscribe, StreamType, IInv, FreshStreams
    <2> QED
      BY <2>1 DEF MailboxStep, IsOpen, BoxOf
  <1>8. CASE Unsubscribe(c)
    <2>1. /\ streams'[c].shown = streams[c].shown /\ streams'[c].pc = "off"
          /\ streams[c].pc = "unsubscribe"
      BY <1>0, <1>8 DEF Unsubscribe, NoStream
    <2> QED
      BY <2>1 DEF MailboxStep, IsOpen, BoxOf
  <1>9. CASE BrokerShutdown
    <2>1. /\ streams'[c].shown = streams[c].shown /\ streams'[c].pc = streams[c].pc
          /\ streams'[c].latest = streams[c].latest
      BY <1>0, <1>9 DEF BrokerShutdown, StreamType
    <2> QED
      BY <2>1 DEF MailboxStep, IsOpen, BoxOf
  <1>10. CASE Elsewhere
    <2>1. UNCHANGED streams
      BY <1>10
      DEF Elsewhere, Request, StartRequest, DispatchEvent, DispatchCall, DispatchPosition,
          InvalidateSnapshot, DispatchOther, ReadStatus, FillSnapshot, SnapshotExpires,
          LinkDrops, Reconnect, StopServing, CancelContext, ClosePool, WorkerTakes,
          WorkerDone, StopProcess, TakePosition, Sweep, TimerExpires, Receive, TakeEvent,
          CountLine, Publish, PublishFails, Notify, JobExits
    <2> QED
      BY <1>1, <2>1
  <1>11. ASSUME NEW d \in Clients, d # c,
                \/ \E a \in Actors : StoreLatest(a, d) \/ SignalWriter(a, d) \/ SendEvent(a, d)
                \/ Connect(d) \/ SendSnapshot(d) \/ TakeSignal(d) \/ DrainLatest(d)
                \/ TakeEventFrame(d) \/ StreamEnds(d) \/ WriteFails(d)
                \/ Subscribe(d) \/ Unsubscribe(d)
         PROVE  streams'[c] = streams[c]
    BY <1>0, <1>11
    DEF StoreLatest, SignalWriter, SendEvent, Connect, SendSnapshot, TakeSignal, DrainLatest,
        TakeEventFrame, StreamEnds, WriteFails, Subscribe, Unsubscribe
  <1>12. CASE \E a \in Actors : StoreLatest(a, c)
    <2>1. PICK a \in Actors : StoreLatest(a, c)
      BY <1>12
    <2>2. CASE streams[c].closed
      <3>1. UNCHANGED streams
        BY <2>1, <2>2 DEF StoreLatest
      <3> QED
        BY <1>1, <3>1
    <2>3. CASE ~streams[c].closed
      BY <1>0, <1>2, <2>1, <2>3 DEF MailboxStep, IsOpen, BoxOf
    <2> QED
      BY <2>2, <2>3
  <1> QED
    BY <1>1, <1>3, <1>4, <1>5, <1>6, <1>7, <1>8, <1>9, <1>10, <1>11, <1>12, StepKinds

\* The process stops in one step, which leaves the streams.
LEMMA StopStep ==
    ASSUME Next, phase' = "stopped"
    PROVE  StopProcess
  <1> USE DEF queue, channels, broker, process, history
  <1>1. phase # "stopped"
    BY StepKinds
  <1>2. CASE Elsewhere
    BY <1>1, <1>2
    DEF Elsewhere, Request, StartRequest, DispatchEvent, DispatchCall, DispatchPosition,
        InvalidateSnapshot, DispatchOther, ReadStatus, FillSnapshot, SnapshotExpires,
        LinkDrops, Reconnect, StopServing, CancelContext, ClosePool, WorkerTakes,
        WorkerDone, TakePosition, Sweep, TimerExpires, Receive, TakeEvent,
        CountLine, Publish, PublishFails, Notify, JobExits
  <1>3. CASE \E a \in Actors, c \in Clients :
               StoreLatest(a, c) \/ SignalWriter(a, c) \/ SendEvent(a, c)
    BY <1>1, <1>3 DEF StoreLatest, SignalWriter, SendEvent
  <1>4. CASE \/ BrokerShutdown
             \/ \E c \in Clients :
                  \/ Connect(c) \/ SendSnapshot(c) \/ TakeSignal(c) \/ DrainLatest(c)
                  \/ TakeEventFrame(c) \/ StreamEnds(c) \/ WriteFails(c)
                  \/ Subscribe(c) \/ Unsubscribe(c)
    BY <1>1, <1>4
    DEF BrokerShutdown, Connect, SendSnapshot, TakeSignal, DrainLatest, TakeEventFrame,
        StreamEnds, WriteFails, Subscribe, Unsubscribe
  <1> QED
    BY <1>2, <1>3, <1>4, StepKinds

\* The stream that is observed implements the mailbox step by step; that its
\* counts are shown in the end is left to the model checker.
THEOREM StreamImplementsMailbox ==
    ASSUME Clients # {}
    PROVE  Spec => Box!Init /\ [][Box!Next]_(Box!vars)
  <1> DEFINE c == Observed
  <1>0. c \in Clients
    BY DEF Observed
  <1>1. Init => Box!Init
    BY <1>0 DEF Init, Box!Init, ObservedOpen, Open, NoStream
  <1>2. IInv /\ [Next]_vars => [Box!Next]_(Box!vars)
    <2> SUFFICES ASSUME IInv, [Next]_vars PROVE [Box!Next]_(Box!vars)
      OBVIOUS
    <2>1. CASE UNCHANGED vars
      BY <2>1 DEF vars, broker, process, Box!vars, ObservedOpen, Open
    <2>2. CASE Next /\ phase' = "stopped"
      <3>1. ~ObservedOpen' /\ (ObservedOpen <=> Open(Observed))
        BY <2>2, StepKinds DEF ObservedOpen
      <3>2. UNCHANGED streams
        BY <2>2, StopStep DEF StopProcess, broker
      <3>3. CASE ObservedOpen
        BY <3>1, <3>2, <3>3 DEF Box!Next, Box!Close
      <3>4. CASE ~ObservedOpen
        BY <3>1, <3>2, <3>4 DEF Box!vars, ObservedOpen
      <3> QED
        BY <3>3, <3>4
    <2>3. CASE Next /\ phase' # "stopped"
      <3>1. MailboxStep(streams[c], streams'[c])
        BY <1>0, <2>3, BoxStep
      <3>2. /\ ObservedOpen <=> IsOpen(streams[c])
            /\ ObservedOpen' <=> IsOpen(streams'[c])
        BY <2>3, StepKinds DEF ObservedOpen, Open, IsOpen
      <3>3. CASE (IsOpen(streams'[c]) <=> IsOpen(streams[c]))
                   /\ BoxOf(streams'[c]) = BoxOf(streams[c])
                   /\ streams'[c].shown = streams[c].shown
        <4>1. ObservedOpen' = ObservedOpen
          BY <3>2, <3>3 DEF ObservedOpen, Open
        <4> QED
          BY <3>2, <3>3, <4>1 DEF BoxOf, Box!vars
      <3>4. ASSUME ~IsOpen(streams[c]), IsOpen(streams'[c]), BoxOf(streams'[c]) = 0,
                   streams'[c].shown = streams[c].shown
            PROVE  Box!Open
        BY <3>2, <3>4 DEF BoxOf, IsOpen, ObservedOpen, Open, Box!Open
      <3>5. ASSUME IsOpen(streams[c]), IsOpen(streams'[c]), BoxOf(streams'[c]) \in Nat \ {0},
                   streams'[c].shown = streams[c].shown
            PROVE  Box!Put
        BY <3>2, <3>5 DEF BoxOf, IsOpen, ObservedOpen, Open, Box!Put
      <3>6. ASSUME IsOpen(streams[c]), IsOpen(streams'[c]), BoxOf(streams[c]) # 0,
                   streams'[c].shown = BoxOf(streams[c]), BoxOf(streams'[c]) = 0
            PROVE  Box!Show
        BY <3>2, <3>6 DEF BoxOf, IsOpen, ObservedOpen, Open, Box!Show
      <3>7. ASSUME IsOpen(streams[c]), IsOpen(streams'[c]), streams'[c].shown \in Nat,
                   BoxOf(streams'[c]) = BoxOf(streams[c])
            PROVE  Box!Snapshot
        BY <3>2, <3>7 DEF BoxOf, IsOpen, ObservedOpen, Open, Box!Snapshot
      <3>8. ASSUME IsOpen(streams[c]), ~IsOpen(streams'[c]), BoxOf(streams'[c]) = 0,
                   streams'[c].shown = streams[c].shown
            PROVE  Box!Close
        BY <3>2, <3>8 DEF BoxOf, IsOpen, ObservedOpen, Open, Box!Close
      <3> QED
        BY <3>1, <3>3, <3>4, <3>5, <3>6, <3>7, <3>8 DEF MailboxStep, Box!Next
    <2> QED
      BY <2>1, <2>2, <2>3
  <1> QED
    BY <1>1, <1>2, Invariance, PTL DEF Spec
=============================================================================
