------------------------------- MODULE Streams -------------------------------
(***************************************************************************)
(* The event streams of one queue in one server process: the requests that *)
(* change the line and tell the background jobs of it, the jobs that       *)
(* publish counts and events, Redis pub/sub between them and the broker,   *)
(* the subscribers of the topic queue_public:{id}, their writers, and the  *)
(* shutdown of the process.                                                *)
(*                                                                         *)
(* `line' is the version of the queue's sorted set, and a count is the     *)
(* version that was counted, or Fewer, when those were counted whose       *)
(* status is WAITING and not all in the line were.  An event is a number,  *)
(* unique and growing.                                                     *)
(* Of the two kinds of message, a count overwrites the one before it and   *)
(* an event is queued.                                                     *)
(***************************************************************************)
EXTENDS Naturals, Sequences, FiniteSets

CONSTANTS
    Clients,    \* event streams, open or not
    Handlers,   \* slots for requests that change the queue
    Scenarios,  \* bound: the sets of things of which a behaviour may do one
    JobCap,     \* the capacity of a job's channel
    FifoCap,    \* the capacity of a subscriber's channel
    PoolCap,    \* the capacity of the notification job's channel
    Workers,    \* the number of notification workers
    WireCap,    \* bound: messages on their way through Redis
    MaxLine,    \* bound: the last version of the line
    MaxTurns    \* bound: how many requests start, timers fire and faults happen

\* Mutant: a request that changes the line does not ask for its count.
StepsWithoutPosition ==
         [line     |-> <<"event", "invalidate">>,
          status   |-> <<"event", "invalidate">>,
          settings |-> <<"position", "invalidate">>,
          next     |-> <<"position", "invalidate", "call", "event">>,
          recall   |-> <<"call", "event">>]

\* A request's calls after it has changed the database, in their order:
\*   line      join, leave, serve, skip, confirm, finish
\*   status    pause, resume, arrival, details: the line stays
\*   settings  of the queue, which broadcasts show, too
\*   next      call next
\*   recall    call of a given guest
\* The end of a queue, which takes the line away, is not among them.
Steps == [line     |-> <<"event", "position", "invalidate">>,
          status   |-> <<"event", "invalidate">>,
          settings |-> <<"position", "invalidate">>,
          next     |-> <<"position", "invalidate", "call", "event">>,
          recall   |-> <<"call", "event">>]

\* What may happen: those requests; a broadcast for another queue, a read of the
\* public status, a presence timer, the sweeper's ticks; Redis drops the link or
\* fails a publication, a client leaves, the process is told to stop.
Happenings == DOMAIN Steps \cup {"other", "read", "timer", "sweep", "drop", "fail",
                                "leave", "stop"}

ASSUME StreamsAssumption ==
    /\ IsFiniteSet(Clients) /\ IsFiniteSet(Handlers)
    /\ Scenarios \subseteq SUBSET Happenings
    /\ JobCap \in Nat \ {0} /\ FifoCap \in Nat \ {0} /\ PoolCap \in Nat \ {0}
    /\ Workers \in Nat \ {0} /\ WireCap \in Nat \ {0}
    /\ MaxLine \in Nat /\ MaxTurns \in Nat

VARIABLES
    scenario,   \* what may happen in this behaviour
    line,       \* the version of the sorted set
    allWaiting, \* everybody in it has the status WAITING
    cache,      \* queue:{id}:public:status, 0 when absent
    filler,     \* the count that a status request is about to cache, 0 if none
    handlers,   \* what each request still has to call
    events,     \* how many events have been made
    posChan,    \* PositionJob.updateChan: this queue or another
    eventChans, \* HostNotifierJob.eventChan and Caller.callChan
    actors,     \* the goroutines that publish or dispatch
    wire,       \* Redis pub/sub, and the listener's channel
    linkUp,     \* the listener is connected
    subs,       \* broker.subs of the topic
    streams,    \* the subscriber and the writer of each stream
    phase,      \* the life of the process
    pool,       \* tasks in the notification job's channel
    poolOpen,   \* the channel is not closed
    busy,       \* workers that run a task
    newest,     \* history: the newest count published
    turns,      \* history: requests, timers and faults so far
    faults      \* history: what has happened to counts and events

queue == <<scenario, line, allWaiting, cache, filler, handlers, events>>
channels == <<posChan, eventChans>>
broker == <<wire, linkUp, subs, streams>>
process == <<phase, pool, poolOpen, busy>>
history == <<newest, turns, faults>>
vars == <<queue, channels, actors, broker, process, history>>

EventJobs == {"host", "caller"}
Jobs == EventJobs \cup {"position", "sweeper", "keyspace"}
Actors == Jobs \cup {"listener"}

\* No count, no message.
Nothing == [kind |-> "none", n |-> 0, by |-> "none"]
Count(a, v) == [kind |-> "count", n |-> v, by |-> a]
Event(a, e) == [kind |-> "event", n |-> e, by |-> a]

\* A count of the WAITING guests that is not the line's; the line begins after it.
Fewer == 1

Message == [kind : {"none", "count", "event"}, n : Nat, by : Actors \cup {"none"}]

\* todo: the subscribers still to be sent msg under the read lock; at: the one
\* whose writer is about to be signalled.
ActorType == [pc : {"idle", "count", "publish", "local", "signal", "notify", "exited"},
              msg : Message, todo : SUBSET Clients, at : SUBSET Clients]

IdleActor == [pc |-> "idle", msg |-> Nothing, todo |-> {}, at |-> {}]

\* latest, signal, fifo, closed are the subscriber's; shown is the count that the
\* client has received last, and got the last event of each publisher.
StreamType == [pc : {"off", "asked", "snapshot", "loop", "drain", "unsubscribe"},
               latest : Nat, signal : BOOLEAN, fifo : Seq(Message), closed : BOOLEAN,
               shown : Nat, got : [Jobs -> Nat]]

NoStream == [pc |-> "off", latest |-> 0, signal |-> FALSE, fifo |-> <<>>,
             closed |-> TRUE, shown |-> 0, got |-> [j \in Jobs |-> 0]]

\* lost: published while the listener was disconnected.  overtaken: a count was
\* published after a newer one.  fallback: dispatched without Redis.  dropped: the
\* position job's channel was full of other queues.  stale: a stream began with
\* an old cached count.  miscounted: with a cached count of the WAITING guests only,
\* the line having others.  timeout: the server did not drain in time.
FaultKinds == {"lost", "overtaken", "fallback", "dropped", "stale", "miscounted", "timeout"}

Phases == {"up", "draining", "closed", "cancelled", "stopped"}

TypeOK ==
    /\ scenario \in Scenarios
    /\ line \in Nat \ 0..Fewer /\ allWaiting \in BOOLEAN
    /\ cache \in Nat /\ filler \in Nat /\ events \in Nat
    /\ handlers \in [Handlers -> Seq({"event", "position", "invalidate", "call"})]
    /\ posChan \in Seq({"this", "other"}) /\ Len(posChan) <= JobCap
    /\ eventChans \in [EventJobs -> Seq(Nat)]
    /\ \A j \in EventJobs : Len(eventChans[j]) <= JobCap
    /\ actors \in [Actors -> ActorType]
    /\ wire \in Seq(Message) /\ linkUp \in BOOLEAN
    /\ subs \subseteq Clients
    /\ streams \in [Clients -> StreamType]
    /\ \A c \in Clients : Len(streams[c].fifo) <= FifoCap
    /\ phase \in Phases
    /\ pool \in 0..PoolCap /\ poolOpen \in BOOLEAN /\ busy \in 0..Workers
    /\ newest \in Nat /\ turns \in 0..MaxTurns /\ faults \subseteq FaultKinds

Init ==
    /\ scenario \in Scenarios
    /\ line = Fewer + 1 /\ allWaiting = TRUE /\ cache = 0 /\ filler = 0 /\ events = 0
    /\ handlers = [h \in Handlers |-> <<>>]
    /\ posChan = <<>> /\ eventChans = [j \in EventJobs |-> <<>>]
    /\ actors = [a \in Actors |-> IdleActor]
    /\ wire = <<>> /\ linkUp = TRUE /\ subs = {}
    /\ streams = [c \in Clients |-> NoStream]
    /\ phase = "up" /\ pool = 0 /\ poolOpen = TRUE /\ busy = 0
    /\ newest = 0 /\ turns = 0 /\ faults = {}
-----------------------------------------------------------------------------
(* Helpers *)

Turn == turns < MaxTurns /\ turns' = turns + 1

Note(f, happens) == faults' = IF happens THEN faults \cup {f} ELSE faults

ActorAt(a, l) == actors[a].pc = l
ActorGoto(a, l) == actors' = [actors EXCEPT ![a].pc = l]
ActorIdles(a) == actors' = [actors EXCEPT ![a] = IdleActor]

\* Somebody holds the broker's mutex for reading.
ReadLocked == \E a \in Actors : actors[a].pc \in {"local", "signal"}

\* Mutant: the channel grows instead.
TrySendUnbounded(ch, m, cap) == Append(ch, m)

\* A send on a buffered channel with a default: nothing when it is full.
TrySend(ch, m, cap) == IF Len(ch) < cap THEN Append(ch, m) ELSE ch

\* Where a publisher continues when its message is out.
AfterPublish(a) ==
    IF actors[a].msg.kind = "count"
    THEN ActorIdles(a)
    ELSE ActorGoto(a, IF a = "keyspace" THEN "count" ELSE "notify")
-----------------------------------------------------------------------------
(* Requests *)

\* What a request may do to the statuses in the line: who is called is no longer
\* WAITING, nor who arrives; who is served, leaves or is put back may be the last one
\* that was not.
StatusesAfter(op) ==
    CASE op = "line"             -> {allWaiting, TRUE}
      [] op = "status"           -> {allWaiting, FALSE}
      [] op = "settings"         -> {allWaiting}
      [] op \in {"next", "recall"} -> {FALSE}

\* The change in the database; its own steps are those of QueueSession.
StartRequest(h) ==
    /\ phase = "up"
    /\ handlers[h] = <<>>
    /\ \E op \in DOMAIN Steps \cap scenario :
         /\ op = "line" => line < MaxLine
         /\ handlers' = [handlers EXCEPT ![h] = Steps[op]]
         /\ line' = IF op = "line" THEN line + 1 ELSE line
         /\ allWaiting' \in StatusesAfter(op)
    /\ Turn
    /\ UNCHANGED <<scenario, cache, filler, events, channels, actors, broker, process,
                   newest, faults>>

NextCall(h, s) ==
    /\ handlers[h] # <<>> /\ Head(handlers[h]) = s
    /\ handlers' = [handlers EXCEPT ![h] = Tail(@)]

\* HostNotifierJob.dispatch.
DispatchEvent(h) ==
    /\ NextCall(h, "event")
    /\ events' = events + 1
    /\ eventChans' = [eventChans EXCEPT !["host"] = TrySend(@, events + 1, JobCap)]
    /\ UNCHANGED <<scenario, line, allWaiting, cache, filler, posChan, actors, broker, process, history>>

\* Caller.DispatchCall.
DispatchCall(h) ==
    /\ NextCall(h, "call")
    /\ events' = events + 1
    /\ eventChans' = [eventChans EXCEPT !["caller"] = TrySend(@, events + 1, JobCap)]
    /\ UNCHANGED <<scenario, line, allWaiting, cache, filler, posChan, actors, broker, process, history>>

\* PositionJob.Dispatch: dropped when the channel is full.  That loses nothing
\* while this queue waits in it.
DispatchPosition(h) ==
    /\ NextCall(h, "position")
    /\ posChan' = TrySend(posChan, "this", JobCap)
    /\ Note("dropped", \A i \in DOMAIN posChan' : posChan'[i] # "this")
    /\ UNCHANGED <<scenario, line, allWaiting, cache, filler, events, eventChans, actors, broker, process,
                   newest, turns>>

DispatchOther ==
    /\ "other" \in scenario
    /\ phase = "up" /\ Len(posChan) < JobCap
    /\ posChan' = Append(posChan, "other")
    /\ Turn
    /\ UNCHANGED <<queue, eventChans, actors, broker, process, newest, faults>>

InvalidateSnapshot(h) ==
    /\ NextCall(h, "invalidate")
    /\ cache' = 0
    /\ UNCHANGED <<scenario, line, allWaiting, filler, events, channels, actors, broker, process, history>>

\* The cached status counts its WAITING entries, a broadcast the sorted set.
StatusCount == IF allWaiting THEN line ELSE Fewer

\* GetPublicStatus misses the cache; singleflight lets one request read.
ReadStatus ==
    /\ "read" \in scenario
    /\ phase = "up"
    /\ cache = 0 /\ filler = 0
    /\ filler' = StatusCount
    /\ Turn
    /\ UNCHANGED <<scenario, line, allWaiting, cache, handlers, events, channels, actors, broker, process,
                   newest, faults>>

FillSnapshot ==
    /\ filler # 0
    /\ cache' = filler /\ filler' = 0
    /\ UNCHANGED <<scenario, line, allWaiting, handlers, events, channels, actors, broker, process, history>>

\* The snapshot lives for 5 s.
SnapshotExpires ==
    /\ cache # 0
    /\ cache' = 0
    /\ UNCHANGED <<scenario, line, allWaiting, filler, handlers, events, channels, actors, broker, process,
                   history>>
-----------------------------------------------------------------------------
(* The jobs: what they publish *)

TakePosition ==
    /\ ActorAt("position", "idle") /\ posChan # <<>>
    /\ posChan' = Tail(posChan)
    /\ IF Head(posChan) = "this" THEN ActorGoto("position", "count") ELSE UNCHANGED actors
    /\ UNCHANGED <<queue, eventChans, broker, process, history>>

\* Mutant: the first run only; the ticker is never read.
SweepOnce ==
    /\ "sweep" \in scenario
    /\ ActorAt("sweeper", "idle") /\ phase = "up" /\ newest = 0
    /\ ActorGoto("sweeper", "count")
    /\ UNCHANGED <<queue, channels, broker, process, history>>

\* ExpiryJob, every five minutes: BroadcastAllActiveQueues.
Sweep ==
    /\ "sweep" \in scenario
    /\ ActorAt("sweeper", "idle") /\ phase \in {"up", "draining", "closed"}
    /\ ActorGoto("sweeper", "count")
    /\ UNCHANGED <<queue, channels, broker, process, history>>

\* A presence timer expires: the listener of Redis' keyspace events makes a CALLED
\* guest IDLE, or an IDLE one WAITING, publishes the status and then the count.
TimerExpires ==
    /\ "timer" \in scenario
    /\ ActorAt("keyspace", "idle") /\ phase # "cancelled"
    /\ allWaiting' \in BOOLEAN /\ events' = events + 1
    /\ actors' = [actors EXCEPT !["keyspace"] =
                    [IdleActor EXCEPT !.pc = "publish",
                                      !.msg = Event("keyspace", events + 1)]]
    /\ Turn
    /\ UNCHANGED <<scenario, line, cache, filler, handlers, channels, broker, process, newest,
                   faults>>

TakeEvent(j) ==
    /\ ActorAt(j, "idle") /\ eventChans[j] # <<>>
    /\ eventChans' = [eventChans EXCEPT ![j] = Tail(@)]
    /\ actors' = [actors EXCEPT ![j] = [IdleActor EXCEPT !.pc = "publish",
                                              !.msg = Event(j, Head(eventChans[j]))]]
    /\ UNCHANGED <<queue, posChan, broker, process, history>>

\* BroadcastPositionsForQueue counts the sorted set; it cannot with a context that
\* is cancelled.
CountLine(a) ==
    /\ ActorAt(a, "count")
    /\ IF phase = "cancelled"
       THEN ActorIdles(a)
       ELSE actors' = [actors EXCEPT ![a].pc = "publish", ![a].msg = Count(a, line)]
    /\ UNCHANGED <<queue, channels, broker, process, history>>

\* What a published count says of the order of counts.
NotePublished(m) ==
    IF m.kind = "count"
    THEN /\ Note("overtaken", m.n < newest)
         /\ newest' = IF m.n > newest THEN m.n ELSE newest
    ELSE UNCHANGED <<newest, faults>>

\* Mutant: the message is dispatched locally, too, without waiting for Redis.
PublishTwice(a) ==
    /\ ActorAt(a, "publish") /\ Len(wire) < WireCap
    /\ wire' = IF linkUp THEN Append(wire, actors[a].msg) ELSE wire
    /\ NotePublished(actors[a].msg)
    /\ IF subs = {}
       THEN AfterPublish(a)
       ELSE actors' = [actors EXCEPT ![a].pc = "local", ![a].todo = subs]
    /\ UNCHANGED <<queue, channels, linkUp, subs, streams, process, turns>>

\* Broker.Publish: Redis has it; without a subscriber it is lost.
Publish(a) ==
    /\ ActorAt(a, "publish") /\ Len(wire) < WireCap
    /\ wire' = IF linkUp THEN Append(wire, actors[a].msg) ELSE wire
    /\ IF linkUp
       THEN NotePublished(actors[a].msg)
       ELSE Note("lost", TRUE) /\ UNCHANGED newest
    /\ AfterPublish(a)
    /\ UNCHANGED <<queue, channels, linkUp, subs, streams, process, turns>>

\* Publish fails, or times out when Redis has the message: PublishLocal too.
PublishFails(a) ==
    /\ "fail" \in scenario
    /\ ActorAt(a, "publish") /\ Len(wire) < WireCap
    /\ wire' \in {wire, IF linkUp THEN Append(wire, actors[a].msg) ELSE wire}
    /\ IF subs = {}
       THEN AfterPublish(a)
       ELSE actors' = [actors EXCEPT ![a].pc = "local", ![a].todo = subs]
    /\ Turn /\ Note("fallback", TRUE)
    /\ UNCHANGED <<queue, channels, linkUp, subs, streams, process, newest>>

\* The publisher's DispatchFunc of a push notification: dropped when the channel
\* is full; a send on the closed channel panics, and runJob ends the job.
Notify(a) ==
    /\ ActorAt(a, "notify")
    /\ IF poolOpen
       THEN /\ pool' \in {pool, IF pool < PoolCap THEN pool + 1 ELSE pool}
            /\ ActorIdles(a)
       ELSE /\ actors' = [actors EXCEPT ![a] = [IdleActor EXCEPT !.pc = "exited"]]
            /\ UNCHANGED pool
    /\ UNCHANGED <<queue, channels, broker, phase, poolOpen, busy, history>>
-----------------------------------------------------------------------------
(* Redis pub/sub and the broker *)

LinkDrops ==
    /\ "drop" \in scenario
    /\ linkUp
    /\ linkUp' = FALSE /\ wire' = <<>>
    /\ Turn /\ Note("lost", TRUE)
    /\ UNCHANGED <<queue, channels, actors, subs, streams, process, newest>>

Reconnect ==
    /\ ~linkUp
    /\ linkUp' = TRUE
    /\ UNCHANGED <<queue, channels, actors, wire, subs, streams, process, history>>

\* The listener takes a message and begins PublishLocal: RLock.
Receive ==
    /\ ActorAt("listener", "idle") /\ wire # <<>>
    /\ wire' = Tail(wire)
    /\ IF subs = {}
       THEN UNCHANGED actors
       ELSE actors' = [actors EXCEPT !["listener"] =
                         [IdleActor EXCEPT !.pc = "local", !.msg = Head(wire), !.todo = subs]]
    /\ UNCHANGED <<queue, channels, linkUp, subs, streams, process, history>>

\* Actor a has sent its message to c; the last send is followed by RUnlock.
Sent(a, c) ==
    IF actors[a].todo \subseteq {c}
    THEN IF a = "listener" THEN ActorIdles(a) ELSE AfterPublish(a)
    ELSE actors' = [actors EXCEPT ![a].pc = "local", ![a].todo = @ \ {c}, ![a].at = {}]

\* Subscriber.Send of a count: under the subscriber's mutex.
StoreLatest(a, c) ==
    /\ ActorAt(a, "local") /\ c \in actors[a].todo /\ actors[a].msg.kind = "count"
    /\ IF streams[c].closed
       THEN Sent(a, c) /\ UNCHANGED streams
       ELSE /\ streams' = [streams EXCEPT ![c].latest = actors[a].msg.n]
            /\ actors' = [actors EXCEPT ![a].pc = "signal", ![a].at = {c}]
    /\ UNCHANGED <<queue, channels, wire, linkUp, subs, process, history>>

\* Then, without the mutex, the signal that wakes the writer.
SignalWriter(a, c) ==
    /\ ActorAt(a, "signal") /\ c \in actors[a].at
    /\ streams' = [streams EXCEPT ![c].signal = TRUE]
    /\ Sent(a, c)
    /\ UNCHANGED <<queue, channels, wire, linkUp, subs, process, history>>

\* Subscriber.Send of an event: dropped when the channel is full.
SendEvent(a, c) ==
    /\ ActorAt(a, "local") /\ c \in actors[a].todo /\ actors[a].msg.kind = "event"
    /\ streams' = [streams EXCEPT ![c].fifo = TrySend(@, actors[a].msg, FifoCap)]
    /\ Sent(a, c)
    /\ UNCHANGED <<queue, channels, wire, linkUp, subs, process, history>>

-----------------------------------------------------------------------------
(* The streams *)

StreamAt(c, l) == streams[c].pc = l
StreamGoto(c, l) == streams' = [streams EXCEPT ![c].pc = l]

Connect(c) ==
    /\ phase = "up" /\ StreamAt(c, "off")
    /\ StreamGoto(c, "asked")
    /\ UNCHANGED <<queue, channels, actors, wire, linkUp, subs, process, history>>

\* ServeHTTP subscribes before it returns the writer; after Shutdown, too.
Subscribe(c) ==
    /\ StreamAt(c, "asked") /\ ~ReadLocked
    /\ subs' = subs \cup {c}
    /\ streams' = [streams EXCEPT ![c].pc = "snapshot", ![c].closed = FALSE]
    /\ UNCHANGED <<queue, channels, actors, wire, linkUp, process, history>>

\* Mutant: the writer resets the signal, for it has just sent a snapshot.
SendSnapshotResettingSignal(c) ==
    /\ StreamAt(c, "snapshot")
    /\ LET v == IF cache # 0 THEN cache ELSE line
       IN  /\ streams' = [streams EXCEPT ![c].pc = "loop", ![c].shown = v,
                                         ![c].signal = FALSE]
           /\ Note(IF v = Fewer THEN "miscounted" ELSE "stale", v # line)
    /\ UNCHANGED <<queue, channels, actors, wire, linkUp, subs, process, newest, turns>>

\* PublicEvents' snapshot: the count of the cached status, or of the line.
SendSnapshot(c) ==
    /\ StreamAt(c, "snapshot")
    /\ LET v == IF cache # 0 THEN cache ELSE line
       IN  /\ streams' = [streams EXCEPT ![c].pc = "loop", ![c].shown = v]
           /\ Note(IF v = Fewer THEN "miscounted" ELSE "stale", v # line)
    /\ UNCHANGED <<queue, channels, actors, wire, linkUp, subs, process, newest, turns>>

\* A closed signal wakes the writer, too, which changes nothing without a count.
TakeSignal(c) ==
    /\ StreamAt(c, "loop")
    /\ streams[c].signal \/ (streams[c].closed /\ streams[c].latest # 0)
    /\ streams' = [streams EXCEPT ![c].pc = "drain", ![c].signal = FALSE]
    /\ UNCHANGED <<queue, channels, actors, wire, linkUp, subs, process, history>>

\* Mutant: the map is read, and not reset.
DrainLatestKeeping(c) ==
    /\ StreamAt(c, "drain")
    /\ streams' = [streams EXCEPT ![c].pc = "loop",
                     ![c].shown = IF streams[c].latest # 0 THEN streams[c].latest ELSE @]
    /\ UNCHANGED <<queue, channels, actors, wire, linkUp, subs, process, history>>

\* DrainLatest under the subscriber's mutex, and the writes of its frames.
DrainLatest(c) ==
    /\ StreamAt(c, "drain")
    /\ streams' = [streams EXCEPT ![c].pc = "loop", ![c].latest = 0,
                     ![c].shown = IF streams[c].latest # 0 THEN streams[c].latest ELSE @]
    /\ UNCHANGED <<queue, channels, actors, wire, linkUp, subs, process, history>>

TakeEventFrame(c) ==
    /\ StreamAt(c, "loop") /\ streams[c].fifo # <<>>
    /\ LET m == Head(streams[c].fifo)
       IN  streams' = [streams EXCEPT ![c].fifo = Tail(@), ![c].got[m.by] = m.n]
    /\ UNCHANGED <<queue, channels, actors, wire, linkUp, subs, process, history>>

\* The server shuts down, or the subscriber is closed and its events are taken.
StreamEnds(c) ==
    /\ StreamAt(c, "loop")
    /\ phase # "up" \/ (streams[c].closed /\ streams[c].fifo = <<>>)
    /\ StreamGoto(c, "unsubscribe")
    /\ UNCHANGED <<queue, channels, actors, wire, linkUp, subs, process, history>>

\* A write fails because the client has gone, or the snapshot cannot be read.
WriteFails(c) ==
    /\ "leave" \in scenario
    /\ streams[c].pc \in {"snapshot", "loop", "drain"}
    /\ StreamGoto(c, "unsubscribe")
    /\ Turn
    /\ UNCHANGED <<queue, channels, actors, wire, linkUp, subs, process, newest, faults>>

\* Mutant: without the broker's mutex.
UnsubscribeUnlocked(c) ==
    /\ StreamAt(c, "unsubscribe")
    /\ subs' = subs \ {c}
    /\ streams' = [streams EXCEPT ![c] = [NoStream EXCEPT !.shown = streams[c].shown,
                                                          !.got = streams[c].got]]
    /\ UNCHANGED <<queue, channels, actors, wire, linkUp, process, history>>

\* The writer's deferred unsubscribe, which closes the subscriber.
Unsubscribe(c) ==
    /\ StreamAt(c, "unsubscribe") /\ ~ReadLocked
    /\ subs' = subs \ {c}
    /\ streams' = [streams EXCEPT ![c] = [NoStream EXCEPT !.shown = streams[c].shown,
                                                          !.got = streams[c].got]]
    /\ UNCHANGED <<queue, channels, actors, wire, linkUp, process, history>>
-----------------------------------------------------------------------------
(* The life of the process *)

StopServing ==
    /\ "stop" \in scenario
    /\ phase = "up"
    /\ phase' = "draining"
    /\ UNCHANGED <<queue, channels, actors, broker, pool, poolOpen, busy, history>>

Drained == /\ \A h \in Handlers : handlers[h] = <<>>
           /\ \A c \in Clients : StreamAt(c, "off")

\* Fiber has drained, or 20 s have passed: Broker.Shutdown closes the subscribers.
BrokerShutdown ==
    /\ phase = "draining" /\ ~ReadLocked
    /\ \/ Drained /\ UNCHANGED <<turns, faults>>
       \/ ~Drained /\ Turn /\ Note("timeout", TRUE)
    /\ phase' = "closed"
    /\ subs' = {}
    /\ streams' = [c \in Clients |->
                     [streams[c] EXCEPT !.closed = @ \/ c \in subs]]
    /\ UNCHANGED <<queue, channels, actors, wire, linkUp, pool, poolOpen, busy, newest>>

CancelContext ==
    /\ phase = "closed"
    /\ phase' = "cancelled"
    /\ UNCHANGED <<queue, channels, actors, broker, pool, poolOpen, busy, history>>

JobExits(j) ==
    /\ phase = "cancelled" /\ ActorAt(j, "idle")
    /\ actors' = [actors EXCEPT ![j] = [IdleActor EXCEPT !.pc = "exited"]]
    /\ UNCHANGED <<queue, channels, broker, process, history>>

\* NotificationJob.Start closes its channel.
ClosePool ==
    /\ phase = "cancelled" /\ poolOpen
    /\ poolOpen' = FALSE
    /\ UNCHANGED <<queue, channels, actors, broker, phase, pool, busy, history>>

WorkerTakes ==
    /\ pool > 0 /\ busy < Workers
    /\ pool' = pool - 1 /\ busy' = busy + 1
    /\ UNCHANGED <<queue, channels, actors, broker, phase, poolOpen, history>>

WorkerDone ==
    /\ busy > 0
    /\ busy' = busy - 1
    /\ UNCHANGED <<queue, channels, actors, broker, phase, pool, poolOpen, history>>

\* main returns when the server no longer listens, which is before it has drained.  The
\* goroutine that shuts the container down, the WaitGroups of its jobs and of the
\* notification workers end with it, however far they are.
StopProcess ==
    /\ phase \in {"draining", "closed", "cancelled"}
    /\ phase' = "stopped"
    /\ UNCHANGED <<queue, channels, actors, broker, pool, poolOpen, busy, history>>
-----------------------------------------------------------------------------
Request(h) ==
    \/ DispatchEvent(h) \/ DispatchCall(h) \/ DispatchPosition(h) \/ InvalidateSnapshot(h)

JobTakes(j) ==
    \/ j = "position" /\ TakePosition
    \/ j = "sweeper" /\ Sweep
    \/ j \in EventJobs /\ TakeEvent(j)

ActorStep(a) ==
    \/ a \in Jobs /\ (JobTakes(a) \/ CountLine(a) \/ Publish(a) \/ Notify(a))
    \/ a = "listener" /\ Receive
    \/ \E c \in Clients : StoreLatest(a, c) \/ SignalWriter(a, c) \/ SendEvent(a, c)

StreamStep(c) ==
    \/ Subscribe(c) \/ SendSnapshot(c) \/ TakeSignal(c) \/ DrainLatest(c)
    \/ Unsubscribe(c)

Shutdown ==
    \/ BrokerShutdown \/ CancelContext \/ ClosePool \/ WorkerTakes \/ WorkerDone
    \/ StopProcess

Environment ==
    \/ DispatchOther \/ ReadStatus \/ SnapshotExpires \/ TimerExpires
    \/ LinkDrops \/ StopServing
    \/ \E h \in Handlers : StartRequest(h)
    \/ \E j \in Jobs : PublishFails(j)
    \/ \E c \in Clients : Connect(c) \/ WriteFails(c)

\* Nothing runs once the process has stopped.
Next ==
    /\ phase # "stopped"
    /\ \/ Environment \/ Shutdown \/ Reconnect \/ FillSnapshot
       \/ \E h \in Handlers : Request(h)
       \/ \E a \in Actors : ActorStep(a)
       \/ \E j \in Jobs : JobExits(j)
       \/ \E c \in Clients : StreamStep(c) \/ TakeEventFrame(c) \/ StreamEnds(c)

Spec == Init /\ [][Next]_vars

\* Goroutines run, Redis comes back, the sweeper's ticker ticks, until the process
\* stops.
Fairness ==
    LET Runs(A) == phase # "stopped" /\ A
    IN  /\ \A h \in Handlers : WF_vars(Runs(Request(h)))
        /\ \A a \in Actors : WF_vars(Runs(ActorStep(a)))
        /\ \A c \in Clients : WF_vars(Runs(StreamStep(c)))
        /\ WF_vars(Runs(Reconnect))

FairSpec == Spec /\ Fairness
-----------------------------------------------------------------------------
(* Properties *)

\* A dispatcher never sends on a channel that an unsubscribing writer or the
\* shutdown has closed, which would panic.
NoSendOnClosed ==
    \A a \in Actors, c \in Clients :
        (\/ ActorAt(a, "local") /\ actors[a].msg.kind = "event" /\ c \in actors[a].todo
         \/ ActorAt(a, "signal") /\ c \in actors[a].at)
        => ~streams[c].closed

\* A stored count is never left without a wake-up: the signal is set, or about to
\* be, or the writer is about to drain.
NoLostWakeup ==
    \A c \in Clients :
        streams[c].latest # 0 /\ ~streams[c].closed =>
            \/ streams[c].signal \/ StreamAt(c, "drain") \/ StreamAt(c, "unsubscribe")
            \/ \E a \in Actors : ActorAt(a, "signal") /\ c \in actors[a].at

\* The line is published and every message dispatched.
Quiet ==
    /\ \A h \in Handlers : handlers[h] = <<>>
    /\ posChan = <<>> /\ wire = <<>>
    /\ \A a \in Actors : ActorAt(a, "idle")

\* When nothing was lost or overtaken, and no stream began with a cached count that was
\* old or left out the guests who are CALLED, ARRIVED or IDLE, an idle stream shows the
\* line as soon as the messages are through, without the help of the next sweep.
SettledShows ==
    phase # "stopped" /\ Quiet /\ faults = {} =>
        \A c \in Clients :
            StreamAt(c, "loop") /\ streams[c].latest = 0 => streams[c].shown = line

\* A client is shown the events of each job in the order of their dispatch, also
\* across reconnections, unless a message went past Redis.
EventsInOrder ==
    [][\A c \in Clients, j \in Jobs :
          "fallback" \notin faults => streams'[c].got[j] >= streams[c].got[j]]_vars

\* While the sweeper's ticker ticks: whatever was lost, overtaken, dropped, stale or
\* miscounted, its broadcast makes every stream show the line in the end.
ClientCatchesUp ==
    <>[](\A c \in Clients :
            "sweep" \in scenario /\ phase = "up" /\ StreamAt(c, "loop") =>
                streams[c].shown = line)

\* A stream is open until its writer leaves the loop.
Open(c) == streams[c].pc \in {"snapshot", "loop", "drain"}

\* Any one of the streams: they do not differ.
Observed == CHOOSE c \in Clients : TRUE

\* The end of the process ends the stream, too.
ObservedOpen == phase # "stopped" /\ Open(Observed)

Box == INSTANCE Mailbox WITH
         open <- ObservedOpen,
         box <- IF ObservedOpen THEN streams[Observed].latest ELSE 0,
         shown <- streams[Observed].shown

\* The slot, the signal and the writer of a stream implement a mailbox: whatever
\* the interleaving of senders, writer and shutdown, a count that is put into an
\* open stream is shown, or replaced by one that is.
StreamIsMailbox == Box!Spec
=============================================================================
