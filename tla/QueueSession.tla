---------------------------- MODULE QueueSession ----------------------------
(***************************************************************************)
(* One virtual queue of QueueBuzz: its document and its guests' entries in *)
(* MongoDB, its keys in Redis, and everything that acts on them at the     *)
(* same time: HTTP requests of guests and of the host, the listener of     *)
(* expired Redis keys (KeyspaceJob) and the sweeper of expired queues      *)
(* (ExpiryJob).                                                            *)
(*                                                                         *)
(* A handler is a sequence of steps, one per database command whose result *)
(* or effect another actor can observe; `pc' names the command that is     *)
(* next.  Commands are atomic, handlers are not.                           *)
(***************************************************************************)
EXTENDS Naturals, Sequences, FiniteSets

CONSTANTS
    Entries,       \* the guests that may ever join, one entry document each
    Requests,      \* slots for HTTP requests that are served concurrently
    Ops,           \* the operations that clients of this instance use
    MaxGuests,     \* plan.Limits.MaxGuestsPerQueue, 0 for unlimited
    Strict,        \* queue.StrictQueueMode
    Plan,          \* "paid", "free" or "anonymous": the plan of the host
    LockMayExpire, \* may the 3 s TTL of the call_next lock pass in a handler
    CommandsMayFail, \* may a command fail after its retries
    MaxLosses,     \* bound: how often Redis is wiped
    MaxEvents,     \* bound: expired-key messages waiting for the listener
    MaxTickets,    \* bound: no join starts when the counter has reached it
    MaxServed,     \* bound: how many serve requests are started
    NoRequest,     \* the value of a lock key that does not exist
    NoEntry        \* the entry of a request that is about none

AllOps == {"join", "addEntry", "status", "callNext", "callEntry", "serve",
           "skip", "leave", "arrived", "confirm", "pause", "resume",
           "terminate", "expire"}

ASSUME SessionAssumption ==
    /\ IsFiniteSet(Entries) /\ IsFiniteSet(Requests)
    /\ Ops \subseteq AllOps
    /\ MaxGuests \in Nat /\ MaxLosses \in Nat
    /\ MaxEvents \in Nat /\ MaxServed \in Nat /\ MaxTickets \in Nat
    /\ Strict \in BOOLEAN
    /\ LockMayExpire \in BOOLEAN /\ CommandsMayFail \in BOOLEAN
    /\ Plan \in {"paid", "free", "anonymous"}
    /\ NoRequest \notin Requests
    /\ NoEntry \notin Entries

VARIABLES
    \* MongoDB: the queue document and the queue_entries collection
    qStatus,    \* queue.status, "GONE" once the document is deleted
    pastExpiry, \* queue.expires_at <= now
    status,     \* entry.status; "ABSENT" before the insert, "GONE" after a delete
    finished,   \* the entries whose finished_at is set
    ticket,     \* the number in entry.ticket_no, 0 before the insert
    stamp,      \* entry.created_at, also the score in the sorted set
    served,     \* host.total_served_count
    \* Redis
    positions,  \* members of the sorted set queue positions
    counter,    \* the ticket counter; a missing key counts from 0
    counterSet, \* does the ticket counter exist
    sentinel,   \* does rehydrated:{queue} exist
    idleTimer,  \* entries whose idle_timer key exists
    graceTimer, \* entries whose grace_timer key exists
    lock,       \* owner of lock:{queue}:call_next
    events,     \* expired-key messages on their way to the listener
    losses,     \* how often Redis has been wiped
    \* the actors
    req,        \* the request in each slot
    listener,   \* KeyspaceJob: the entry whose grace timer is set next
    sweeper     \* ExpiryJob: the next command of expireQueue, and whether the
                \* queue document it read has no host

mongo == <<qStatus, pastExpiry, status, finished, ticket, stamp, served>>
timers == <<idleTimer, graceTimer, events>>
redis == <<positions, counter, counterSet, sentinel, lock, losses, timers>>
vars == <<mongo, redis, req, listener, sweeper>>

LiveStatus == {"WAITING", "CALLED", "IDLE", "ARRIVED"}
TerminalStatus == {"SERVED", "LEFT", "SKIPPED"}
Stored == {e \in Entries : status[e] \in LiveStatus \cup TerminalStatus}

PCs == {"idle", "count", "sentinel", "find", "zaddAll", "admit", "hasCounter",
        "maxTicket", "setCounter", "incr", "insert", "zadd", "strict",
        "zrange", "pick", "mark", "timer", "release", "zrem", "tally",
        "clearIdle", "clearGrace", "close", "skipAll", "delKeys"}

RequestType ==
    [op : AllOps \cup {"none"}, pc : PCs, e : Entries \cup {NoEntry},
     ids : SUBSET Entries, n : Nat, live : BOOLEAN]

IdleRequest == [op |-> "none", pc |-> "idle", e |-> NoEntry, ids |-> {},
                n |-> 0, live |-> FALSE]

IdleSweeper == [pc |-> "idle", hostless |-> FALSE]

TypeOK ==
    /\ qStatus \in {"ACTIVE", "PAUSED", "CLOSED", "EXPIRED", "GONE"}
    /\ pastExpiry \in BOOLEAN
    /\ status \in [Entries -> LiveStatus \cup TerminalStatus \cup {"ABSENT", "GONE"}]
    /\ finished \subseteq Entries
    /\ ticket \in [Entries -> Nat] /\ stamp \in [Entries -> Nat]
    /\ served \in Nat
    /\ positions \subseteq Entries
    /\ counter \in Nat /\ counterSet \in BOOLEAN /\ sentinel \in BOOLEAN
    /\ idleTimer \subseteq Entries /\ graceTimer \subseteq Entries
    /\ lock \in Requests \cup {NoRequest}
    /\ events \in Seq({"idle", "grace"} \X Entries)
    /\ losses \in 0..MaxLosses
    /\ req \in [Requests -> RequestType]
    /\ listener \in Entries \cup {NoEntry}
    /\ sweeper \in [pc : {"idle", "read", "mark", "delKeys", "entries", "drop"},
                     hostless : BOOLEAN]

Init ==
    /\ qStatus = "ACTIVE" /\ pastExpiry = FALSE
    /\ status = [e \in Entries |-> "ABSENT"]
    /\ finished = {}
    /\ ticket = [e \in Entries |-> 0] /\ stamp = [e \in Entries |-> 0]
    /\ served = 0
    /\ positions = {}
    /\ counter = 0 /\ counterSet = FALSE
    /\ sentinel = TRUE                 \* set by CreateQueue for a minute
    /\ idleTimer = {} /\ graceTimer = {}
    /\ lock = NoRequest
    /\ events = <<>>
    /\ losses = 0
    /\ req = [r \in Requests |-> IdleRequest]
    /\ listener = NoEntry
    /\ sweeper = IdleSweeper

-----------------------------------------------------------------------------
(* Helpers *)

\* GetQueue finds the document only while it is open and not past expires_at.
QueueLive == qStatus \in {"ACTIVE", "PAUSED"} /\ ~pastExpiry

\* UpdateOne by _id: writes the status of an entry that is still stored.
SetStatus(e, s) ==
    status' = IF e \in Stored THEN [status EXCEPT ![e] = s] ELSE status

\* The member that ZRANGE returns first; scores are the creation times.
Oldest(S) == {e \in S : \A f \in S : stamp[e] <= stamp[f]}

Tickets == {ticket[e] : e \in Stored} \cup {0}

\* A ticket, of nine digits at most, and what remains of it without its last ones.
Beginnings(t) == {t, t \div 10, t \div 100, t \div 1000, t \div 10000, t \div 100000}

\* What "Q-%04d" reads of a ticket is its first four digits: the ticket itself up
\* to 9999, and the greatest beginning that is no longer than that otherwise.
Readable == {n \in UNION {Beginnings(t) : t \in Tickets} : n <= 9999}

\* Mutant: the sort is lost, and the counter restarts.
IsLastTicketIgnored(n) == n = 0

\* What FindOne sorted by ticket_no, a string, finds and Sscanf reads: the
\* greatest string begins with the greatest four digits, so that "Q-9999" comes
\* after "Q-10000"; 0 without entries.
IsLastTicket(n) == \A m \in Readable : m <= n

\* A request with operation o enters a free slot; its first command is l.
Begin(r, o, e, l) ==
    /\ o \in Ops
    /\ req[r].pc = "idle"
    /\ req' = [req EXCEPT ![r] = [IdleRequest EXCEPT !.op = o, !.e = e, !.pc = l]]

At(r, l) == req[r].pc = l

\* The entry is stored but has no position yet; its guest has no token yet.
Joining(e) == \E r \in Requests : At(r, "zadd") /\ req[r].e = e

\* HostOwnerMiddleware: only before expires_at; the token of an anonymous host
\* is looked up in Redis first, where it is valid for a day, and a token that
\* Redis has lost is stored again by any request before expires_at.
HostOwner == ~pastExpiry \/ Plan = "anonymous"

\* What a handler takes for the result x of a read: d when the read fails.
OrFailed(x, d) == IF CommandsMayFail THEN {x, d} ELSE {x}

Goto(r, l) == req' = [req EXCEPT ![r].pc = l]
Done(r) == req' = [req EXCEPT ![r] = IdleRequest]
-----------------------------------------------------------------------------
(* Reading the queue length, and rebuilding the sorted set from MongoDB *)

\* A read of the queue (public status, SSE snapshot, position of a guest).
StartStatus(r) ==
    /\ Begin(r, "status", NoEntry, "count")
    /\ UNCHANGED <<mongo, redis, listener, sweeper>>

\* What a caller of GetWaitingCount or GetPosition does next.
AfterCount(r, n) ==
    IF req[r].op = "status"
    THEN Done(r)
    ELSE req' = [req EXCEPT ![r].n = n, ![r].pc = "admit"]

\* GetWaitingCount: ZCARD, and EXISTS of the sentinel when it is 0.  The
\* capacity check of a join reads the queue once more first, and does not
\* limit the join when that fails.
Count(r) ==
    /\ At(r, "count")
    /\ \/ /\ req[r].op = "join" /\ ~QueueLive
          /\ AfterCount(r, 0)
       \/ /\ req[r].op = "join" => QueueLive
          /\ positions # {} \/ sentinel
          /\ AfterCount(r, Cardinality(positions))
       \/ /\ req[r].op = "join" => QueueLive
          /\ positions = {} /\ ~sentinel
          /\ Goto(r, "sentinel")
    /\ UNCHANGED <<mongo, redis, listener, sweeper>>

\* rehydrateQueue 1: the sentinel is set before anything is read.
RehydrateSentinel(r) ==
    /\ At(r, "sentinel")
    /\ sentinel' = TRUE
    /\ Goto(r, "find")
    /\ UNCHANGED <<mongo, positions, counter, counterSet, lock, losses, timers,
                   listener, sweeper>>

\* The entries rehydrateQueue looks for; IDLE is not among them.
Rehydratable == {e \in Entries : status[e] \in {"WAITING", "CALLED", "ARRIVED"}}

\* Where the caller of rehydrateQueue continues with the entries found.
AfterRehydrate(r, ids) ==
    IF req[r].op = "callNext"
    THEN req' = [req EXCEPT ![r].ids = ids,
                            ![r].pc = IF ids = {} THEN "release" ELSE "pick"]
    ELSE AfterCount(r, Cardinality(ids))

\* rehydrateQueue 2: reads the live entries from MongoDB.
RehydrateFind(r) ==
    /\ At(r, "find")
    /\ IF Rehydratable = {}
       THEN AfterRehydrate(r, {})
       ELSE req' = [req EXCEPT ![r].ids = Rehydratable, ![r].pc = "zaddAll"]
    /\ UNCHANGED <<mongo, redis, listener, sweeper>>

\* rehydrateQueue 3: adds what was read to the sorted set.
RehydrateAdd(r) ==
    /\ At(r, "zaddAll")
    /\ positions' = positions \cup req[r].ids
    /\ AfterRehydrate(r, req[r].ids)
    /\ UNCHANGED <<mongo, counter, counterSet, sentinel, lock, losses, timers,
                   listener, sweeper>>
-----------------------------------------------------------------------------
(* Joining *)

\* Guests that have not joined and are not joining.
Joinable(e) ==
    /\ status[e] = "ABSENT" /\ \A r \in Requests : req[r].e # e
    /\ counter < MaxTickets

\* JoinByQueueID: the queue must be open and not paused.
StartJoin(r, e) ==
    /\ Joinable(e)
    /\ QueueLive /\ qStatus = "ACTIVE"
    /\ Begin(r, "join", e, "count")
    /\ UNCHANGED <<mongo, redis, listener, sweeper>>

\* AddEntry, by the host or on the public route, behind GuestCapacityGuard; a
\* paused queue is no obstacle to a host with an account.
StartAddEntry(r, e) ==
    /\ Joinable(e)
    /\ QueueLive
    /\ qStatus = "PAUSED" => Plan # "anonymous"
    /\ Begin(r, "addEntry", e, "count")
    /\ UNCHANGED <<mongo, redis, listener, sweeper>>

\* Mutant: the guest about to join is not counted.
ExceededWithoutSelf(n) == MaxGuests > 0 /\ n > MaxGuests

Exceeded(n) == MaxGuests > 0 /\ n + 1 > MaxGuests

\* The join is refused when the plan's limit is exceeded, or, by the clock for
\* a guest and by a second GetQueue for the host, when the queue has ended.
Admit(r) ==
    /\ At(r, "admit")
    /\ IF \/ Exceeded(req[r].n)
          \/ req[r].op = "join" /\ pastExpiry
          \/ req[r].op = "addEntry" /\ ~QueueLive
       THEN Done(r)
       ELSE Goto(r, "hasCounter")
    /\ UNCHANGED <<mongo, redis, listener, sweeper>>

\* ensureTicketCounter: EXISTS.
HasCounter(r) ==
    /\ At(r, "hasCounter")
    /\ Goto(r, IF counterSet THEN "incr" ELSE "maxTicket")
    /\ UNCHANGED <<mongo, redis, listener, sweeper>>

\* ensureTicketCounter: reads the last ticket from MongoDB.
ReadLastTicket(r) ==
    /\ At(r, "maxTicket")
    /\ \E n \in Readable :
         /\ IsLastTicket(n)
         /\ req' = [req EXCEPT ![r].n = n, ![r].pc = "setCounter"]
    /\ UNCHANGED <<mongo, redis, listener, sweeper>>

\* Mutant: the counter is set one too low.
SetTicketCounterOffByOne(r) ==
    /\ At(r, "setCounter")
    /\ counter' = req[r].n - 1 /\ counterSet' = TRUE
    /\ Goto(r, "incr")
    /\ UNCHANGED <<mongo, positions, sentinel, lock, losses, timers, listener, sweeper>>

\* ensureTicketCounter: SET, whether or not the key has appeared meanwhile.
SetTicketCounter(r) ==
    /\ At(r, "setCounter")
    /\ counter' = req[r].n /\ counterSet' = TRUE
    /\ Goto(r, "incr")
    /\ UNCHANGED <<mongo, positions, sentinel, lock, losses, timers, listener, sweeper>>

\* NextTicket: INCR creates the key when it is missing.
NextTicket(r) ==
    /\ At(r, "incr")
    /\ counter' = counter + 1 /\ counterSet' = TRUE
    /\ req' = [req EXCEPT ![r].n = counter + 1, ![r].pc = "insert"]
    /\ UNCHANGED <<mongo, positions, sentinel, lock, losses, timers, listener, sweeper>>

\* Mutant: the error of InsertOne is ignored.
InsertEntryErrorIgnored(r) ==
    /\ At(r, "insert")
    /\ Goto(r, "zadd")
    /\ UNCHANGED <<mongo, redis, listener, sweeper>>

\* InsertOne of the entry, created now.
InsertEntry(r) ==
    /\ At(r, "insert")
    /\ LET e == req[r].e
           now == 1 + Cardinality({f \in Entries : stamp[f] > 0})
       IN  /\ status' = [status EXCEPT ![e] = "WAITING"]
           /\ ticket' = [ticket EXCEPT ![e] = req[r].n]
           /\ stamp' = [stamp EXCEPT ![e] = now]
    /\ Goto(r, "zadd")
    /\ UNCHANGED <<qStatus, pastExpiry, finished, served, redis, listener, sweeper>>

\* AddToQueue, then GetPosition, which reads (and may rebuild) the sorted set.
AddToQueue(r) ==
    /\ At(r, "zadd")
    /\ positions' = positions \cup {req[r].e}
    /\ req' = [req EXCEPT ![r] = [IdleRequest EXCEPT !.op = "status", !.pc = "count"]]
    /\ UNCHANGED <<mongo, counter, counterSet, sentinel, lock, losses, timers,
                   listener, sweeper>>
-----------------------------------------------------------------------------
(* Calling a guest *)

\* Mutant: the result of Acquire is not looked at.
StartCallNextUnlocked(r) ==
    /\ HostOwner
    /\ Begin(r, "callNext", NoEntry, "strict")
    /\ lock' = r
    /\ UNCHANGED <<mongo, positions, counter, counterSet, sentinel, losses, timers,
                   listener, sweeper>>

\* CallEntry without an entry: SET NX of the lock, or 429.
StartCallNext(r) ==
    /\ HostOwner
    /\ lock = NoRequest
    /\ Begin(r, "callNext", NoEntry, "strict")
    /\ lock' = r
    /\ UNCHANGED <<mongo, positions, counter, counterSet, sentinel, losses, timers,
                   listener, sweeper>>

Called == {e \in Entries : status[e] = "CALLED"}

\* Mutant: one called guest is tolerated.
CheckStrictOffByOne(r) ==
    /\ At(r, "strict")
    /\ Goto(r, IF QueueLive /\ Strict /\ Cardinality(Called) > 1 THEN "release" ELSE "zrange")
    /\ UNCHANGED <<mongo, redis, listener, sweeper>>

\* In strict mode nobody is called while somebody is CALLED; the check is
\* skipped when GetQueue does not find the queue.
CheckStrict(r) ==
    /\ At(r, "strict")
    /\ Goto(r, IF QueueLive /\ Strict /\ Called # {} THEN "release" ELSE "zrange")
    /\ UNCHANGED <<mongo, redis, listener, sweeper>>

\* CallNextUser: ZRANGE; an empty set is rebuilt without asking the sentinel.
ReadPositions(r) ==
    /\ At(r, "zrange")
    /\ req' = [req EXCEPT ![r].ids = positions,
                          ![r].pc = IF positions = {} THEN "sentinel" ELSE "pick"]
    /\ UNCHANGED <<mongo, redis, listener, sweeper>>

\* The loop of CallNextUser goes on to the next id, or ends without a guest.
NextCandidate(r, e) ==
    LET rest == req[r].ids \ {e}
    IN  req' = [req EXCEPT ![r].ids = rest,
                           ![r].pc = IF rest = {} THEN "release" ELSE "pick"]

\* One turn of the loop: GetEntry of the next id, taken if it is WAITING.
PickWaiting(r) ==
    /\ At(r, "pick")
    /\ \E e \in Oldest(req[r].ids) :
         IF status[e] = "WAITING"
         THEN req' = [req EXCEPT ![r].e = e, ![r].ids = {}, ![r].pc = "mark"]
         ELSE NextCandidate(r, e)
    /\ UNCHANGED <<mongo, redis, listener, sweeper>>

\* Mutant: the called guest is popped from the sorted set.
MarkCalledAndPop(r) ==
    /\ At(r, "mark")
    /\ SetStatus(req[r].e, "CALLED")
    /\ positions' = positions \ {req[r].e}
    /\ Goto(r, "timer")
    /\ UNCHANGED <<qStatus, pastExpiry, finished, ticket, stamp, served, counter,
                   counterSet, sentinel, lock, losses, timers, listener, sweeper>>

\* UpdateEntryStatus: by _id, whatever the status has become.
MarkCalled(r) ==
    /\ At(r, "mark")
    /\ SetStatus(req[r].e, "CALLED")
    /\ Goto(r, "timer")
    /\ UNCHANGED <<qStatus, pastExpiry, finished, ticket, stamp, served, redis,
                   listener, sweeper>>

\* Mutant: the idle timer is not set.
StartIdleTimerSkipped(r) ==
    /\ At(r, "timer")
    /\ Goto(r, "release")
    /\ UNCHANGED <<mongo, redis, listener, sweeper>>

\* SetIdleTimer: the guest has idleMins to show up.
StartIdleTimer(r) ==
    /\ At(r, "timer")
    /\ idleTimer' = idleTimer \cup {req[r].e}
    /\ Goto(r, "release")
    /\ UNCHANGED <<mongo, positions, counter, counterSet, sentinel, graceTimer,
                   lock, events, losses, listener, sweeper>>

\* Mutant: DEL without comparing the owner.
ReleaseLockUnchecked(r) ==
    /\ At(r, "release")
    /\ lock' = NoRequest
    /\ Done(r)
    /\ UNCHANGED <<mongo, positions, counter, counterSet, sentinel, losses, timers,
                   listener, sweeper>>

\* Deferred Release: deletes the key only if this request still owns it.
ReleaseLock(r) ==
    /\ At(r, "release")
    /\ lock' = IF lock = r THEN NoRequest ELSE lock
    /\ Done(r)
    /\ UNCHANGED <<mongo, positions, counter, counterSet, sentinel, losses, timers,
                   listener, sweeper>>

\* CallEntry of a given entry: no lock, no strict mode, no idle timer.
CallEntry(e) ==
    /\ "callEntry" \in Ops
    /\ HostOwner
    /\ e \in Stored
    /\ SetStatus(e, "CALLED")
    /\ UNCHANGED <<qStatus, pastExpiry, finished, ticket, stamp, served, redis,
                   req, listener, sweeper>>
-----------------------------------------------------------------------------
(* Ending a guest's visit: ServeUser, SkipUser, RemoveUser *)

FinalStatus == [serve |-> "SERVED", skip |-> "SKIPPED", leave |-> "LEFT"]

\* finishUserSession 1: status and finished_at, whatever the status was.  The
\* host may serve or skip; the guest, who has a token by then, may finish or leave.
FinishUserSession(r, e, o) ==
    /\ e \in Stored
    /\ \/ o \in {"serve", "skip"} /\ HostOwner
       \/ o \in {"serve", "leave"} /\ ~Joining(e)
    /\ o = "serve" => served < MaxServed
    /\ Begin(r, o, e, "zrem")
    /\ SetStatus(e, FinalStatus[o])
    /\ finished' = finished \cup {e}
    /\ UNCHANGED <<qStatus, pastExpiry, ticket, stamp, served, redis, listener, sweeper>>

\* Only a served guest counts in the host's metrics.
AfterRemove(r) == IF req[r].op = "serve" THEN Goto(r, "tally") ELSE Done(r)

\* finishUserSession 2: RemoveFromQueue; the timers stay.
RemoveFromQueue(r) ==
    /\ At(r, "zrem")
    /\ positions' = positions \ {req[r].e}
    /\ AfterRemove(r)
    /\ UNCHANGED <<mongo, counter, counterSet, sentinel, lock, losses, timers,
                   listener, sweeper>>

\* finishUserSession 3: IncrementTotalServedCount, if the queue has a host.
TallyServed(r) ==
    /\ At(r, "tally")
    /\ served' = IF qStatus # "GONE" /\ Plan # "anonymous" THEN served + 1 ELSE served
    /\ Done(r)
    /\ UNCHANGED <<qStatus, pastExpiry, status, finished, ticket, stamp, redis,
                   listener, sweeper>>
-----------------------------------------------------------------------------
(* Presence of a guest: MarkArrived, ConfirmStillHere *)

StartArrived(r, e) ==
    /\ e \in Stored /\ ~Joining(e)
    /\ Begin(r, "arrived", e, "clearIdle")
    /\ SetStatus(e, "ARRIVED")
    /\ UNCHANGED <<qStatus, pastExpiry, finished, ticket, stamp, served, redis,
                   listener, sweeper>>

StartConfirm(r, e) ==
    /\ e \in Stored /\ ~Joining(e)
    /\ Begin(r, "confirm", e, "clearGrace")
    /\ SetStatus(e, "WAITING")
    /\ UNCHANGED <<qStatus, pastExpiry, finished, ticket, stamp, served, redis,
                   listener, sweeper>>

ClearIdleTimer(r) ==
    /\ At(r, "clearIdle")
    /\ idleTimer' = idleTimer \ {req[r].e}
    /\ Goto(r, "clearGrace")
    /\ UNCHANGED <<mongo, positions, counter, counterSet, sentinel, graceTimer,
                   lock, events, losses, listener, sweeper>>

ClearGraceTimer(r) ==
    /\ At(r, "clearGrace")
    /\ graceTimer' = graceTimer \ {req[r].e}
    /\ Done(r)
    /\ UNCHANGED <<mongo, positions, counter, counterSet, sentinel, idleTimer,
                   lock, events, losses, listener, sweeper>>
-----------------------------------------------------------------------------
(* The host's controls of the queue *)

\* updateQueueStatus: by _id, so that it also reopens a queue that has ended.
SetQueueStatus(o, s) ==
    /\ o \in Ops
    /\ HostOwner /\ qStatus # "GONE"
    /\ qStatus' = s
    /\ UNCHANGED <<pastExpiry, status, finished, ticket, stamp, served, redis,
                   req, listener, sweeper>>

PauseQueue == SetQueueStatus("pause", "PAUSED")
ResumeQueue == SetQueueStatus("resume", "ACTIVE")

Unserved == {e \in Entries : status[e] \in LiveStatus}

\* TerminateQueue 1: GetQueue, and the unserved entries, while still open.
StartTerminate(r) ==
    /\ HostOwner
    /\ "terminate" \in Ops
    /\ At(r, "idle")
    /\ \E live \in OrFailed(QueueLive, FALSE), ids \in OrFailed(Unserved, {}) :
         req' = [req EXCEPT ![r] = [IdleRequest EXCEPT !.op = "terminate",
                   !.pc = "close", !.ids = ids, !.live = live]]
    /\ UNCHANGED <<mongo, redis, listener, sweeper>>

\* TerminateQueue 2: the queue is CLOSED.
CloseQueue(r) ==
    /\ At(r, "close")
    /\ qStatus' = IF qStatus = "GONE" THEN "GONE" ELSE "CLOSED"
    /\ Goto(r, "skipAll")
    /\ UNCHANGED <<pastExpiry, status, finished, ticket, stamp, served, redis,
                   listener, sweeper>>

\* Mutant: only WAITING guests are skipped.
SkipWaitingOnly ==
    LET waiting == {e \in Entries : status[e] = "WAITING"}
    IN  /\ status' = [e \in Entries |-> IF e \in waiting THEN "SKIPPED" ELSE status[e]]
        /\ finished' = finished \cup waiting

\* UpdateMany of the unserved entries.
SkipUnserved ==
    /\ status' = [e \in Entries |-> IF e \in Unserved THEN "SKIPPED" ELSE status[e]]
    /\ finished' = finished \cup Unserved

\* The keys are deleted if GetQueue had found the queue.
AfterSkip(r) ==
    IF req[r].live THEN req' = [req EXCEPT ![r].pc = "delKeys", ![r].ids = {}] ELSE Done(r)

\* TerminateQueue 3: if any were found, the entries unserved by now are skipped.
SkipEntries(r) ==
    /\ At(r, "skipAll")
    /\ IF req[r].ids # {} THEN SkipUnserved ELSE UNCHANGED <<status, finished>>
    /\ AfterSkip(r)
    /\ UNCHANGED <<qStatus, pastExpiry, ticket, stamp, served, redis, listener, sweeper>>

\* DeleteQueueKeys: the sorted set and the ticket counter, not the timers.
DeleteQueueKeys ==
    /\ positions' = {}
    /\ counter' = 0 /\ counterSet' = FALSE
    /\ UNCHANGED <<sentinel, lock, losses, timers>>

\* TerminateQueue 4.
TerminateDeleteKeys(r) ==
    /\ At(r, "delKeys")
    /\ DeleteQueueKeys
    /\ Done(r)
    /\ UNCHANGED <<mongo, listener, sweeper>>
-----------------------------------------------------------------------------
(* KeyspaceJob: one message after the other *)

\* handleIdleTimerExpiry 1: the entry is IDLE, whatever its status was.
HandleIdleExpiry ==
    /\ listener = NoEntry /\ events # <<>> /\ Head(events)[1] = "idle"
    /\ SetStatus(Head(events)[2], "IDLE")
    /\ events' = Tail(events)
    /\ listener' = Head(events)[2]
    /\ UNCHANGED <<qStatus, pastExpiry, finished, ticket, stamp, served, positions,
                   counter, counterSet, sentinel, idleTimer, graceTimer, lock,
                   losses, req, sweeper>>

\* Mutant: the grace timer is not set.
StartGraceTimerSkipped ==
    /\ listener # NoEntry
    /\ listener' = NoEntry
    /\ UNCHANGED <<mongo, redis, req, sweeper>>

\* handleIdleTimerExpiry 2: SetGraceTimer.
StartGraceTimer ==
    /\ listener # NoEntry
    /\ graceTimer' = graceTimer \cup {listener}
    /\ listener' = NoEntry
    /\ UNCHANGED <<mongo, positions, counter, counterSet, sentinel, idleTimer,
                   lock, events, losses, req, sweeper>>

\* Mutant: the guest loses the place and gets no new one.
HandleGraceExpiryRemoves ==
    /\ listener = NoEntry /\ events # <<>> /\ Head(events)[1] = "grace"
    /\ SetStatus(Head(events)[2], "WAITING")
    /\ events' = Tail(events)
    /\ positions' = positions \ {Head(events)[2]}
    /\ UNCHANGED <<qStatus, pastExpiry, finished, ticket, stamp, served, counter,
                   counterSet, sentinel, idleTimer, graceTimer, lock, losses, req,
                   listener, sweeper>>

\* handleGraceTimerExpiry: the entry is WAITING again, whatever its status was.
HandleGraceExpiry ==
    /\ listener = NoEntry /\ events # <<>> /\ Head(events)[1] = "grace"
    /\ SetStatus(Head(events)[2], "WAITING")
    /\ events' = Tail(events)
    /\ UNCHANGED <<qStatus, pastExpiry, finished, ticket, stamp, served, positions,
                   counter, counterSet, sentinel, idleTimer, graceTimer, lock,
                   losses, req, listener, sweeper>>
-----------------------------------------------------------------------------
(* ExpiryJob: SweepExpiredQueues and expireQueue *)

\* Mutant: a queue that nobody waits in is not expired.
SweepFindWithGuests ==
    /\ sweeper.pc = "idle"
    /\ qStatus = "ACTIVE" /\ pastExpiry /\ Unserved # {}
    /\ sweeper' = [sweeper EXCEPT !.pc = "read"]
    /\ UNCHANGED <<mongo, redis, req, listener>>

\* Only ACTIVE queues past expires_at are found.
SweepFind ==
    /\ sweeper.pc = "idle"
    /\ qStatus = "ACTIVE" /\ pastExpiry
    /\ sweeper' = [sweeper EXCEPT !.pc = "read"]
    /\ UNCHANGED <<mongo, redis, req, listener>>

\* FindOne of the queue; its error is ignored, and a document that was not read,
\* or that MongoDB has removed by now, has no host.
ExpireRead ==
    /\ sweeper.pc = "read"
    /\ \E h \in OrFailed(Plan = "anonymous" \/ qStatus = "GONE", TRUE) :
         sweeper' = [pc |-> "mark", hostless |-> h]
    /\ UNCHANGED <<mongo, redis, req, listener>>

ExpireMark ==
    /\ sweeper.pc = "mark"
    /\ qStatus' = IF qStatus = "GONE" THEN "GONE" ELSE "EXPIRED"
    /\ sweeper' = [sweeper EXCEPT !.pc = "delKeys"]
    /\ UNCHANGED <<pastExpiry, status, finished, ticket, stamp, served, redis,
                   req, listener>>

ExpireDeleteKeys ==
    /\ sweeper.pc = "delKeys"
    /\ DeleteQueueKeys
    /\ sweeper' = [sweeper EXCEPT !.pc = "entries"]
    /\ UNCHANGED <<mongo, req, listener>>

\* DeleteMany of the entries of the queue.
DeleteEntries ==
    /\ status' = [e \in Entries |-> IF e \in Stored THEN "GONE" ELSE status[e]]
    /\ UNCHANGED finished

AfterEntries ==
    sweeper' = IF sweeper.hostless THEN [sweeper EXCEPT !.pc = "drop"] ELSE IdleSweeper

\* Entries of a paid plan are kept and skipped, those of a free plan, or of a
\* plan that could not be read, deleted.
ExpireEntries ==
    /\ sweeper.pc = "entries"
    /\ \E plan \in OrFailed(Plan, "free") :
         IF plan = "paid" THEN SkipUnserved ELSE DeleteEntries
    /\ AfterEntries
    /\ UNCHANGED <<qStatus, pastExpiry, ticket, stamp, served, redis, req, listener>>

\* A queue without a host is deleted with what has joined meanwhile.
ExpireDrop ==
    /\ sweeper.pc = "drop"
    /\ DeleteEntries
    /\ qStatus' = "GONE"
    /\ sweeper' = IdleSweeper
    /\ UNCHANGED <<pastExpiry, ticket, stamp, served, redis, req, listener>>
-----------------------------------------------------------------------------
(* Time and Redis *)

QueueTimePasses ==
    /\ "expire" \in Ops
    /\ ~pastExpiry
    /\ pastExpiry' = TRUE
    /\ UNCHANGED <<qStatus, status, finished, ticket, stamp, served, redis, req,
                   listener, sweeper>>

\* The TTL index on expires_at: MongoDB removes the document of the queue,
\* whatever its status, and leaves the entries.  Its monitor runs when it likes.
QueueTtl ==
    /\ pastExpiry /\ qStatus # "GONE"
    /\ qStatus' = "GONE"
    /\ UNCHANGED <<pastExpiry, status, finished, ticket, stamp, served, redis, req,
                   listener, sweeper>>

IdleTimerFires(e) ==
    /\ e \in idleTimer /\ Len(events) < MaxEvents
    /\ idleTimer' = idleTimer \ {e}
    /\ events' = Append(events, <<"idle", e>>)
    /\ UNCHANGED <<mongo, positions, counter, counterSet, sentinel, graceTimer,
                   lock, losses, req, listener, sweeper>>

GraceTimerFires(e) ==
    /\ e \in graceTimer /\ Len(events) < MaxEvents
    /\ graceTimer' = graceTimer \ {e}
    /\ events' = Append(events, <<"grace", e>>)
    /\ UNCHANGED <<mongo, positions, counter, counterSet, sentinel, idleTimer,
                   lock, losses, req, listener, sweeper>>

\* The sorted set and the counter live until expires_at of the queue.
PositionsExpire ==
    /\ pastExpiry /\ positions # {}
    /\ positions' = {}
    /\ UNCHANGED <<mongo, counter, counterSet, sentinel, lock, losses, timers,
                   req, listener, sweeper>>

CounterExpires ==
    /\ pastExpiry /\ counterSet
    /\ counter' = 0 /\ counterSet' = FALSE
    /\ UNCHANGED <<mongo, positions, sentinel, lock, losses, timers, req,
                   listener, sweeper>>

SentinelExpires ==
    /\ sentinel
    /\ sentinel' = FALSE
    /\ UNCHANGED <<mongo, positions, counter, counterSet, lock, losses, timers,
                   req, listener, sweeper>>

LockExpires ==
    /\ LockMayExpire /\ lock # NoRequest
    /\ lock' = NoRequest
    /\ UNCHANGED <<mongo, positions, counter, counterSet, sentinel, losses, timers,
                   req, listener, sweeper>>

\* A restart of Redis without its data; wiped keys send no expired event.
RedisLoss ==
    /\ losses < MaxLosses
    /\ losses' = losses + 1
    /\ positions' = {} /\ counter' = 0 /\ counterSet' = FALSE
    /\ sentinel' = FALSE /\ idleTimer' = {} /\ graceTimer' = {}
    /\ lock' = NoRequest /\ events' = <<>>
    /\ UNCHANGED <<mongo, req, listener, sweeper>>
-----------------------------------------------------------------------------
(* Commands that fail, for instance by their timeout, without an effect *)

\* What each handler does with the error: give up, or ignore it and go on.
CommandFails(r) ==
    /\ CommandsMayFail
    /\ \/ /\ req[r].pc \in {"hasCounter", "setCounter", "incr", "insert", "zadd",
                           "release", "tally", "clearGrace", "close", "delKeys"}
          /\ Done(r)
       \/ At(r, "count") /\ AfterCount(r, 0)
       \/ At(r, "count") /\ positions = {} /\ Goto(r, "sentinel")
       \/ At(r, "sentinel") /\ Goto(r, "find")
       \/ At(r, "find") /\ AfterRehydrate(r, {})
       \/ At(r, "zaddAll") /\ AfterRehydrate(r, req[r].ids)
       \/ At(r, "maxTicket") /\ req' = [req EXCEPT ![r].n = 0, ![r].pc = "setCounter"]
       \/ At(r, "strict") /\ Goto(r, "zrange")
       \/ req[r].pc \in {"zrange", "mark", "timer"} /\ Goto(r, "release")
       \/ At(r, "pick") /\ \E e \in Oldest(req[r].ids) : NextCandidate(r, e)
       \/ At(r, "zrem") /\ AfterRemove(r)
       \/ At(r, "clearIdle") /\ Goto(r, "clearGrace")
       \/ At(r, "skipAll") /\ AfterSkip(r)
    /\ UNCHANGED <<mongo, redis, listener, sweeper>>

\* The listener logs the error and takes the next message.
ListenerFails ==
    /\ CommandsMayFail
    /\ listener' = NoEntry
    /\ \/ listener # NoEntry /\ UNCHANGED events
       \/ listener = NoEntry /\ events # <<>> /\ events' = Tail(events)
    /\ UNCHANGED <<mongo, positions, counter, counterSet, sentinel, idleTimer,
                   graceTimer, lock, losses, req, sweeper>>

\* expireQueue ignores every error.
SweeperFails ==
    /\ CommandsMayFail
    /\ \/ sweeper.pc = "mark" /\ sweeper' = [sweeper EXCEPT !.pc = "delKeys"]
       \/ sweeper.pc = "delKeys" /\ sweeper' = [sweeper EXCEPT !.pc = "entries"]
       \/ sweeper.pc = "entries" /\ AfterEntries
       \/ sweeper.pc = "drop" /\ sweeper' = IdleSweeper
    /\ UNCHANGED <<mongo, redis, req, listener>>
-----------------------------------------------------------------------------
Start(r) ==
    \/ StartStatus(r)
    \/ StartCallNext(r)
    \/ StartTerminate(r)
    \/ \E e \in Entries :
         \/ StartJoin(r, e)
         \/ StartAddEntry(r, e)
         \/ StartArrived(r, e)
         \/ StartConfirm(r, e)
         \/ \E o \in {"serve", "skip", "leave"} : FinishUserSession(r, e, o)

Continue(r) ==
    \/ Count(r) \/ RehydrateSentinel(r) \/ RehydrateFind(r) \/ RehydrateAdd(r)
    \/ Admit(r) \/ HasCounter(r) \/ ReadLastTicket(r) \/ SetTicketCounter(r)
    \/ NextTicket(r) \/ InsertEntry(r) \/ AddToQueue(r)
    \/ CheckStrict(r) \/ ReadPositions(r) \/ PickWaiting(r) \/ MarkCalled(r)
    \/ StartIdleTimer(r) \/ ReleaseLock(r)
    \/ RemoveFromQueue(r) \/ TallyServed(r)
    \/ ClearIdleTimer(r) \/ ClearGraceTimer(r)
    \/ CloseQueue(r) \/ SkipEntries(r) \/ TerminateDeleteKeys(r)

Listener == HandleIdleExpiry \/ StartGraceTimer \/ HandleGraceExpiry

Sweeper ==
    \/ SweepFind \/ ExpireRead \/ ExpireMark \/ ExpireDeleteKeys
    \/ ExpireEntries \/ ExpireDrop

TimerFires == \E e \in Entries : IdleTimerFires(e) \/ GraceTimerFires(e)

Environment ==
    \/ QueueTimePasses \/ QueueTtl \/ TimerFires \/ PositionsExpire
    \/ CounterExpires \/ SentinelExpires \/ LockExpires \/ RedisLoss

Next ==
    \/ \E r \in Requests : Start(r) \/ Continue(r) \/ CommandFails(r)
    \/ \E e \in Entries : CallEntry(e)
    \/ PauseQueue \/ ResumeQueue
    \/ Listener \/ Sweeper \/ ListenerFails \/ SweeperFails \/ Environment

Spec == Init /\ [][Next]_vars

(* Handlers, the two jobs and Redis timers make progress; clients need not. *)
Fairness ==
    /\ \A r \in Requests : WF_vars(Continue(r))
    /\ WF_vars(Listener)
    /\ WF_vars(Sweeper)
    /\ \A e \in Entries : WF_vars(IdleTimerFires(e)) /\ WF_vars(GraceTimerFires(e))

FairSpec == Spec /\ Fairness
-----------------------------------------------------------------------------
(* Properties *)

\* A guest who is WAITING and was never served, skipped or gone has a place in
\* the sorted set call-next reads, or is about to get one: no interleaving of
\* calls, timers, presence checks and departures makes a guest drop out of line.
NoGuestForgotten ==
    QueueLive =>
        \A e \in Entries \ finished :
            status[e] = "WAITING" => e \in positions \/ Joining(e)

\* The commands of call-next that run under the lock.
InCallNext(r) == req[r].op = "callNext"

\* The lock admits one call-next at a time, from SET NX to its release.
CallNextExclusive ==
    \A r, s \in Requests : InCallNext(r) /\ InCallNext(s) => r = s

\* In strict mode an open queue has at most one guest CALLED, although the
\* check and the update of call-next are separate commands.
StrictOneCalled ==
    Strict /\ QueueLive => \A e, f \in Called : e = f

\* No two stored entries of the queue have the same ticket, even when the
\* counter in Redis is deleted and read back from MongoDB.
TicketsUnique ==
    \A e, f \in Stored : ticket[e] = ticket[f] => e = f

\* Guests in line or past the capacity check.
Admitted ==
    (positions \ finished) \cup
    {req[r].e : r \in {s \in Requests : req[s].pc \in
        {"hasCounter", "maxTicket", "setCounter", "incr", "insert", "zadd"}}}

\* The check of the limit and the insert are separate commands, yet the queue
\* exceeds the limit by no more than the other requests then in flight.
CapacityOvershootBounded ==
    MaxGuests > 0 => Cardinality(Admitted) <= MaxGuests + Cardinality(Requests) - 1

Quiet == sweeper.pc = "idle" /\ \A r \in Requests : At(r, "idle")

\* "3. Mark unserved entries as SKIPPED" (TerminateQueue): a queue that has
\* ended, with every handler returned, has no guest left unfinished.
EndedQueueLeavesNobody ==
    qStatus \in {"CLOSED", "EXPIRED"} /\ Quiet => Unserved \subseteq finished

JoinOps == {"join", "addEntry"}

\* Nobody is joining while the queue is terminated, or expired by the sweeper.
ClosesAlone ==
    (\E r \in Requests : req[r].op = "terminate") \/ sweeper.pc # "idle" =>
        \A r \in Requests : req[r].op \notin JoinOps

\* If no join is ever in flight together with the end of the queue, an ended
\* queue leaves nobody unfinished, whatever guests, timers and other requests of
\* the host do meanwhile, and also when the queue is reopened and ends again.
EndedQueueDrained == []ClosesAlone => []EndedQueueLeavesNobody

\* finished_at marks a guest whose visit has ended.
FinishedIsFinal ==
    \A e \in finished : status[e] \in TerminalStatus \cup {"GONE"}

\* Nobody has a position without an entry, whatever Redis loses: call-next and
\* the position broadcast never meet an id that MongoDB has not seen.
NoUnknownInLine ==
    \A e \in Entries : e \in positions => status[e] # "ABSENT"

\* A request never takes the lock from another one, even when it returns after
\* its own lock has expired and somebody else holds the key.
LockTakenOnlyByOwner ==
    [][\A r \in Requests : Continue(r) /\ lock # r => lock' = lock]_vars

\* A guest whom call-next has marked CALLED does not stay CALLED for ever, also
\* when the host calls the guest once more by id.  A guest called only by id
\* (CallEntry) has no idle timer and may stay CALLED.
CalledGuestMovesOn ==
    \A e \in Entries :
        (status[e] = "CALLED" /\ \E r \in Requests : At(r, "timer") /\ req[r].e = e)
            ~> status[e] # "CALLED"

\* A guest who is IDLE does not stay IDLE for ever.
IdleGuestMovesOn ==
    \A e \in Entries : (status[e] = "IDLE") ~> (status[e] # "IDLE")

\* An ACTIVE queue past its expiry is ended by the sweeper or the host, even if
\* MongoDB's monitor of TTL indexes never runs; a PAUSED one waits for that.
ExpiredQueueCloses ==
    (pastExpiry /\ qStatus = "ACTIVE") ~> qStatus # "ACTIVE"

\* "Anonymous queues are hard-deleted after expiry so the record and guest PII
\* are removed." (expireQueue): a guest stored when an anonymous queue expires
\* is in the end deleted.
AnonymousErased ==
    Plan = "anonymous" =>
        \A e \in Entries :
            (pastExpiry /\ qStatus = "ACTIVE" /\ e \in Stored) ~> e \notin Stored
=============================================================================
