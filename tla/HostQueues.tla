----------------------------- MODULE HostQueues -----------------------------
(***************************************************************************)
(* The queues of one registered host, over all of its requests: creating a *)
(* queue under the creation lock, with its join code and the monthly quota;*)
(* ending it; the history with its caches; and deleting queues from the    *)
(* history.  A request is a sequence of database commands (Steps), and the *)
(* requests in `req' interleave.  What happens inside a live queue is      *)
(* QueueSession; here a queue is live, ended or gone, and has entries or   *)
(* has none.                                                               *)
(***************************************************************************)
EXTENDS Integers, Sequences, FiniteSets, FiniteSetsExt

CONSTANTS
    Queues,         \* the ids of queues, each is created at most once
    Codes,          \* the join codes
    Slots,          \* slots for requests that are served concurrently
    NoQueue,        \* not a queue: a code that is free
    LostQueue,      \* the id of a queue that was never inserted
    NoCode,         \* not a code
    NoSlot,         \* not a slot: the lock is free
    NoCache,        \* the content of a cache that is empty
    Limit,          \* MaxQueuesPerMonth of the host's plan
    MaxCollisions,  \* maxRetries of Create
    Scenarios,      \* bound: each behaviour has the requests and events of one of these
    MaxTurns        \* bound: how many of them it has

Requests == {"create", "end", "sweep", "delete", "deleteBulk", "clear", "list",
             "detail", "dashboard", "join"}
Events == {"lapse", "fail", "crash", "overdue", "reopen", "ttl", "reset"}

ASSUME HostQueuesAssumption ==
    /\ IsFiniteSet(Queues) /\ Queues # {} /\ Codes # {}
    /\ NoQueue # LostQueue /\ {NoQueue, LostQueue} \cap Queues = {} /\ NoCode \notin Codes /\ NoSlot \notin Slots
    /\ "list" \notin Queues
    /\ Limit \in Nat \ {0} /\ MaxCollisions \in Nat \ {0} /\ MaxTurns \in Nat
    /\ Scenarios \subseteq SUBSET (Requests \cup Events)

VARIABLES
    \* MongoDB
    doc,       \* the queue documents
    entries,   \* the queues whose id some stored entry has
    count,     \* host.monthly_queue_count
    resetDue,  \* more than 31 days since monthly_limit_reset_at
    \* Redis and, for the dashboard, this process
    key,       \* joincode:{code}
    lock,      \* lock:create-queue:host:{host}: its owner
    cache,     \* the cached list, summary and dashboard
    detail,    \* the cached history detail of each queue: the status it shows
    \* the server
    req,       \* the request in each slot
    \* history
    scenario, turns,
    lapsed,    \* slots whose lock has expired since they acquired it
    stray,     \* queues whose entries may outlive them
    drift,     \* a command that counts failed or was overtaken
    stale      \* a view was cached after what it shows had changed

mongo == <<doc, entries, count, resetDue>>
redis == <<key, lock, cache, detail>>
history == <<scenario, turns, lapsed, stray, drift, stale>>
vars == <<mongo, redis, req, history>>

Status == {"none", "live", "ended", "gone"}

\* fresh: created since the last reset; freed: deleted so that its place in the
\* month is free again; unchecked: the check for a live queue did not protect
\* its creation, or it was brought back.
Doc == [st : Status, overdue : BOOLEAN, code : Codes \cup {NoCode},
        fresh : BOOLEAN, freed : BOOLEAN, unchecked : BOOLEAN]
NoDoc == [st |-> "none", overdue |-> FALSE, code |-> NoCode,
          fresh |-> FALSE, freed |-> FALSE, unchecked |-> FALSE]

Stored(q) == doc[q].st \in {"live", "ended"}
Gone(q) == doc[q].st = "gone"
InState(st) == {q \in Queues : doc[q].st = st}

\* What each cached view shows when it is read now.
Views == {"list", "summary", "dashboard"}
Current == [list |-> <<InState("ended"), InState("ended")>>,
            summary |-> InState("ended"),
            dashboard |-> <<InState("live"), InState("ended")>>]

\* The commands of each request, in order.
CreateSteps == <<"lock", "active", "quota", "code", "insert", "count", "drop",
                 "keys", "unkey", "summary", "unlock">>

\* Mutant: the queues are deleted before their entries.
DeleteStepsQueuesFirst ==
    <<"find", "docs", "entries", "release", "host", "decrement", "drop",
      "keys", "unkey", "undetail">>

DeleteSteps == <<"find", "entries", "docs", "release", "host", "decrement", "drop",
                 "keys", "unkey", "undetail">>
ClearSteps == <<"find", "entries", "docs", "orphans", "purge", "drop", "keys",
                "unkey", "keys", "unkey", "summary">>

Steps ==
  [create |-> CreateSteps,
   end |-> <<"end", "drop", "release", "keys", "unkey", "summary">>,
   sweep |-> <<"end", "release", "clean", "keys", "unkey", "summary">>,
   delete |-> DeleteSteps,
   deleteBulk |-> DeleteSteps,
   clear |-> ClearSteps,
   list |-> <<"rows", "total", "fillSummary", "fillList">>,
   detail |-> <<"read", "fillDetail">>,
   dashboard |-> <<"rows", "fillDashboard">>,
   join |-> <<"resolve", "enter">>,
   none |-> <<"idle">>]

\* pc: the next step; qs: the queues that the request has found, or was given;
\* live: those found live; sum: the summary read; found: the keys found, or the
\* orphans; less: how much to take from the count; tries: slug collisions.
Request ==
    [op : Requests \cup {"none"}, pc : 1..11, qs : SUBSET Queues, live : SUBSET Queues,
     sum : SUBSET Queues, found : SUBSET (Queues \cup {"list"}), less : Nat,
     code : Codes \cup {NoCode}, tries : 0..(MaxCollisions - 1), blind : BOOLEAN]
Idle == [op |-> "none", pc |-> 1, qs |-> {}, live |-> {}, sum |-> {}, found |-> {},
         less |-> 0, code |-> NoCode, tries |-> 0, blind |-> FALSE]

TypeOK ==
    /\ doc \in [Queues -> Doc]
    /\ entries \subseteq Queues
    /\ count \in Int /\ resetDue \in BOOLEAN
    /\ key \in [Codes -> Queues \cup {NoQueue, LostQueue}]
    /\ lock \in Slots \cup {NoSlot}
    /\ cache["list"] \in {NoCache} \cup (SUBSET Queues) \X (SUBSET Queues)
    /\ cache["summary"] \in {NoCache} \cup SUBSET Queues
    /\ cache["dashboard"] \in {NoCache} \cup (SUBSET Queues) \X (SUBSET Queues)
    /\ detail \in [Queues -> {NoCache, "live", "ended"}]
    /\ req \in [Slots -> Request]
    /\ \A s \in Slots : req[s].pc \in DOMAIN Steps[req[s].op]
    /\ scenario \in Scenarios /\ turns \in 0..MaxTurns
    /\ lapsed \subseteq Slots /\ stray \subseteq Queues
    /\ drift \in BOOLEAN /\ stale \in BOOLEAN

\* Ids are alike: which one is the first does not matter.
First(S) == CHOOSE x \in S : TRUE

\* A new host, or one with a queue that is live, or was ended by the host or by
\* the sweep, in this month or before it.
Init ==
    /\ \E q \in {First(Queues)}, c \in {First(Codes)},
          st \in {"none", "live", "ended"}, new \in BOOLEAN :
         /\ doc = [p \in Queues |->
                IF p = q /\ st # "none"
                THEN [NoDoc EXCEPT !.st = st, !.code = c, !.fresh = new]
                ELSE NoDoc]
         /\ entries = IF st = "none" THEN {} ELSE {q}
         /\ count = IF st # "none" /\ new THEN 1 ELSE 0
         /\ key = [d \in Codes |-> IF st = "live" /\ d = c THEN q ELSE NoQueue]
    /\ resetDue = FALSE
    /\ lock = NoSlot
    /\ cache = [v \in Views |-> NoCache] /\ detail = [q \in Queues |-> NoCache]
    /\ req = [s \in Slots |-> Idle]
    /\ scenario \in Scenarios /\ turns = 0
    /\ lapsed = {} /\ stray = {} /\ drift = FALSE /\ stale = FALSE
-----------------------------------------------------------------------------
(* Helpers *)

Step(s) == Steps[req[s].op][req[s].pc]
At(s, l) == Step(s) = l

\* Where step l of a request is first.
Index(op, l) == Min({i \in DOMAIN Steps[op] : Steps[op][i] = l})

\* The request r after its step, and its end.
Onward(r) == IF r.pc = Len(Steps[r.op]) THEN Idle ELSE [r EXCEPT !.pc = @ + 1]
ContinueAs(s, r) == req' = [req EXCEPT ![s] = Onward(r)]
Continue(s) == ContinueAs(s, req[s])
Jump(s, l) == req' = [req EXCEPT ![s].pc = Index(req[s].op, l)]
Finish(s) == req' = [req EXCEPT ![s] = Idle]

Ask(x) == x \in scenario
Turn == turns < MaxTurns /\ turns' = turns + 1

\* Requests that invalidate the caches when they have changed the queues.
Writers == {s \in Slots : req[s].op \in {"end", "sweep", "delete", "deleteBulk", "clear"}}

\* A reset of the count overtakes what is about to be added or taken.
Counting == \E s \in Slots : Step(s) \in {"count", "decrement"}

Unused == InState("none") \ UNION {req[s].qs : s \in {t \in Slots : req[t].op = "create"}}
-----------------------------------------------------------------------------
(* Requests begin *)

\* Slots are alike: a request takes the first one that is free.
Begin(s, op, r) ==
    /\ Ask(op) /\ req[s].op = "none"
    /\ s = CHOOSE t \in Slots : req[t].op = "none"
    /\ Turn
    /\ req' = [req EXCEPT ![s] = [r EXCEPT !.op = op]]
    /\ UNCHANGED <<mongo, redis, scenario, lapsed, stray, drift, stale>>

\* The id of the queue is a new uuid.
StartCreate(s) ==
    /\ Unused # {}
    /\ Begin(s, "create", [Idle EXCEPT !.qs = {CHOOSE q \in Unused : TRUE}])

\* HostOwner lets the host at a stored queue until it has expired, whatever its
\* status; TerminateQueue releases the code of a queue that it found live.
StartEnd(s, q) ==
    /\ Stored(q) /\ ~doc[q].overdue
    /\ Begin(s, "end", [Idle EXCEPT !.qs = {q}, !.live = {q} \cap InState("live")])

StartSweep(s, q) ==
    /\ doc[q].st = "live" /\ doc[q].overdue
    /\ Begin(s, "sweep", [Idle EXCEPT !.qs = {q}, !.live = {q}])

\* The history that the host sees may be old, and show queues that are gone.
StartDelete(s) ==
    \E qs \in SUBSET (Queues \ InState("none")) :
        \/ Cardinality(qs) = 1 /\ Begin(s, "delete", [Idle EXCEPT !.qs = qs])
        \/ qs # {} /\ Begin(s, "deleteBulk", [Idle EXCEPT !.qs = qs])

StartClear(s) == Begin(s, "clear", Idle)

\* A read that misses its cache; a hit changes nothing.
StartRead(s) ==
    \/ cache["list"] = NoCache /\ Begin(s, "list", Idle)
    \/ cache["dashboard"] = NoCache /\ Begin(s, "dashboard", Idle)
    \/ \E q \in Queues : /\ Stored(q) /\ ~doc[q].overdue /\ detail[q] = NoCache
                         /\ Begin(s, "detail", [Idle EXCEPT !.qs = {q}])

StartJoin(s, q) ==
    /\ doc[q].st # "none"
    /\ Begin(s, "join", [Idle EXCEPT !.qs = {q}])
-----------------------------------------------------------------------------
(* Creating a queue *)

\* Lock.Acquire: SET NX with a TTL of ten seconds.
AcquireLock(s) ==
    /\ At(s, "lock")
    /\ IF lock = NoSlot
       THEN lock' = s /\ Continue(s)
       ELSE Finish(s) /\ UNCHANGED lock
    /\ UNCHANGED <<mongo, key, cache, detail, history>>

\* checkActiveQueue
CheckActive(s) ==
    /\ At(s, "active")
    /\ IF \E q \in InState("live") : ~doc[q].overdue
       THEN Jump(s, "unlock")
       ELSE Continue(s)
    /\ UNCHANGED <<mongo, redis, history>>

\* Mutant: the plan's limit is taken for the last queue that is still allowed.
CheckQuotaOffByOne(s) ==
    /\ At(s, "quota")
    /\ IF count > Limit THEN Jump(s, "unlock") ELSE Continue(s)
    /\ UNCHANGED <<mongo, redis, history>>

\* ResetMonthlyLimits
ResetCount ==
    /\ count' = 0 /\ resetDue' = FALSE
    /\ doc' = [q \in Queues |-> [doc[q] EXCEPT !.fresh = FALSE]]
    /\ drift' = (drift \/ Counting)

\* checkMonthlyQuota with IsLimitExceeded, which resets a count that is due.
CheckQuota(s) ==
    /\ At(s, "quota")
    /\ IF resetDue
       THEN ResetCount /\ Continue(s)
       ELSE /\ IF count >= Limit THEN Jump(s, "unlock") ELSE Continue(s)
            /\ UNCHANGED <<doc, count, resetDue, drift>>
    /\ UNCHANGED <<entries, redis, scenario, turns, lapsed, stray, stale>>

\* GenerateJoinCode: SET NX of a random code; too many collisions are an error.
GenerateCode(s) ==
    /\ At(s, "code")
    /\ \/ \E c \in Codes, q \in req[s].qs :
            /\ key[c] = NoQueue
            /\ key' = [key EXCEPT ![c] = q]
            /\ ContinueAs(s, [req[s] EXCEPT !.code = c])
       \/ /\ \A c \in Codes : key[c] # NoQueue
          /\ Jump(s, "unlock")
          /\ UNCHANGED key
    /\ UNCHANGED <<mongo, lock, cache, detail, history>>

\* The unique indexes: of the codes, which ended queues keep, and of the slugs.
InsertQueue(s) ==
    /\ At(s, "insert")
    /\ \A q \in Queues : Stored(q) => doc[q].code # req[s].code
    /\ \E q \in req[s].qs :
         doc' = [doc EXCEPT ![q] = [NoDoc EXCEPT !.st = "live", !.code = req[s].code,
                   !.fresh = TRUE, !.unchecked = s \in lapsed \/ req[s].blind]]
    /\ Continue(s)
    /\ UNCHANGED <<entries, count, resetDue, redis, history>>

\* Mutant: Create tries again until there is no collision.
InsertCollidesEndlessly(s) ==
    /\ At(s, "insert")
    /\ key' = [key EXCEPT ![req[s].code] = LostQueue]
    /\ req' = [req EXCEPT ![s].pc = Index("create", "code"), ![s].tries = @ + 1]
    /\ UNCHANGED <<mongo, lock, cache, detail, history>>

\* A duplicate code or slug.  Create takes both for the slug: one that the host
\* has chosen is refused, a generated one is tried again with a new slug, queue
\* and code.  After the last try there is no queue to answer with, and the
\* handler panics; its deferred calls run.  The code stays taken.
InsertCollides(s) ==
    /\ At(s, "insert")
    /\ key' = [key EXCEPT ![req[s].code] = LostQueue]
    /\ \/ Jump(s, "unlock")
       \/ /\ req[s].tries + 1 < MaxCollisions
          /\ req' = [req EXCEPT ![s].pc = Index("create", "code"), ![s].tries = @ + 1]
    /\ UNCHANGED <<mongo, lock, cache, detail, history>>

\* IncrementMonthlyQueueCount
IncrementCount(s) ==
    /\ At(s, "count")
    /\ count' = count + 1
    /\ Continue(s)
    /\ UNCHANGED <<doc, entries, resetDue, redis, history>>

\* Mutant: DEL of the lock, whoever owns it.
ReleaseAnyLock(s) ==
    /\ At(s, "unlock")
    /\ lock' = NoSlot
    /\ lapsed' = lapsed \ {s}
    /\ Finish(s)
    /\ UNCHANGED <<mongo, key, cache, detail, scenario, turns, stray, drift, stale>>

\* Lock.Release, by the guard's deferred call: only the owner's lock is deleted.
ReleaseLock(s) ==
    /\ At(s, "unlock")
    /\ lock' = IF lock = s THEN NoSlot ELSE lock
    /\ lapsed' = lapsed \ {s}
    /\ Finish(s)
    /\ UNCHANGED <<mongo, key, cache, detail, scenario, turns, stray, drift, stale>>
-----------------------------------------------------------------------------
(* Ending and deleting queues *)

\* The update of TerminateQueue and of expireQueue asks for no status: a queue
\* that was extended meanwhile is ended too, one that is gone is not there.
EndQueue(s) ==
    /\ At(s, "end")
    /\ doc' = [q \in Queues |-> IF q \in req[s].qs /\ Stored(q)
                                THEN [doc[q] EXCEPT !.st = "ended"] ELSE doc[q]]
    /\ Continue(s)
    /\ UNCHANGED <<entries, count, resetDue, redis, history>>

\* ReleaseJoinCode of the queues that were found live.
ReleaseCodes(s) ==
    /\ At(s, "release")
    /\ LET free == {doc[q].code : q \in req[s].live}
       IN  key' = [c \in Codes |-> IF c \in free THEN NoQueue ELSE key[c]]
    /\ Continue(s)
    /\ UNCHANGED <<mongo, lock, cache, detail, history>>

\* expireQueue deletes the entries when the host's plan is free.
CleanExpired(s) ==
    /\ At(s, "clean")
    /\ entries' \in {entries, entries \ req[s].qs}
    /\ Continue(s)
    /\ UNCHANGED <<doc, count, resetDue, redis, history>>

\* The queues to delete: DeleteQueue fails without one, DeleteQueuesBulk goes on
\* to the handler's invalidations.
FindQueues(s) ==
    /\ At(s, "find")
    /\ LET asked == IF req[s].op = "clear" THEN Queues ELSE req[s].qs
           qs == {q \in asked : Stored(q)}
       IN  IF qs = {} /\ req[s].op # "clear"
           THEN IF req[s].op = "delete" THEN Finish(s) ELSE Jump(s, "keys")
           ELSE ContinueAs(s, [req[s] EXCEPT !.qs = qs, !.live = qs \cap InState("live")])
    /\ UNCHANGED <<mongo, redis, history>>

DeleteEntries(s) ==
    /\ At(s, "entries")
    /\ entries' = entries \ req[s].qs
    /\ Continue(s)
    /\ UNCHANGED <<doc, count, resetDue, redis, history>>

\* DeleteOne and DeleteMany by id; ClearHostHistory deletes whatever queue the
\* host has by then, and counts it as used.
DeleteQueues(s) ==
    /\ At(s, "docs")
    /\ LET all == req[s].op = "clear"
           qs == {q \in Queues : Stored(q) /\ (all \/ q \in req[s].qs)}
       IN  /\ doc' = [q \in Queues |-> IF q \in qs
                        THEN [doc[q] EXCEPT !.st = "gone", !.freed = ~all] ELSE doc[q]]
           /\ stray' = stray \cup (qs \ req[s].qs)
           /\ drift' = (drift \/ (~all /\ qs # req[s].qs))
    /\ Continue(s)
    /\ UNCHANGED <<entries, count, resetDue, redis, scenario, turns, lapsed, stale>>

\* Mutant: a queue of an earlier month is taken from the count too.
ReadHostAnyMonth(s) ==
    /\ At(s, "host")
    /\ ContinueAs(s, [req[s] EXCEPT !.less = Min({Cardinality(req[s].qs), Max({count, 0})})])
    /\ UNCHANGED <<mongo, redis, history>>

\* DecrementMonthlyQueueCount and its bulk form 1: how many of the queues are in
\* the count that is read.  One that is not counted yet will be.
ReadHost(s) ==
    /\ At(s, "host")
    /\ LET new == Cardinality({q \in req[s].qs : doc[q].fresh})
       IN  ContinueAs(s, [req[s] EXCEPT !.less = Min({new, Max({count, 0})})])
    /\ drift' = (drift \/ \E o \in Slots : At(o, "count") /\ req[o].qs \cap req[s].qs # {})
    /\ UNCHANGED <<mongo, redis, scenario, turns, lapsed, stray, stale>>

\* 2: $inc
DecrementCount(s) ==
    /\ At(s, "decrement")
    /\ count' = count - req[s].less
    /\ Continue(s)
    /\ UNCHANGED <<doc, entries, resetDue, redis, history>>

\* CleanOrphanedEntries
FindOrphans(s) ==
    /\ At(s, "orphans")
    /\ ContinueAs(s, [req[s] EXCEPT !.found = {q \in entries : ~Stored(q)}])
    /\ UNCHANGED <<mongo, redis, history>>

PurgeOrphans(s) ==
    /\ At(s, "purge")
    /\ entries' = entries \ req[s].found
    /\ Continue(s)
    /\ UNCHANGED <<doc, count, resetDue, redis, history>>
-----------------------------------------------------------------------------
(* The caches *)

\* InvalidateHistorySummary and InvalidateDashboardCache
DropViews(s) ==
    /\ At(s, "drop")
    /\ cache' = [cache EXCEPT !["summary"] = NoCache, !["dashboard"] = NoCache]
    /\ Continue(s)
    /\ UNCHANGED <<mongo, key, lock, detail, history>>

DropSummary(s) ==
    /\ At(s, "summary")
    /\ cache' = [cache EXCEPT !["summary"] = NoCache]
    /\ Continue(s)
    /\ UNCHANGED <<mongo, key, lock, detail, history>>

\* Mutant: KEYS host:{id}:history:list:*
FindListKeys(s) ==
    /\ At(s, "keys")
    /\ ContinueAs(s, [req[s] EXCEPT !.found = IF cache["list"] = NoCache THEN {} ELSE {"list"}])
    /\ UNCHANGED <<mongo, redis, history>>

\* InvalidateHostHistory: KEYS, then DEL of what was found.
FindKeys(s) ==
    /\ At(s, "keys")
    /\ ContinueAs(s, [req[s] EXCEPT !.found =
           {q \in Queues : detail[q] # NoCache}
               \cup (IF cache["list"] = NoCache THEN {} ELSE {"list"})])
    /\ UNCHANGED <<mongo, redis, history>>

DeleteKeys(s) ==
    /\ At(s, "unkey")
    /\ detail' = [q \in Queues |-> IF q \in req[s].found THEN NoCache ELSE detail[q]]
    /\ cache' = IF "list" \in req[s].found THEN [cache EXCEPT !["list"] = NoCache] ELSE cache
    /\ Continue(s)
    /\ UNCHANGED <<mongo, key, lock, history>>

DropDetails(s) ==
    /\ At(s, "undetail")
    /\ detail' = [q \in Queues |-> IF q \in req[s].qs THEN NoCache ELSE detail[q]]
    /\ Continue(s)
    /\ UNCHANGED <<mongo, key, lock, cache, history>>

\* GetQueueHistoryListForHost and GetDashboardData
ReadQueues(s) ==
    /\ At(s, "rows")
    /\ ContinueAs(s, [req[s] EXCEPT !.qs = InState("ended"), !.live = InState("live")])
    /\ UNCHANGED <<mongo, redis, history>>

\* GetHostHistorySummary: from its cache, or read to be cached.
ReadSummary(s) ==
    /\ At(s, "total")
    /\ req' = [req EXCEPT ![s].sum = IF cache["summary"] = NoCache
                                     THEN InState("ended") ELSE cache["summary"],
                          ![s].pc = IF cache["summary"] = NoCache THEN @ + 1 ELSE @ + 2]
    /\ UNCHANGED <<mongo, redis, history>>

Fill(s, v, x) ==
    /\ cache' = [cache EXCEPT ![v] = x]
    /\ stale' = (stale \/ x # Current[v])
    /\ Continue(s)
    /\ UNCHANGED <<mongo, key, lock, detail, scenario, turns, lapsed, stray, drift>>

FillSummary(s) == At(s, "fillSummary") /\ Fill(s, "summary", req[s].sum)
FillList(s) == At(s, "fillList") /\ Fill(s, "list", <<req[s].qs, req[s].sum>>)
FillDashboard(s) == At(s, "fillDashboard") /\ Fill(s, "dashboard", <<req[s].live, req[s].qs>>)

\* GetHistoryDetail
ReadDetail(s) ==
    /\ At(s, "read")
    /\ IF \E q \in req[s].qs : Stored(q)
       THEN ContinueAs(s, [req[s] EXCEPT !.live = @ \cup (req[s].qs \cap InState("live"))])
       ELSE Finish(s)
    /\ UNCHANGED <<mongo, redis, history>>

FillDetail(s) ==
    /\ At(s, "fillDetail")
    /\ \E q \in req[s].qs :
         LET shows == IF q \in req[s].live THEN "live" ELSE "ended"
         IN  /\ detail' = [detail EXCEPT ![q] = shows]
             /\ stale' = (stale \/ doc[q].st # shows)
    /\ Continue(s)
    /\ UNCHANGED <<mongo, key, lock, cache, scenario, turns, lapsed, stray, drift>>
-----------------------------------------------------------------------------
(* A guest joins *)

\* GetQueue: a queue that is open.
ResolveQueue(s) ==
    /\ At(s, "resolve")
    /\ IF \E q \in req[s].qs : doc[q].st = "live" /\ ~doc[q].overdue
       THEN Continue(s) ELSE Finish(s)
    /\ UNCHANGED <<mongo, redis, history>>

\* A delete that has removed the entries of q and will remove q.
Deleting(q) == \E s \in Slots : At(s, "docs") /\ (req[s].op = "clear" \/ q \in req[s].qs)

\* CreateEntryForQueue inserts the entry, without looking at the queue again.
InsertEntry(s) ==
    /\ At(s, "enter")
    /\ entries' = entries \cup req[s].qs
    /\ stray' = stray \cup {q \in req[s].qs : ~Stored(q) \/ Deleting(q)}
    /\ Continue(s)
    /\ UNCHANGED <<doc, count, resetDue, redis, scenario, turns, lapsed, drift, stale>>
-----------------------------------------------------------------------------
(* Time and failures *)

\* The lock's TTL while its owner is still at work.  A queue that its creation
\* has not counted yet is missing in the count the next creation checks.
LockLapses ==
    /\ Ask("lapse") /\ lock # NoSlot
    /\ req[lock].op = "create" /\ req[lock].pc > 1
    /\ lapsed' = lapsed \cup {lock}
    /\ drift' = (drift \/ At(lock, "count"))
    /\ lock' = NoSlot
    /\ UNCHANGED <<mongo, key, cache, detail, req, scenario, turns, stray, stale>>

\* The TTL of a lock that its owner has not released.
LockExpires ==
    /\ lock # NoSlot
    /\ req[lock].op # "create" \/ req[lock].pc = 1
    /\ lock' = NoSlot
    /\ UNCHANGED <<mongo, key, cache, detail, req, history>>

\* Mutant: the history detail is cached without a TTL.
DetailStays(q) == FALSE /\ q \in Queues /\ UNCHANGED vars

\* The TTLs: 30 minutes for the list, a day for the summary, 15 seconds for the
\* dashboard; and seven days for a detail.
ViewExpires(v) ==
    /\ cache[v] # NoCache
    /\ cache' = [cache EXCEPT ![v] = NoCache]
    /\ UNCHANGED <<mongo, key, lock, detail, req, history>>

DetailExpires(q) ==
    /\ detail[q] # NoCache
    /\ detail' = [detail EXCEPT ![q] = NoCache]
    /\ UNCHANGED <<mongo, key, lock, cache, req, history>>

PassExpiry(q) ==
    /\ Ask("overdue") /\ Stored(q) /\ ~doc[q].overdue
    /\ Turn
    /\ doc' = [doc EXCEPT ![q].overdue = TRUE]
    /\ UNCHANGED <<entries, count, resetDue, redis, req, scenario, lapsed, stray, drift, stale>>

\* ResumeQueue of an ended queue, whose update asks for no status and leaves the
\* history's caches; ExtendActiveQueuesExpiry of one that waits for the sweep.
Reopen(q) ==
    /\ Ask("reopen")
    /\ \/ /\ doc[q].st = "ended" /\ ~doc[q].overdue
          /\ doc' = [doc EXCEPT ![q].st = "live", ![q].unchecked = TRUE]
          /\ cache' = [cache EXCEPT !["dashboard"] = NoCache]
          /\ stale' = TRUE
       \/ /\ doc[q].st = "live" /\ doc[q].overdue
          /\ doc' = [doc EXCEPT ![q].overdue = FALSE, ![q].unchecked = TRUE]
          /\ UNCHANGED <<cache, stale>>
    /\ Turn
    /\ UNCHANGED <<entries, count, resetDue, key, lock, detail, req, scenario, lapsed, stray, drift>>

\* The TTL index on expires_at removes the document, of an ended queue too, and
\* nothing else; a code's key has its own TTL.
Ttl(q) ==
    /\ Ask("ttl")
    /\ \/ /\ Stored(q) /\ doc[q].overdue
          /\ doc' = [doc EXCEPT ![q].st = "gone"]
          /\ stray' = stray \cup {q}
          /\ stale' = TRUE
          /\ UNCHANGED key
       \/ /\ doc[q].st # "live" /\ \E c \in Codes : key[c] = q
          /\ key' = [c \in Codes |-> IF key[c] = q THEN NoQueue ELSE key[c]]
          /\ UNCHANGED <<doc, stray, stale>>
    /\ Turn
    /\ UNCHANGED <<entries, count, resetDue, lock, cache, detail, req, scenario, lapsed, drift>>

\* ResetMonthlyLimits for a payment's webhook, or a month without one.
MonthEnds ==
    /\ Ask("reset")
    /\ \/ ResetCount
       \/ ~resetDue /\ resetDue' = TRUE /\ UNCHANGED <<doc, count, drift>>
    /\ Turn
    /\ UNCHANGED <<entries, redis, req, scenario, lapsed, stray, stale>>

\* A command fails, or its answer is lost, without effect.  A failed check for a
\* live queue, or of the host's count, lets the creation pass; failed counts and
\* invalidations are ignored.
CommandFails(s) ==
    /\ Ask("fail") /\ req[s].op # "none"
    /\ \/ /\ \/ Step(s) \in {"lock", "find", "entries", "docs", "rows", "read",
                             "resolve", "enter", "fillSummary", "fillList",
                             "fillDashboard", "fillDetail", "unlock"}
             \/ At(s, "end") /\ req[s].op = "end"
          /\ Finish(s)
       \/ Step(s) \in {"quota", "code", "insert"} /\ Jump(s, "unlock")
       \/ /\ Step(s) \in {"active", "quota"}
          /\ ContinueAs(s, [req[s] EXCEPT !.blind = TRUE])
       \/ Step(s) \in {"host", "orphans", "purge"} /\ Jump(s, "drop")
       \/ /\ \/ Step(s) \in {"count", "decrement", "release", "clean", "drop", "summary",
                             "keys", "unkey", "undetail"}
             \/ At(s, "end") /\ req[s].op = "sweep"
          /\ Continue(s)
       \/ At(s, "total") /\ Jump(s, "fillList")
    /\ drift' = (drift \/ Step(s) \in {"count", "host", "decrement"})
    /\ stale' = (stale \/ Step(s) \in {"docs", "end", "drop", "summary", "keys", "unkey"})
    /\ lapsed' = IF At(s, "unlock") THEN lapsed \ {s} ELSE lapsed
    /\ Turn
    /\ UNCHANGED <<mongo, redis, scenario, stray>>

\* The process stops: its requests and its dashboard cache are lost.
Crash ==
    /\ Ask("crash") /\ \E s \in Slots : req[s].op # "none"
    /\ Turn
    /\ req' = [s \in Slots |-> Idle]
    /\ lapsed' = {}
    /\ cache' = [cache EXCEPT !["dashboard"] = NoCache]
    /\ drift' = (drift \/ \E s \in Slots : Step(s) \in {"count", "release", "host", "decrement"})
    /\ stale' = (stale \/ Writers # {})
    /\ UNCHANGED <<mongo, key, lock, detail, scenario, stray>>
-----------------------------------------------------------------------------
Start(s) ==
    \/ StartCreate(s) \/ StartDelete(s) \/ StartClear(s) \/ StartRead(s)
    \/ \E q \in Queues : StartEnd(s, q) \/ StartSweep(s, q) \/ StartJoin(s, q)

Handler(s) ==
    \/ AcquireLock(s) \/ CheckActive(s) \/ CheckQuota(s) \/ GenerateCode(s)
    \/ InsertQueue(s) \/ InsertCollides(s) \/ IncrementCount(s) \/ ReleaseLock(s)
    \/ EndQueue(s) \/ ReleaseCodes(s) \/ CleanExpired(s)
    \/ FindQueues(s) \/ DeleteEntries(s) \/ DeleteQueues(s) \/ ReadHost(s)
    \/ DecrementCount(s) \/ FindOrphans(s) \/ PurgeOrphans(s)
    \/ DropViews(s) \/ DropSummary(s) \/ FindKeys(s) \/ DeleteKeys(s) \/ DropDetails(s)
    \/ ReadQueues(s) \/ ReadSummary(s) \/ FillSummary(s) \/ FillList(s)
    \/ FillDashboard(s) \/ ReadDetail(s) \/ FillDetail(s)
    \/ ResolveQueue(s) \/ InsertEntry(s)

Expiry ==
    \/ LockExpires
    \/ \E v \in Views : ViewExpires(v)
    \/ \E q \in Queues : DetailExpires(q)

Environment ==
    \/ LockLapses \/ MonthEnds \/ Crash
    \/ \E q \in Queues : PassExpiry(q) \/ Reopen(q) \/ Ttl(q)
    \/ \E s \in Slots : CommandFails(s)

Next == (\E s \in Slots : Start(s) \/ Handler(s)) \/ Expiry \/ Environment

Spec == Init /\ [][Next]_vars

\* Handlers run to their end, and keys with a TTL expire.
Fairness ==
    /\ \A s \in Slots : WF_vars(Handler(s))
    /\ \A v \in Views : WF_vars(ViewExpires(v))
    /\ \A q \in Queues : WF_vars(DetailExpires(q))

FairSpec == Spec /\ Fairness
-----------------------------------------------------------------------------
(* Properties *)

\* A host has at most one open queue, besides those that were created by a
\* request whose lock had lapsed or whose check had failed, and those that were
\* resumed after their end or extended after their expiry.  In particular a
\* request that lost its lock does not take the lock of another with it.
OneLiveQueue ==
    Cardinality({q \in InState("live") : ~doc[q].overdue /\ ~doc[q].unchecked}) <= 1

\* What the month's count stands for.
Counted == {q \in Queues : doc[q].st # "none" /\ doc[q].fresh /\ ~doc[q].freed}

\* Between requests the count is the number of queues created since the last
\* reset and not deleted one by one, unless a command that counts failed or was
\* overtaken, by a reset or the lapse of its lock, or a queue was deleted twice.
CountAgrees ==
    ~drift /\ (\A s \in Slots : req[s].op \notin {"create", "delete", "deleteBulk"})
        => count = Cardinality(Counted)

\* The host does not get more queues in a month than the plan has, although the
\* count is read, and added to, in commands of their own that only the lock of
\* the creation keeps together.
QuotaHeld == ~drift => Cardinality({q \in Counted : ~doc[q].unchecked}) <= Limit

\* A delete that fails or crashes half-way leaves no entries, with names and
\* contacts of guests, of a queue that no request can find any more: only a
\* join that crossed it, or the TTL index, does.
NoOrphans == \A q \in entries : Gone(q) => q \in stray

\* With no change in progress, the cached list, summary and details show what is
\* stored, unless a read that crossed a change was cached after it.
CachesAgree ==
    ~stale /\ Writers = {} =>
        /\ \A v \in {"list", "summary"} : cache[v] \in {NoCache, Current[v]}
        /\ \A q \in Queues : detail[q] \in {NoCache, doc[q].st}

ShownIn(q, v) == \/ cache[v] # NoCache /\ v = "summary" /\ q \in cache[v]
                 \/ cache[v] # NoCache /\ v # "summary" /\ q \in cache[v][1] \cup cache[v][2]

\* What was deleted is in the end shown nowhere, whatever reads it raced with.
DeletedDisappears ==
    \A q \in Queues : <>[](Gone(q) => detail[q] = NoCache /\ \A v \in Views : ~ShownIn(q, v))
=============================================================================
