-------------------------- MODULE HostQueues_proofs --------------------------
(***************************************************************************)
(* Proofs about HostQueues, for every set of queues, codes and slots, every*)
(* limit and every scenario.                                               *)
(*                                                                         *)
(* A request is a position in the table Steps.  The inductive invariant    *)
(* says what a request at a position has established: a creation past the  *)
(* lock owns it, past the check has seen no open queue, a deletion at the  *)
(* documents has removed the entries, and a request that has changed the   *)
(* queues has its invalidations before it.                                 *)
(***************************************************************************)
EXTENDS HostQueues, FiniteSetTheorems, TLAPS

\* The types of everything but the requests; a cache has all its views.
StoreTypes ==
    /\ doc \in [Queues -> Doc]
    /\ entries \subseteq Queues
    /\ count \in Int /\ resetDue \in BOOLEAN
    /\ key \in [Codes -> Queues \cup {NoQueue, LostQueue}]
    /\ lock \in Slots \cup {NoSlot}
    /\ cache = [v \in Views |-> cache[v]]
    /\ cache["list"] \in {NoCache} \cup (SUBSET Queues) \X (SUBSET Queues)
    /\ cache["summary"] \in {NoCache} \cup SUBSET Queues
    /\ cache["dashboard"] \in {NoCache} \cup (SUBSET Queues) \X (SUBSET Queues)
    /\ detail \in [Queues -> {NoCache, "live", "ended"}]
    /\ scenario \in Scenarios /\ turns \in 0..MaxTurns
    /\ lapsed \subseteq Slots /\ stray \subseteq Queues
    /\ drift \in BOOLEAN /\ stale \in BOOLEAN

\* A request whose position is one of its operation.
Proper(r) == r \in Request /\ r.pc \in DOMAIN Steps[r.op]
RequestTypes == req \in [Slots -> Request] /\ \A s \in Slots : Proper(req[s])

Command(r) == Steps[r.op][r.pc]

\* A creation that has acquired the lock, and one that has checked for an open
\* queue and has not inserted its own yet.
Creating(r) == r.op = "create" /\ r.pc > 1
Checked(r) == r.op = "create" /\ r.pc \in 3..5 /\ ~r.blind
Open(q) == doc[q].st = "live" /\ ~doc[q].overdue /\ ~doc[q].unchecked

LockOwned == \A s \in Slots : Creating(req[s]) /\ s \notin lapsed => lock = s
NoneOpen == \A s \in Slots : Checked(req[s]) /\ s \notin lapsed => \A q \in Queues : ~Open(q)
OneOpen == \A p, q \in Queues : Open(p) /\ Open(q) => p = q

\* A deletion that comes to the documents has removed the entries.
EntriesRemoved ==
    \A s \in Slots : Command(req[s]) = "docs" => entries \cap req[s].qs \subseteq stray

\* The queue of a creation is its own, and new until it is inserted.
CreatesOwn ==
    /\ \A s \in Slots : req[s].op = "create" /\ req[s].pc <= 5
                          => \A q \in req[s].qs : doc[q].st = "none"
    /\ \A s, t \in Slots : s # t /\ req[s].op = "create" /\ req[t].op = "create"
                             => req[s].qs \cap req[t].qs = {}

\* A queue that is shown has been inserted.
DetailsKnown ==
    /\ \A s \in Slots : req[s].op = "detail" => \A q \in req[s].qs : doc[q].st # "none"
    /\ \A q \in Queues : doc[q].st = "none" => detail[q] = NoCache

\* A request that has changed queues and is still to delete the summary; or the
\* key of the list, or of a detail.
Changes == {"end", "sweep", "delete", "deleteBulk", "clear"}
Changed(r) == r.op \in Changes /\ r.pc > IF r.op \in {"end", "sweep"} THEN 1 ELSE 3
SummaryStep == [end |-> 6, sweep |-> 6, delete |-> 7, deleteBulk |-> 7, clear |-> 11]
KeysStep == [end |-> 4, sweep |-> 4, delete |-> 8, deleteBulk |-> 8, clear |-> 9]
DropsSummary(r) == Changed(r) /\ r.pc <= SummaryStep[r.op]
DropsKey(r, x) == /\ Changed(r)
                  /\ \/ r.pc <= KeysStep[r.op]
                     \/ r.pc = KeysStep[r.op] + 1 /\ x \in r.found

Keys == Queues \cup {"list"}
SummaryRight == cache["summary"] \in {NoCache, InState("ended")}
KeyRight(x) == IF x = "list"
               THEN cache["list"] \in {NoCache, <<InState("ended"), InState("ended")>>}
               ELSE detail[x] \in {NoCache, doc[x].st}
SummaryDropped == ~stale => SummaryRight \/ \E s \in Slots : DropsSummary(req[s])
KeysDropped ==
    ~stale => \A x \in Keys : KeyRight(x) \/ \E s \in Slots : DropsKey(req[s], x)

\* The inductive invariant.
IInv == /\ StoreTypes /\ RequestTypes
        /\ LockOwned /\ NoneOpen /\ OneOpen
        /\ EntriesRemoved /\ NoOrphans
        /\ CreatesOwn /\ DetailsKnown
        /\ SummaryDropped /\ KeysDropped
-----------------------------------------------------------------------------
(* The table of the requests *)

\* How long a request is.
LEMMA Lengths ==
    /\ DOMAIN Steps["create"] = 1..11 /\ DOMAIN Steps["end"] = 1..6
    /\ DOMAIN Steps["sweep"] = 1..6 /\ DOMAIN Steps["delete"] = 1..10
    /\ DOMAIN Steps["deleteBulk"] = 1..10 /\ DOMAIN Steps["clear"] = 1..11
    /\ DOMAIN Steps["list"] = 1..4 /\ DOMAIN Steps["detail"] = 1..2
    /\ DOMAIN Steps["dashboard"] = 1..2 /\ DOMAIN Steps["join"] = 1..2
    /\ DOMAIN Steps["none"] = 1..1
  BY DEF Steps, CreateSteps, DeleteSteps, ClearSteps

\* The positions of every operation in the table of steps.
LEMMA Positions ==
    ASSUME NEW op \in Requests \cup {"none"}
    PROVE  DOMAIN Steps[op] = 1..Len(Steps[op]) /\ Len(Steps[op]) \in 1..11
  BY Lengths DEF Steps, CreateSteps, DeleteSteps, ClearSteps, Requests

\* The position of a creation at each of its commands.
LEMMA AtCreate ==
    ASSUME NEW r, Proper(r)
    PROVE  /\ Command(r) = "lock" => r.op = "create" /\ r.pc = 1
           /\ Command(r) = "active" => r.op = "create" /\ r.pc = 2
           /\ Command(r) = "quota" => r.op = "create" /\ r.pc = 3
           /\ Command(r) = "code" => r.op = "create" /\ r.pc = 4
           /\ Command(r) = "insert" => r.op = "create" /\ r.pc = 5
           /\ Command(r) = "count" => r.op = "create" /\ r.pc = 6
           /\ Command(r) = "unlock" => r.op = "create" /\ r.pc = 11
  BY Lengths DEF Proper, Request, Command, Steps, CreateSteps, DeleteSteps, ClearSteps, Requests

\* Of a request that changes queues.
LEMMA AtChange ==
    ASSUME NEW r, Proper(r)
    PROVE  /\ Command(r) = "end" => r.op \in {"end", "sweep"} /\ r.pc = 1
           /\ Command(r) = "clean" => r.op = "sweep" /\ r.pc = 3
           /\ Command(r) = "find" => r.op \in {"delete", "deleteBulk", "clear"} /\ r.pc = 1
           /\ Command(r) = "entries" => r.op \in {"delete", "deleteBulk", "clear"} /\ r.pc = 2
           /\ Command(r) = "docs" => r.op \in {"delete", "deleteBulk", "clear"} /\ r.pc = 3
           /\ Command(r) = "host" => r.op \in {"delete", "deleteBulk"} /\ r.pc = 5
           /\ Command(r) = "decrement" => r.op \in {"delete", "deleteBulk"} /\ r.pc = 6
           /\ Command(r) = "orphans" => r.op = "clear" /\ r.pc = 4
           /\ Command(r) = "purge" => r.op = "clear" /\ r.pc = 5
           /\ Command(r) = "undetail" => r.op \in {"delete", "deleteBulk"} /\ r.pc = 10
           /\ Command(r) = "release" => r.op \in {"end", "sweep", "delete", "deleteBulk"}
  BY Lengths DEF Proper, Request, Command, Steps, CreateSteps, DeleteSteps, ClearSteps, Requests

\* Of a request that reads, or joins.
LEMMA AtRead ==
    ASSUME NEW r, Proper(r)
    PROVE  /\ Command(r) = "rows" => r.op \in {"list", "dashboard"} /\ r.pc = 1
           /\ Command(r) = "total" => r.op = "list" /\ r.pc = 2
           /\ Command(r) = "fillSummary" => r.op = "list" /\ r.pc = 3
           /\ Command(r) = "fillList" => r.op = "list" /\ r.pc = 4
           /\ Command(r) = "fillDashboard" => r.op = "dashboard" /\ r.pc = 2
           /\ Command(r) = "read" => r.op = "detail" /\ r.pc = 1
           /\ Command(r) = "fillDetail" => r.op = "detail" /\ r.pc = 2
           /\ Command(r) = "resolve" => r.op = "join" /\ r.pc = 1
           /\ Command(r) = "enter" => r.op = "join" /\ r.pc = 2
           /\ Command(r) = "idle" => r.op = "none"
  BY Lengths DEF Proper, Request, Command, Steps, CreateSteps, DeleteSteps, ClearSteps, Requests

\* Where the invalidations are.
LEMMA AtDrops ==
    ASSUME NEW r, Proper(r), r.op \in Changes
    PROVE  /\ r.pc = SummaryStep[r.op] => Command(r) \in {"drop", "summary"}
           /\ r.pc = KeysStep[r.op] => Command(r) = "keys"
           /\ r.pc = KeysStep[r.op] + 1 => Command(r) = "unkey"
           /\ SummaryStep[r.op] \in 6..11 /\ KeysStep[r.op] \in 4..9
           /\ KeysStep[r.op] + 1 \in DOMAIN Steps[r.op]
           /\ SummaryStep[r.op] \in DOMAIN Steps[r.op]
  BY Lengths DEF Proper, Request, Command, Steps, CreateSteps, DeleteSteps, ClearSteps, Requests,
      Changes, SummaryStep, KeysStep

\* A position that is the only one of its command.
LEMMA OnlyIndex ==
    ASSUME NEW op, NEW l, NEW i \in Int,
           {j \in DOMAIN Steps[op] : Steps[op][j] = l} = {i}
    PROVE  Index(op, l) = i
  BY DEF Index, Min

\* The positions that requests jump to.
LEMMA Jumps ==
    /\ Index("create", "unlock") = 11 /\ Index("create", "code") = 4
    /\ Index("delete", "drop") = 7 /\ Index("deleteBulk", "drop") = 7
    /\ Index("clear", "drop") = 6 /\ Index("deleteBulk", "keys") = 8
    /\ Index("list", "fillList") = 4
  <1>1. Index("create", "unlock") = 11
    <2>1. {j \in DOMAIN Steps["create"] : Steps["create"][j] = "unlock"} = {11}
      BY Lengths DEF Steps, CreateSteps
    <2> QED
      BY <2>1, OnlyIndex
  <1>2. Index("create", "code") = 4
    <2>1. {j \in DOMAIN Steps["create"] : Steps["create"][j] = "code"} = {4}
      BY Lengths DEF Steps, CreateSteps
    <2> QED
      BY <2>1, OnlyIndex
  <1>3. Index("delete", "drop") = 7 /\ Index("deleteBulk", "drop") = 7
    <2>1. /\ {j \in DOMAIN Steps["delete"] : Steps["delete"][j] = "drop"} = {7}
          /\ {j \in DOMAIN Steps["deleteBulk"] : Steps["deleteBulk"][j] = "drop"} = {7}
      BY Lengths DEF Steps, DeleteSteps
    <2> QED
      BY <2>1, OnlyIndex
  <1>4. Index("clear", "drop") = 6
    <2>1. {j \in DOMAIN Steps["clear"] : Steps["clear"][j] = "drop"} = {6}
      BY Lengths DEF Steps, ClearSteps
    <2> QED
      BY <2>1, OnlyIndex
  <1>5. Index("deleteBulk", "keys") = 8
    <2>1. {j \in DOMAIN Steps["deleteBulk"] : Steps["deleteBulk"][j] = "keys"} = {8}
      BY Lengths DEF Steps, DeleteSteps
    <2> QED
      BY <2>1, OnlyIndex
  <1>6. Index("list", "fillList") = 4
    <2>1. {j \in DOMAIN Steps["list"] : Steps["list"][j] = "fillList"} = {4}
      BY Lengths DEF Steps
    <2> QED
      BY <2>1, OnlyIndex
  <1> QED
    BY <1>1, <1>2, <1>3, <1>4, <1>5, <1>6

-----------------------------------------------------------------------------
(* What the steps of a request have in common *)

\* r is the request o, with other results of its reads.
Like(o, r) ==
    /\ r \in Request /\ r.op = o.op /\ r.pc = o.pc
    /\ o.op \in {"create", "detail"} => r.qs = o.qs
    /\ o.blind => r.blind

\* r comes after o, and has established nothing new.
Follows(o, r) ==
    /\ Proper(r) /\ Command(r) # "docs"
    /\ Creating(r) => Creating(o)
    /\ Checked(r) => Checked(o)
    /\ r.op = "create" => o.op = "create" /\ r.qs = o.qs /\ (r.pc <= 5 => o.pc <= 5)
    /\ r.op = "detail" => o.op = "detail" /\ r.qs = o.qs

\* r has the invalidations before it that o has.
KeepsDrops(o, r) ==
    /\ DropsSummary(o) => DropsSummary(r)
    /\ \A x \in Keys : DropsKey(o, x) => DropsKey(r, x)

\* A free slot is at a position of the idle operation.
LEMMA IdleProper == Proper(Idle) /\ Command(Idle) = "idle"
  BY HostQueuesAssumption, Lengths DEF Proper, Idle, Request, Command, Steps

\* A free slot follows every request: it owes nothing and claims nothing.
LEMMA IdleFollows ==
    ASSUME NEW o
    PROVE  Follows(o, Idle)
  BY IdleProper DEF Follows, Creating, Checked, Idle

\* A slot that changes to a proper request keeps the types of all requests.
LEMMA SlotTypes ==
    ASSUME IInv, NEW s \in Slots
    PROVE  Proper(req[s]) /\ req[s] \in Request /\ Step(s) = Command(req[s])
  BY DEF IInv, RequestTypes, Proper, Step, Command

\* The next position.
LEMMA OnwardIs ==
    ASSUME NEW r, Proper(r)
    PROVE  /\ Proper(Onward(r))
           /\ \/ Onward(r) = Idle /\ r.pc = Len(Steps[r.op])
              \/ /\ Onward(r) = [r EXCEPT !.pc = r.pc + 1]
                 /\ r.pc + 1 \in DOMAIN Steps[r.op] /\ Onward(r) \in Request
                 /\ Onward(r).op = r.op /\ Onward(r).pc = r.pc + 1 /\ Onward(r).qs = r.qs
                 /\ Onward(r).found = r.found /\ Onward(r).blind = r.blind
  <1>1. r.pc \in 1..Len(Steps[r.op]) /\ Len(Steps[r.op]) \in 1..11 /\ r.op \in Requests \cup {"none"}
    BY Positions DEF Proper, Request
  <1>2. CASE r.pc = Len(Steps[r.op])
    BY <1>2, IdleProper DEF Onward
  <1>3. CASE r.pc # Len(Steps[r.op])
    <2> DEFINE q == [r EXCEPT !.pc = r.pc + 1]
    <2>1. Onward(r) = q
      BY <1>3 DEF Onward
    <2>2. r.pc + 1 \in 1..Len(Steps[r.op])
      BY <1>1, <1>3
    <2>3. r.pc + 1 \in DOMAIN Steps[r.op] /\ r.pc + 1 \in 1..11
      <3>1. DOMAIN Steps[r.op] = 1..Len(Steps[r.op])
        BY <1>1, Positions
      <3>2. \A n \in 1..11 : \A i \in 1..n : i \in 1..11
        OBVIOUS
      <3> QED
        BY <1>1, <2>2, <3>1, <3>2
    <2>4. q \in Request /\ q.op = r.op /\ q.pc = r.pc + 1 /\ q.qs = r.qs
            /\ q.found = r.found /\ q.blind = r.blind
      BY <2>3 DEF Proper, Request
    <2> HIDE DEF q
    <2>5. Proper(q)
      BY <2>3, <2>4 DEF Proper
    <2>6. q = [r EXCEPT !.pc = r.pc + 1]
      BY DEF q
    <2> QED
      BY <2>1, <2>3, <2>4, <2>5, <2>6
  <1> QED
    BY <1>2, <1>3

\* A command other than those that establish something is followed.
LEMMA OnwardFollows ==
    ASSUME NEW o, NEW r, Proper(o), Like(o, r),
           Command(o) \notin {"lock", "active", "entries"}
    PROVE  Follows(o, Onward(r))
  <1>1. Proper(r) /\ Command(r) = Command(o)
    BY DEF Proper, Like, Command
  <1>2. CASE Onward(r) = Idle
    BY <1>2, IdleFollows
  <1>3. CASE Onward(r) # Idle
    <2> DEFINE q == Onward(r)
    <2>1. Proper(q) /\ q.op = o.op /\ q.pc = o.pc + 1 /\ q.qs = r.qs /\ (o.blind => q.blind)
            /\ o.pc \in Int
      BY <1>1, <1>3, OnwardIs DEF Like, Request
    <2> HIDE DEF q
    <2>2. Command(q) # "docs"
      <3>1. SUFFICES ASSUME Command(q) = "docs" PROVE FALSE
        OBVIOUS
      <3>2. o.op \in {"delete", "deleteBulk", "clear"} /\ o.pc = 2
        BY <2>1, <3>1, AtChange
      <3>3. Command(o) = "entries"
        BY <3>2, Lengths DEF Command, Steps, DeleteSteps, ClearSteps
      <3> QED
        BY <3>3
    <2>3. o.op = "create" => o.pc \notin {1, 2}
      <3>1. o.op = "create" /\ o.pc \in {1, 2} => Command(o) \in {"lock", "active"}
        BY DEF Command, Steps, CreateSteps
      <3> QED
        BY <3>1
    <2>4. o.op \in {"create", "detail"} => q.qs = o.qs
      BY <2>1 DEF Like
    <2>5. Follows(o, q)
      <3>1. Checked(q) => Checked(o)
        BY <2>1, <2>3 DEF Checked
      <3>2. Creating(q) => Creating(o)
        BY <2>1, <2>3 DEF Creating
      <3> QED
        BY <2>1, <2>2, <2>4, <3>1, <3>2 DEF Follows
    <2> QED
      BY <2>5 DEF q
  <1> QED
    BY <1>2, <1>3

\* A command that is no invalidation leaves them to be done.
LEMMA OnwardKeeps ==
    ASSUME NEW o, NEW r, Proper(o), Like(o, r)
    PROVE  /\ Command(o) \notin {"drop", "summary"} /\ DropsSummary(o) => DropsSummary(Onward(r))
           /\ Command(o) \notin {"keys", "unkey"}
                => \A x \in Keys : DropsKey(o, x) => DropsKey(Onward(r), x)
  <1>1. Proper(r) /\ Command(r) = Command(o) /\ r.op = o.op /\ r.pc = o.pc
    BY DEF Proper, Like, Command
  <1>2. CASE ~Changed(o)
    BY <1>2 DEF DropsSummary, DropsKey
  <1>3. CASE Changed(o)
    <2>1. /\ o.op \in Changes /\ o.op \in Requests /\ o.pc \in 1..11
          /\ SummaryStep[o.op] \in 6..11 /\ KeysStep[o.op] \in 4..9
          /\ KeysStep[o.op] + 1 \in DOMAIN Steps[o.op] /\ SummaryStep[o.op] \in DOMAIN Steps[o.op]
      BY <1>1, <1>3, AtDrops DEF Changed, Changes, Requests, Like, Request
    <2>2. /\ Command(o) \notin {"drop", "summary"} => o.pc # SummaryStep[o.op]
          /\ Command(o) \notin {"keys", "unkey"}
               => o.pc # KeysStep[o.op] /\ o.pc # KeysStep[o.op] + 1
      BY <2>1, AtDrops
    <2>3. CASE Onward(r) = Idle
      <3>1. o.pc = Len(Steps[o.op])
        <4>1. o.pc = Len(Steps[o.op]) \/ Onward(r).op = r.op
          BY <1>1, OnwardIs
        <4>2. r.op # "none" /\ Idle.op = "none"
          BY <1>1, <2>1 DEF Idle, Changes
        <4> QED
          BY <2>3, <4>1, <4>2
      <3>2. DOMAIN Steps[o.op] = 1..o.pc
        BY <2>1, <3>1, Positions
      <3>3. o.pc >= SummaryStep[o.op] /\ o.pc >= KeysStep[o.op] + 1
        BY <2>1, <3>2
      <3> QED
        BY <2>1, <2>2, <3>3 DEF DropsSummary, DropsKey
    <2>4. CASE Onward(r) # Idle
      <3>1. Onward(r).op = o.op /\ Onward(r).pc = o.pc + 1
        BY <1>1, <2>4, OnwardIs
      <3>2. Changed(Onward(r))
        BY <1>3, <2>1, <3>1 DEF Changed
      <3> QED
        BY <2>1, <2>2, <3>1, <3>2 DEF DropsSummary, DropsKey
    <2> QED
      BY <2>3, <2>4
  <1> QED
    BY <1>2, <1>3

\* A request that moves on past a step that deletes no cache keeps its deletions.
LEMMA OnwardKeepsDrops ==
    ASSUME NEW o, NEW r, Proper(o), Like(o, r),
           Command(o) \notin {"drop", "summary", "keys", "unkey"}
    PROVE  KeepsDrops(o, Onward(r))
  BY OnwardKeeps DEF KeepsDrops

-----------------------------------------------------------------------------
(* The parts of the invariant, over a step in which slot s gets request r *)

\* A reset of the count leaves everything of the queues but the month.
LEMMA ResetDocs ==
    ASSUME IInv, ResetCount
    PROVE  doc' \in [Queues -> Doc] /\ \A q \in Queues :
             /\ doc'[q].st = doc[q].st /\ doc'[q].overdue = doc[q].overdue
             /\ doc'[q].unchecked = doc[q].unchecked
  <1> DEFINE e(d) == [d EXCEPT !.fresh = FALSE]
  <1>1. \A d \in Doc : /\ e(d) \in Doc /\ e(d).st = d.st /\ e(d).overdue = d.overdue
                       /\ e(d).unchecked = d.unchecked
    BY DEF Doc
  <1>2. doc \in [Queues -> Doc]
    BY DEF IInv, StoreTypes
  <1>3. doc' = [q \in Queues |-> e(doc[q])]
    BY DEF ResetCount
  <1> HIDE DEF e
  <1> QED
    BY <1>1, <1>2, <1>3

\* A step of one slot leaves the requests of all others.
LEMMA SlotChanged ==
    ASSUME IInv, NEW s \in Slots, NEW r, Proper(r), req' = [req EXCEPT ![s] = r]
    PROVE  RequestTypes' /\ req'[s] = r /\ \A t \in Slots : t # s => req'[t] = req[t]
  BY DEF IInv, RequestTypes, Proper

\* A step that leaves the lock and moves a request on keeps the owner of the lock.
LEMMA LockKept ==
    ASSUME IInv, NEW s \in Slots, NEW r, Proper(r), req' = [req EXCEPT ![s] = r],
           \A t \in Slots : t # s => /\ lock = t => lock' = t
                                     /\ t \notin lapsed' => t \notin lapsed,
           Creating(r) /\ s \notin lapsed' => lock' = s
    PROVE  LockOwned'
  <1>1. ASSUME NEW t \in Slots, Creating(req'[t]), t \notin lapsed'
        PROVE  lock' = t
    <2>1. CASE t = s
      BY <1>1, <2>1, SlotChanged
    <2>2. CASE t # s
      <3>1. req'[t] = req[t] /\ t \notin lapsed
        BY <1>1, <2>2, SlotChanged
      <3>2. lock = t
        BY <1>1, <3>1 DEF IInv, LockOwned
      <3> QED
        BY <2>2, <3>2
    <2> QED
      BY <2>1, <2>2
  <1> QED
    BY <1>1 DEF LockOwned, Creating

\* A step that opens no queue keeps what the checks have seen.
LEMMA OpenKept ==
    ASSUME IInv, NEW s \in Slots, NEW r, Proper(r), req' = [req EXCEPT ![s] = r],
           \A t \in Slots : t # s => (t \notin lapsed' => t \notin lapsed),
           \A q \in Queues : Open(q)' => Open(q),
           Checked(r) /\ s \notin lapsed' => \A q \in Queues : ~Open(q)'
    PROVE  NoneOpen' /\ OneOpen'
  <1>1. OneOpen'
    BY DEF IInv, OneOpen, Open
  <1>2. NoneOpen'
    <2> SUFFICES ASSUME NEW t \in Slots, Checked(req'[t]), t \notin lapsed', NEW q \in Queues
                 PROVE  ~Open(q)'
      BY DEF NoneOpen, Checked, Open
    <2>1. CASE t = s
      BY <2>1, SlotChanged
    <2>2. CASE t # s
      <3>1. Checked(req[t]) /\ t \notin lapsed
        BY <2>2, SlotChanged
      <3> QED
        BY <3>1 DEF IInv, NoneOpen
    <2> QED
      BY <2>1, <2>2
  <1> QED
    BY <1>1, <1>2

\* A step that adds no entry keeps what the deletions have removed.
LEMMA OrphansKept ==
    ASSUME IInv, NEW s \in Slots, NEW r, Proper(r), req' = [req EXCEPT ![s] = r],
           \A q \in entries' \ stray' :
              \/ q \in entries \ stray /\ (Gone(q)' => Gone(q))
              \/ ~Gone(q)' /\ \A t \in Slots : At(t, "docs") => q \notin req[t].qs
              \/ ~Gone(q)' /\ q \in entries \ stray,
           Command(r) = "docs" => entries' \cap r.qs \subseteq stray'
    PROVE  EntriesRemoved' /\ NoOrphans'
  <1>1. NoOrphans'
    BY DEF IInv, NoOrphans
  <1>2. EntriesRemoved'
    <2> SUFFICES ASSUME NEW t \in Slots, Command(req'[t]) = "docs",
                        NEW q \in entries' \cap req'[t].qs
                 PROVE  q \in stray'
      BY DEF EntriesRemoved, Command
    <2>1. CASE t = s
      BY <2>1, SlotChanged
    <2>2. CASE t # s
      <3>1. req'[t] = req[t] /\ At(t, "docs")
        BY <2>2, SlotChanged, SlotTypes DEF At
      <3> QED
        BY <3>1 DEF IInv, EntriesRemoved
    <2> QED
      BY <2>1, <2>2
  <1> QED
    BY <1>1, <1>2

\* A step that inserts no queue keeps the queues of the creations new.
LEMMA NewKept ==
    ASSUME IInv, NEW s \in Slots, NEW r, Proper(r), req' = [req EXCEPT ![s] = r],
           \A q \in Queues :
              /\ doc'[q].st = "none" => doc[q].st = "none"
              /\ doc[q].st = "none" => doc'[q].st = "none"
                                         \/ (req[s].op = "create" /\ q \in req[s].qs)
              /\ doc'[q].st = "none" => detail'[q] = NoCache,
           r.op = "create" => \/ req[s].op = "create" /\ r.qs = req[s].qs
                              \/ r.qs \subseteq Unused,
           r.op = "create" /\ r.pc <= 5 => \A q \in r.qs : doc'[q].st = "none",
           r.op = "detail" => \A q \in r.qs : doc'[q].st # "none"
    PROVE  CreatesOwn' /\ DetailsKnown'
  <1> USE SlotChanged
  <1>1. \A t \in Slots : req[t].qs \subseteq Queues
    BY SlotTypes DEF Request
  <1>2. DetailsKnown'
    <2>1. \A t \in Slots : req'[t].op = "detail" => \A q \in req'[t].qs : doc'[q].st # "none"
      BY <1>1 DEF IInv, DetailsKnown
    <2> QED
      BY <2>1 DEF DetailsKnown
  <1>3. ASSUME NEW t \in Slots, t # s, r.op = "create", req[t].op = "create"
        PROVE  r.qs \cap req[t].qs = {}
    <2>1. CASE req[s].op = "create" /\ r.qs = req[s].qs
      BY <1>3, <2>1 DEF IInv, CreatesOwn
    <2>2. CASE r.qs \subseteq Unused
      <3>1. req[t].qs \in {req[u].qs : u \in {v \in Slots : req[v].op = "create"}}
        BY <1>3
      <3>2. Unused \cap req[t].qs = {}
        BY <3>1 DEF Unused
      <3> QED
        BY <2>2, <3>2
    <2> QED
      BY <1>3, <2>1, <2>2
  <1>4. \A t, u \in Slots : t # u /\ req'[t].op = "create" /\ req'[u].op = "create"
                              => req'[t].qs \cap req'[u].qs = {}
    BY <1>3 DEF IInv, CreatesOwn
  <1>5. \A t \in Slots : req'[t].op = "create" /\ req'[t].pc <= 5
                           => \A q \in req'[t].qs : doc'[q].st = "none"
    <2> TAKE t \in Slots
    <2> HAVE req'[t].op = "create" /\ req'[t].pc <= 5
    <2> TAKE q \in req'[t].qs
    <2>1. CASE t = s
      <3>1. req'[t] = r
        BY <2>1
      <3> QED
        BY <3>1
    <2>2. CASE t # s
      <3>0. req'[t] = req[t]
        BY <2>2
      <3>1. doc[q].st = "none" /\ q \in Queues
        BY <1>1, <3>0 DEF IInv, CreatesOwn
      <3>2. ~(req[s].op = "create" /\ q \in req[s].qs)
        BY <2>2, <3>0 DEF IInv, CreatesOwn
      <3> QED
        BY <3>1, <3>2
    <2> QED
      BY <2>1, <2>2
  <1> QED
    BY <1>2, <1>4, <1>5 DEF CreatesOwn

\* A step that leaves queues and caches and keeps every deletion keeps the caches right or about to be deleted.
LEMMA CachesKept ==
    ASSUME IInv, NEW s \in Slots, NEW r, Proper(r), req' = [req EXCEPT ![s] = r],
           stale => stale',
           ~stale' /\ (SummaryRight \/ DropsSummary(req[s])) => SummaryRight' \/ DropsSummary(r),
           \A x \in Keys : ~stale' /\ (KeyRight(x) \/ DropsKey(req[s], x))
                             => KeyRight(x)' \/ DropsKey(r, x)
    PROVE  SummaryDropped' /\ KeysDropped'
  <1>1. SummaryDropped'
    <2> SUFFICES ASSUME ~stale' PROVE SummaryRight' \/ \E t \in Slots : DropsSummary(req'[t])
      BY DEF SummaryDropped, DropsSummary, Changed
    <2>1. SummaryRight \/ \E t \in Slots : DropsSummary(req[t])
      BY DEF IInv, SummaryDropped
    <2>2. ASSUME NEW t \in Slots, t # s, DropsSummary(req[t])
          PROVE  DropsSummary(req'[t])
      BY <2>2, SlotChanged
    <2>3. DropsSummary(r) => DropsSummary(req'[s])
      BY SlotChanged
    <2> QED
      BY <2>1, <2>2, <2>3
  <1>2. KeysDropped'
    <2> SUFFICES ASSUME ~stale', NEW x \in Keys
                 PROVE  KeyRight(x)' \/ \E t \in Slots : DropsKey(req'[t], x)
      BY DEF KeysDropped, DropsKey, Changed, Keys
    <2>1. KeyRight(x) \/ \E t \in Slots : DropsKey(req[t], x)
      BY DEF IInv, KeysDropped
    <2>2. ASSUME NEW t \in Slots, t # s, DropsKey(req[t], x)
          PROVE  DropsKey(req'[t], x)
      BY <2>2, SlotChanged
    <2>3. DropsKey(r, x) => DropsKey(req'[s], x)
      BY SlotChanged
    <2> QED
      BY <2>1, <2>2, <2>3
  <1> QED
    BY <1>1, <1>2

\* What a step may do to the caches: it notes that one may be stale, or puts there
\* what is right or nothing.
CachesGood ==
    /\ stale => stale'
    /\ ~stale' => /\ SummaryRight => SummaryRight'
                  /\ \A x \in Keys : KeyRight(x) => KeyRight(x)'

\* A step of a request that establishes nothing and keeps the queues, if it is in
\* order with the caches.
LEMMA QuietStep ==
    ASSUME IInv, NEW s \in Slots, NEW r, Follows(req[s], r), req' = [req EXCEPT ![s] = r],
           StoreTypes', UNCHANGED <<lock, lapsed>>,
           \A q \in Queues : doc'[q].st = doc[q].st /\ (Open(q)' => Open(q)),
           entries' \subseteq entries, stray' = stray,
           \A q \in Queues : detail'[q] # NoCache => doc'[q].st # "none",
           SummaryDropped' /\ KeysDropped'
    PROVE  IInv'
  <1> USE SlotTypes
  <1>1. Proper(r) /\ RequestTypes'
    BY SlotChanged DEF Follows
  <1>2. LockOwned'
    BY <1>1, LockKept DEF Follows, IInv, LockOwned
  <1>3. NoneOpen' /\ OneOpen'
    BY <1>1, OpenKept DEF Follows, IInv, NoneOpen
  <1>4. EntriesRemoved' /\ NoOrphans'
    <2>1. \A q \in entries' \ stray' : q \in entries \ stray /\ (Gone(q)' => Gone(q))
      BY DEF IInv, StoreTypes, Gone
    <2> QED
      BY <1>1, <2>1, OrphansKept DEF Follows
  <1>5. CreatesOwn' /\ DetailsKnown'
    <2>1. req[s].qs \subseteq Queues
      BY DEF Request
    <2>2. r.op = "create" /\ r.pc <= 5 => \A q \in r.qs : doc'[q].st = "none"
      BY <2>1 DEF Follows, IInv, CreatesOwn
    <2>3. r.op = "detail" => \A q \in r.qs : doc'[q].st # "none"
      BY <2>1 DEF Follows, IInv, DetailsKnown
    <2> QED
      BY <1>1, <2>2, <2>3, NewKept DEF Follows
  <1> QED
    BY <1>1, <1>2, <1>3, <1>4, <1>5 DEF IInv

\* A step of a request that also leaves the invalidations to be done.
LEMMA Quiet ==
    ASSUME IInv, NEW s \in Slots, NEW r, Follows(req[s], r), req' = [req EXCEPT ![s] = r],
           StoreTypes', UNCHANGED <<lock, lapsed>>,
           \A q \in Queues : doc'[q].st = doc[q].st /\ (Open(q)' => Open(q)),
           entries' \subseteq entries, stray' = stray,
           \A q \in Queues : detail'[q] # NoCache => doc'[q].st # "none",
           CachesGood, stale' \/ KeepsDrops(req[s], r)
    PROVE  IInv'
  <1>1. stale => stale'
    BY DEF CachesGood
  <1>2. ~stale' /\ (SummaryRight \/ DropsSummary(req[s])) => SummaryRight' \/ DropsSummary(r)
    BY DEF CachesGood, KeepsDrops
  <1>3. \A x \in Keys : ~stale' /\ (KeyRight(x) \/ DropsKey(req[s], x))
                           => KeyRight(x)' \/ DropsKey(r, x)
    BY DEF CachesGood, KeepsDrops
  <1>4. SummaryDropped' /\ KeysDropped'
    BY <1>1, <1>2, <1>3, CachesKept DEF Follows
  <1> QED
    BY <1>4, QuietStep

\* A step of a request that changes neither the queues nor the caches.
LEMMA Apart ==
    ASSUME IInv, NEW s \in Slots, NEW r, Follows(req[s], r), req' = [req EXCEPT ![s] = r],
           StoreTypes', UNCHANGED <<doc, cache, detail, lock, lapsed, stray>>,
           entries' \subseteq entries, stale => stale',
           stale' \/ KeepsDrops(req[s], r)
    PROVE  IInv'
  <1>1. CachesGood
    BY DEF CachesGood, SummaryRight, KeyRight, InState
  <1>2. \A q \in Queues : detail'[q] # NoCache => doc'[q].st # "none"
    BY DEF IInv, DetailsKnown
  <1>3. \A q \in Queues : doc'[q].st = doc[q].st /\ (Open(q)' => Open(q))
    BY DEF Open
  <1> QED
    BY <1>1, <1>2, <1>3, Quiet

\* Such a step that goes on to the next command.
LEMMA Goes ==
    ASSUME IInv, NEW s \in Slots, NEW r, Like(req[s], r), ContinueAs(s, r),
           Step(s) \notin {"lock", "active", "entries", "drop", "summary", "keys", "unkey"},
           StoreTypes', UNCHANGED <<doc, cache, detail, lock, lapsed, stray>>,
           entries' \subseteq entries, stale => stale'
    PROVE  IInv'
  <1>1. Follows(req[s], Onward(r)) /\ KeepsDrops(req[s], Onward(r))
    BY SlotTypes, OnwardFollows, OnwardKeepsDrops
  <1> QED
    BY <1>1, Apart DEF ContinueAs

\* A request that does not change owes and claims what it did.
LEMMA LikeItself ==
    ASSUME IInv, NEW s \in Slots
    PROVE  Like(req[s], req[s])
  BY SlotTypes DEF Like

\* A request with no invalidations before it may end.
LEMMA Ends ==
    ASSUME IInv, NEW s \in Slots, Finish(s),
           StoreTypes', UNCHANGED <<doc, cache, detail, lock, lapsed, stray>>,
           entries' \subseteq entries, stale => stale',
           stale' \/ ~Changed(req[s])
    PROVE  IInv'
  <1>1. Follows(req[s], Idle)
    BY IdleFollows
  <1>2. stale' \/ KeepsDrops(req[s], Idle)
    BY DEF KeepsDrops, DropsSummary, DropsKey
  <1> QED
    BY <1>1, <1>2, Apart DEF Finish

\* A creation may give up, or try again.
LEMMA JumpsTo ==
    ASSUME IInv, NEW s \in Slots, NEW r, r = [req[s] EXCEPT !.pc = 11],
           req[s].op = "create", req[s].pc \in {2, 3, 4, 5}, req' = [req EXCEPT ![s] = r],
           StoreTypes', UNCHANGED <<doc, cache, detail, lock, lapsed, stray>>,
           entries' \subseteq entries, stale => stale'
    PROVE  IInv'
  <1>1. /\ r.op = "create" /\ r.pc = 11 /\ r.qs = req[s].qs /\ r \in Request
    BY SlotTypes DEF Request
  <1>2. Proper(r)
    BY <1>1, Lengths DEF Proper
  <1>3. Command(r) # "docs"
    BY <1>1, <1>2, AtChange
  <1>4. Follows(req[s], r)
    BY <1>1, <1>2, <1>3 DEF Follows, Creating, Checked
  <1>5. KeepsDrops(req[s], r)
    BY DEF KeepsDrops, DropsSummary, DropsKey, Changed, Changes
  <1> QED
    BY <1>4, <1>5, Apart
-----------------------------------------------------------------------------
(* Creating a queue *)

\* The request of a creation that gives up.
LEMMA GivesUp ==
    ASSUME IInv, NEW s \in Slots, Jump(s, "unlock"),
           Step(s) \in {"active", "quota", "code", "insert"},
           StoreTypes', UNCHANGED <<doc, cache, detail, lock, lapsed, stray>>,
           entries' \subseteq entries, stale => stale'
    PROVE  IInv'
  <1> DEFINE r == [req[s] EXCEPT !.pc = 11]
  <1>1. req[s].op = "create" /\ req[s].pc \in {2, 3, 4, 5}
    BY SlotTypes, AtCreate
  <1>2. req' = [req EXCEPT ![s] = r]
    BY <1>1, Jumps DEF Jump, IInv, RequestTypes
  <1> QED
    BY <1>1, <1>2, JumpsTo

\* A creation's check for an open queue preserves the invariant: it passes only where none is open, unless it fails open.
LEMMA CreateChecks ==
    ASSUME IInv, NEW s \in Slots,
           \/ CheckActive(s) \/ CheckQuota(s) \/ GenerateCode(s) \/ InsertCollides(s)
           \/ IncrementCount(s)
    PROVE  IInv'
  <1> USE SlotTypes, LikeItself DEF At, mongo, redis, history
  <1>1. CASE CheckActive(s)
    <2>1. StoreTypes'
      BY <1>1 DEF CheckActive, IInv, StoreTypes
    <2>2. CASE Jump(s, "unlock")
      BY <1>1, <2>1, <2>2, GivesUp DEF CheckActive
    <2>3. CASE Continue(s) /\ \A q \in InState("live") : doc[q].overdue
      <3> DEFINE r == Onward(req[s])
      <3>1. req[s].op = "create" /\ req[s].pc = 2 /\ Len(Steps["create"]) = 11
        BY <1>1, AtCreate DEF CheckActive, Steps, CreateSteps
      <3>2. /\ Proper(r) /\ r.op = "create" /\ r.pc = 3 /\ r.qs = req[s].qs
            /\ req' = [req EXCEPT ![s] = r]
        <4>1. req[s].pc # Len(Steps[req[s].op])
          BY <3>1
        <4>2. Onward(req[s]) # Idle
          BY <3>1, <4>1, OnwardIs DEF Idle, Onward
        <4> QED
          BY <2>3, <3>1, <4>1, <4>2, OnwardIs DEF Continue, ContinueAs
      <3> HIDE DEF r
      <3>3. \A q \in Queues : ~Open(q)
        BY <2>3 DEF InState, Open
      <3>4. Command(r) # "docs"
        BY <3>2, AtChange
      <3>5. LockOwned'
        BY <1>1, <3>1, <3>2, LockKept DEF CheckActive, IInv, LockOwned, Creating
      <3>6. NoneOpen' /\ OneOpen'
        <4>1. \A q \in Queues : ~Open(q)'
          BY <1>1, <3>3 DEF CheckActive, Open
        <4> QED
          BY <1>1, <3>2, <4>1, OpenKept DEF CheckActive
      <3>7. EntriesRemoved' /\ NoOrphans'
        BY <1>1, <3>2, <3>4, OrphansKept DEF CheckActive, Gone
      <3>8. CreatesOwn' /\ DetailsKnown'
        BY <1>1, <3>1, <3>2, NewKept DEF CheckActive, IInv, CreatesOwn, DetailsKnown
      <3>9. SummaryDropped' /\ KeysDropped'
        <4>1. UNCHANGED <<doc, cache, detail, stale>>
          BY <1>1 DEF CheckActive
        <4>2. ~Changed(req[s])
          BY <3>1 DEF Changed, Changes
        <4>3. SummaryRight' = SummaryRight /\ \A x \in Keys : KeyRight(x)' = KeyRight(x)
          BY <4>1 DEF SummaryRight, KeyRight, InState
        <4> QED
          BY <3>2, <4>1, <4>2, <4>3, CachesKept DEF DropsSummary, DropsKey
      <3> QED
        BY <2>1, <3>2, <3>5, <3>6, <3>7, <3>8, <3>9, SlotChanged DEF IInv
    <2> QED
      BY <1>1, <2>2, <2>3 DEF CheckActive
  <1>2. CASE CheckQuota(s)
    <2>1. CASE resetDue
      <3> DEFINE r == Onward(req[s])
      <3>1. ResetCount /\ req' = [req EXCEPT ![s] = r]
              /\ UNCHANGED <<entries, redis, scenario, turns, lapsed, stray, stale>>
        BY <1>2, <2>1 DEF CheckQuota, Continue, ContinueAs
      <3>2. doc' \in [Queues -> Doc] /\ \A q \in Queues :
              /\ doc'[q].st = doc[q].st /\ doc'[q].overdue = doc[q].overdue
              /\ doc'[q].unchecked = doc[q].unchecked
        BY <3>1, ResetDocs
      <3>3. StoreTypes'
        <4>1. count' = 0
          BY <3>1 DEF ResetCount
        <4>2. drift' \in BOOLEAN
          BY <3>1 DEF ResetCount, Counting
        <4>3. UNCHANGED <<entries, key, lock, cache, detail, scenario, turns, lapsed, stray, stale>>
          BY <3>1
        <4>4. count' \in Int
          BY <4>1, SMT
        <4>5. resetDue' \in BOOLEAN
          BY <3>1 DEF ResetCount
        <4> QED
          BY <3>2, <4>2, <4>3, <4>4, <4>5 DEF IInv, StoreTypes
      <3>4. Follows(req[s], r) /\ KeepsDrops(req[s], r)
        BY <1>2, OnwardFollows, OnwardKeepsDrops DEF CheckQuota
      <3> HIDE DEF r
      <3>5. InState("ended")' = InState("ended")
        BY <3>2 DEF InState
      <3>6. CachesGood
        BY <3>1, <3>2, <3>5 DEF CachesGood, SummaryRight, KeyRight, Keys
      <3>7. \A q \in Queues : doc'[q].st = doc[q].st /\ (Open(q)' => Open(q))
        BY <3>2 DEF Open
      <3>8. \A q \in Queues : detail'[q] # NoCache => doc'[q].st # "none"
        BY <3>1, <3>2 DEF IInv, DetailsKnown
      <3> QED
        BY <3>1, <3>3, <3>4, <3>6, <3>7, <3>8, Quiet
    <2>2. CASE ~resetDue
      <3>1. StoreTypes'
        BY <1>2, <2>2 DEF CheckQuota, IInv, StoreTypes
      <3>2. CASE Jump(s, "unlock")
        BY <1>2, <2>2, <3>1, <3>2, GivesUp DEF CheckQuota
      <3>3. CASE Continue(s)
        BY <1>2, <2>2, <3>1, <3>3, Goes DEF CheckQuota, Continue
      <3> QED
        BY <1>2, <2>2, <3>2, <3>3 DEF CheckQuota
    <2> QED
      BY <2>1, <2>2 DEF IInv, StoreTypes
  <1>3. CASE GenerateCode(s)
    <2>1. req[s].op = "create" /\ req[s].qs \subseteq Queues
      BY <1>3, AtCreate DEF GenerateCode, Request
    <2>2. CASE \E c \in Codes, q \in req[s].qs :
                 /\ key' = [key EXCEPT ![c] = q]
                 /\ ContinueAs(s, [req[s] EXCEPT !.code = c])
      <3>1. PICK c \in Codes, q \in req[s].qs :
                 /\ key' = [key EXCEPT ![c] = q]
                 /\ ContinueAs(s, [req[s] EXCEPT !.code = c])
        BY <2>2
      <3> DEFINE r == [req[s] EXCEPT !.code = c]
      <3>2. Like(req[s], r)
        BY DEF Like, Request
      <3>3. StoreTypes'
        BY <1>3, <2>1, <3>1 DEF GenerateCode, IInv, StoreTypes
      <3>4. ContinueAs(s, r)
        BY <3>1
      <3> HIDE DEF r
      <3> QED
        BY <1>3, <3>2, <3>3, <3>4, Goes DEF GenerateCode
    <2>3. CASE Jump(s, "unlock") /\ UNCHANGED key
      <3>1. StoreTypes'
        BY <1>3, <2>3 DEF GenerateCode, IInv, StoreTypes
      <3> QED
        BY <1>3, <2>3, <3>1, GivesUp DEF GenerateCode
    <2> QED
      BY <1>3, <2>2, <2>3 DEF GenerateCode
  <1>4. CASE InsertCollides(s)
    <2>1. StoreTypes'
      BY <1>4 DEF InsertCollides, IInv, StoreTypes
    <2>2. CASE Jump(s, "unlock")
      BY <1>4, <2>1, <2>2, GivesUp DEF InsertCollides
    <2>3. CASE /\ req[s].tries + 1 < MaxCollisions
               /\ req' = [req EXCEPT ![s].pc = Index("create", "code"), ![s].tries = @ + 1]
      <3> DEFINE n == req[s].tries + 1
                 r == [req[s] EXCEPT !.pc = 4, !.tries = n]
      <3>1. req' = [req EXCEPT ![s] = r]
        BY <2>3, Jumps DEF IInv, RequestTypes
      <3>2. req[s].op = "create" /\ req[s].pc = 5
        BY <1>4, AtCreate DEF InsertCollides
      <3>3. n \in 0..(MaxCollisions - 1)
        BY <2>3, HostQueuesAssumption DEF Request
      <3> HIDE DEF n
      <3>4. /\ r \in Request /\ r.op = "create" /\ r.pc = 4 /\ r.qs = req[s].qs
            /\ r.blind = req[s].blind
        <4>1. [req[s] EXCEPT !.pc = 4] \in Request
          BY DEF Request
        <4> QED
          BY <3>2, <3>3, <4>1 DEF Request
      <3> HIDE DEF r
      <3>5. Proper(r)
        BY <3>4, Lengths DEF Proper
      <3>6. Command(r) # "docs"
        BY <3>4, <3>5, AtChange
      <3>7. Follows(req[s], r)
        BY <3>2, <3>4, <3>5, <3>6 DEF Follows, Creating, Checked
      <3>8. KeepsDrops(req[s], r)
        BY <3>2 DEF KeepsDrops, DropsSummary, DropsKey, Changed, Changes
      <3> QED
        BY <1>4, <2>1, <3>1, <3>7, <3>8, Apart DEF InsertCollides
    <2> QED
      BY <1>4, <2>2, <2>3 DEF InsertCollides
  <1>5. CASE IncrementCount(s)
    <2>1. StoreTypes'
      BY <1>5 DEF IncrementCount, IInv, StoreTypes
    <2> QED
      BY <1>5, <2>1, Goes DEF IncrementCount, Continue
  <1> QED
    BY <1>1, <1>2, <1>3, <1>4, <1>5

\* The position of a creation that goes on.
LEMMA NextCreate ==
    ASSUME IInv, NEW s \in Slots, req[s].op = "create", req[s].pc # 11, Continue(s)
    PROVE  \E r : /\ Proper(r) /\ r.op = "create" /\ r.pc = req[s].pc + 1
                  /\ r.qs = req[s].qs /\ r.blind = req[s].blind
                  /\ Command(r) # "docs" /\ req' = [req EXCEPT ![s] = r]
  <1> DEFINE r == Onward(req[s])
  <1>1. Len(Steps["create"]) = 11
    BY DEF Steps, CreateSteps
  <1>2. req[s].pc # Len(Steps[req[s].op])
    BY <1>1
  <1>3. Onward(req[s]) = [req[s] EXCEPT !.pc = req[s].pc + 1]
    BY <1>2 DEF Onward
  <1>4. /\ Proper(r) /\ r.op = "create" /\ r.pc = req[s].pc + 1
        /\ r.qs = req[s].qs /\ r.blind = req[s].blind
    BY <1>2, <1>3, SlotTypes, OnwardIs
  <1>5. req' = [req EXCEPT ![s] = r]
    BY DEF Continue, ContinueAs
  <1> HIDE DEF r
  <1>6. Command(r) # "docs"
    BY <1>4, AtChange
  <1> QED
    BY <1>4, <1>5, <1>6

\* A creation keeps no invalidation of others waiting.
LEMMA CreateDropsNothing ==
    ASSUME NEW r, r.op = "create"
    PROVE  ~DropsSummary(r) /\ \A x \in Keys : ~DropsKey(r, x)
  BY DEF DropsSummary, DropsKey, Changed, Changes

\* A creation that takes its lock, or ends.
LEMMA LockStep ==
    ASSUME IInv, NEW s \in Slots, NEW r, Proper(r), req' = [req EXCEPT ![s] = r],
           Command(r) # "docs", req[s].op = "create",
           r.op # "detail", r.op = "create" => r.qs = req[s].qs /\ req[s].pc <= 5,
           ~Checked(r), LockOwned',
           \A t \in Slots : t # s /\ t \notin lapsed' => t \notin lapsed,
           StoreTypes', UNCHANGED <<doc, entries, cache, detail, stray>>, stale => stale'
    PROVE  IInv'
  <1>1. NoneOpen' /\ OneOpen'
    BY OpenKept DEF Open
  <1>2. EntriesRemoved' /\ NoOrphans'
    BY OrphansKept DEF Gone
  <1>3. CreatesOwn' /\ DetailsKnown'
    BY NewKept DEF IInv, CreatesOwn, DetailsKnown
  <1>4. SummaryDropped' /\ KeysDropped'
    BY CachesKept, CreateDropsNothing DEF SummaryRight, KeyRight, InState
  <1> QED
    BY <1>1, <1>2, <1>3, <1>4, SlotChanged DEF IInv

\* A creation that ends, and whose lapse is forgotten.
LEMMA CreateEnds ==
    ASSUME IInv, NEW s \in Slots, Finish(s), req[s].op = "create",
           \A t \in Slots : t # s => (lock = t => lock' = t),
           lapsed' = lapsed \ {s},
           StoreTypes', UNCHANGED <<doc, entries, cache, detail, stray>>, stale => stale'
    PROVE  IInv'
  <1>1. /\ req' = [req EXCEPT ![s] = Idle] /\ Proper(Idle) /\ Command(Idle) # "docs"
        /\ Idle.op = "none"
    BY IdleProper DEF Finish, Idle
  <1>2. ~Checked(Idle) /\ ~Creating(Idle)
    BY <1>1 DEF Checked, Creating
  <1> HIDE DEF Idle
  <1>3. LockOwned'
    BY <1>1, <1>2, LockKept
  <1> QED
    BY <1>1, <1>2, <1>3, LockStep

\* A creation that takes its lock preserves the invariant: the lock was free.
LEMMA CreateLocks ==
    ASSUME IInv, NEW s \in Slots, AcquireLock(s) \/ ReleaseLock(s)
    PROVE  IInv'
  <1> USE SlotTypes DEF At, mongo, redis, history
  <1>1. StoreTypes' /\ UNCHANGED <<mongo, key, cache, detail, scenario, turns, stray, drift, stale>>
    BY DEF AcquireLock, ReleaseLock, IInv, StoreTypes
  <1>3. CASE AcquireLock(s)
    <2>1. req[s].op = "create" /\ req[s].pc = 1
      BY <1>3, AtCreate DEF AcquireLock
    <2>2. CASE lock = NoSlot
      <3>1. PICK r : /\ Proper(r) /\ r.op = "create" /\ r.pc = 2
                     /\ r.qs = req[s].qs /\ Command(r) # "docs" /\ req' = [req EXCEPT ![s] = r]
        BY <1>3, <2>1, <2>2, NextCreate DEF AcquireLock
      <3>2. \A t \in Slots : lock # t
        BY <2>2, HostQueuesAssumption
      <3>3. LockOwned'
        BY <1>3, <2>2, <3>1, <3>2, LockKept DEF AcquireLock
      <3>4. ~Checked(r)
        BY <3>1 DEF Checked
      <3>5. lapsed' = lapsed
        BY <1>3 DEF AcquireLock
      <3>6. req[s].pc <= 5 /\ r.op # "detail"
        BY <2>1, <3>1
      <3> QED
        BY <1>1, <2>1, <3>1, <3>3, <3>4, <3>5, <3>6, LockStep
    <2>3. CASE Finish(s) /\ UNCHANGED lock
      BY <1>1, <1>3, <2>1, <2>3, Ends DEF AcquireLock, Changed, Changes
    <2> QED
      BY <1>3, <2>2, <2>3 DEF AcquireLock
  <1>4. CASE ReleaseLock(s)
    <2>1. req[s].op = "create"
      BY <1>4, AtCreate DEF ReleaseLock
    <2> QED
      BY <1>1, <1>4, <2>1, CreateEnds DEF ReleaseLock
  <1> QED
    BY <1>3, <1>4

\* The new queue is the only open one, if the lock and the check have held.
LEMMA CreateInserts ==
    ASSUME IInv, NEW s \in Slots, InsertQueue(s)
    PROVE  IInv'
  <1> USE SlotTypes DEF At, mongo, redis, history
  <1>1. req[s].op = "create" /\ req[s].pc = 5 /\ req[s].qs \subseteq Queues
    BY AtCreate DEF InsertQueue, Request
  <1>2. PICK q \in req[s].qs :
            doc' = [doc EXCEPT ![q] = [NoDoc EXCEPT !.st = "live", !.code = req[s].code,
                       !.fresh = TRUE, !.unchecked = s \in lapsed \/ req[s].blind]]
    BY DEF InsertQueue
  <1>3. PICK r : /\ Proper(r) /\ r.op = "create" /\ r.pc = 6
                 /\ r.qs = req[s].qs /\ Command(r) # "docs" /\ req' = [req EXCEPT ![s] = r]
    BY <1>1, NextCreate DEF InsertQueue
  <1> DEFINE d == [NoDoc EXCEPT !.st = "live", !.code = req[s].code,
                       !.fresh = TRUE, !.unchecked = s \in lapsed \/ req[s].blind]
  <1>4. /\ d \in Doc /\ d.st = "live"
        /\ ~d.unchecked => s \notin lapsed /\ ~req[s].blind
    BY DEF NoDoc, Doc, Status, Request
  <1>5. doc' = [doc EXCEPT ![q] = d] /\ q \in Queues
    BY <1>1, <1>2
  <1> HIDE DEF d
  <1>6. /\ doc' \in [Queues -> Doc] /\ doc'[q] = d
        /\ \A p \in Queues : p # q => doc'[p] = doc[p]
    BY <1>4, <1>5 DEF IInv, StoreTypes
  <1>7. StoreTypes'
    BY <1>6 DEF InsertQueue, IInv, StoreTypes
  <1>8. doc[q].st = "none" /\ detail[q] = NoCache
    BY <1>1, <1>5 DEF IInv, CreatesOwn, DetailsKnown
  <1>9. UNCHANGED <<entries, count, resetDue, redis, history>>
    BY DEF InsertQueue
  <1>0. ~Checked(r) /\ ~(r.pc <= 5) /\ r.op # "detail" /\ lapsed' = lapsed
    BY <1>3, <1>9 DEF Checked
  <1>10. LockOwned'
    BY <1>1, <1>3, <1>9, LockKept DEF IInv, LockOwned, Creating
  <1>11. NoneOpen' /\ OneOpen'
    <2>1. CASE d.unchecked
      <3>1. \A p \in Queues : Open(p)' => Open(p)
        BY <1>6, <2>1 DEF Open
      <3> QED
        BY <1>0, <1>3, <3>1, OpenKept
    <2>2. CASE ~d.unchecked
      <3>1. s \notin lapsed /\ Checked(req[s]) /\ Creating(req[s])
        BY <1>1, <1>4, <2>2 DEF Checked, Creating
      <3>2. lock = s /\ \A p \in Queues : ~Open(p)
        BY <3>1 DEF IInv, LockOwned, NoneOpen
      <3>3. \A p \in Queues : Open(p)' => p = q
        BY <1>6, <3>2 DEF Open
      <3>4. OneOpen'
        BY <3>3 DEF OneOpen, Open
      <3>5. ASSUME NEW t \in Slots, t # s, t \notin lapsed
            PROVE  ~Checked(req[t])
        BY <3>2, <3>5 DEF IInv, LockOwned, Checked, Creating
      <3>6. NoneOpen'
        <4>1. \A t \in Slots : t \notin lapsed => ~Checked(req'[t])
          <5>1. req'[s] = r /\ \A t \in Slots : t # s => req'[t] = req[t]
            BY <1>3, SlotChanged
          <5> QED
            BY <1>0, <3>5, <5>1
        <4> QED
          BY <1>0, <4>1 DEF NoneOpen, Checked
      <3> QED
        BY <3>4, <3>6
    <2> QED
      BY <2>1, <2>2
  <1>12. EntriesRemoved' /\ NoOrphans'
    <2>1. \A p \in entries' \ stray' : p \in entries \ stray /\ (Gone(p)' => Gone(p))
      BY <1>4, <1>6, <1>9 DEF Gone, IInv, StoreTypes
    <2> QED
      BY <1>3, <2>1, OrphansKept
  <1>13. CreatesOwn' /\ DetailsKnown'
    <2>1. \A p \in Queues :
              /\ doc'[p].st = "none" => doc[p].st = "none"
              /\ doc[p].st = "none" => doc'[p].st = "none"
                                         \/ (req[s].op = "create" /\ p \in req[s].qs)
              /\ doc'[p].st = "none" => detail'[p] = NoCache
      BY <1>1, <1>4, <1>6, <1>9 DEF IInv, DetailsKnown
    <2> QED
      BY <1>0, <1>1, <1>3, <2>1, NewKept
  <1>14. SummaryDropped' /\ KeysDropped'
    <2>1. InState("ended")' = InState("ended")
      BY <1>4, <1>6, <1>8 DEF InState
    <2>2. SummaryRight => SummaryRight'
      BY <1>9, <2>1 DEF SummaryRight
    <2>3. \A x \in Keys : KeyRight(x) => KeyRight(x)'
      BY <1>6, <1>8, <1>9, <2>1 DEF KeyRight, Keys
    <2> QED
      BY <1>1, <1>3, <1>9, <2>2, <2>3, CachesKept, CreateDropsNothing
  <1> QED
    BY <1>3, <1>7, <1>10, <1>11, <1>12, <1>13, <1>14, SlotChanged DEF IInv
-----------------------------------------------------------------------------
(* Ending and deleting queues *)

\* A request that has just changed the queues, with its invalidations before it.
LEMMA Changing ==
    ASSUME IInv, NEW s \in Slots, NEW r, Follows(req[s], r), req' = [req EXCEPT ![s] = r],
           r.op \notin {"create", "detail"},
           StoreTypes', UNCHANGED <<lock, lapsed, detail>>, stale => stale',
           \A q \in Queues : (doc'[q].st = "none" <=> doc[q].st = "none") /\ (Open(q)' => Open(q)),
           EntriesRemoved', NoOrphans',
           DropsSummary(r), \A x \in Keys : DropsKey(r, x)
    PROVE  IInv'
  <1>1. Proper(r) /\ RequestTypes'
    BY SlotChanged DEF Follows
  <1>2. LockOwned'
    BY <1>1, LockKept DEF Follows, IInv, LockOwned
  <1>3. NoneOpen' /\ OneOpen'
    BY <1>1, OpenKept DEF Follows, IInv, NoneOpen
  <1>4. CreatesOwn' /\ DetailsKnown'
    BY <1>1, NewKept DEF IInv, DetailsKnown
  <1>5. SummaryDropped' /\ KeysDropped'
    BY <1>1, CachesKept
  <1> QED
    BY <1>1, <1>2, <1>3, <1>4, <1>5 DEF IInv

\* The request after it has changed the queues.
LEMMA NextChange ==
    ASSUME IInv, NEW s \in Slots, Continue(s), Step(s) \in {"end", "docs"}
    PROVE  \E r : /\ Follows(req[s], r) /\ req' = [req EXCEPT ![s] = r]
                  /\ r.op \notin {"create", "detail"}
                  /\ DropsSummary(r) /\ \A x \in Keys : DropsKey(r, x)
  <1> USE SlotTypes
  <1> DEFINE o == req[s]
             r == Onward(o)
  <1>1. \/ o.op \in {"end", "sweep"} /\ o.pc = 1 /\ Len(Steps[o.op]) = 6
        \/ o.op \in {"delete", "deleteBulk"} /\ o.pc = 3 /\ Len(Steps[o.op]) = 10
        \/ o.op = "clear" /\ o.pc = 3 /\ Len(Steps[o.op]) = 11
    <2>1. /\ Len(Steps["end"]) = 6 /\ Len(Steps["sweep"]) = 6 /\ Len(Steps["clear"]) = 11
          /\ Len(Steps["delete"]) = 10 /\ Len(Steps["deleteBulk"]) = 10
      BY DEF Steps, DeleteSteps, ClearSteps
    <2> QED
      BY <2>1, AtChange
  <1>2. o.pc # Len(Steps[o.op])
    <2>1. \A i, n \in Int : (i = 1 /\ n = 6) \/ (i = 3 /\ n = 10) \/ (i = 3 /\ n = 11) => i # n
      OBVIOUS
    <2>2. o.pc \in Int /\ Len(Steps[o.op]) \in Int
      BY <1>1
    <2>3. \/ o.pc = 1 /\ Len(Steps[o.op]) = 6
          \/ o.pc = 3 /\ Len(Steps[o.op]) = 10
          \/ o.pc = 3 /\ Len(Steps[o.op]) = 11
      BY <1>1, Zenon
    <2> QED
      BY <2>1, <2>2, <2>3, Zenon
  <1>3. r = [o EXCEPT !.pc = o.pc + 1]
    BY <1>2 DEF Onward
  <1>4. Proper(r) /\ r.op = o.op /\ r.pc = o.pc + 1
    BY <1>2, <1>3, OnwardIs DEF Proper, Request
  <1>5. Follows(o, r) /\ req' = [req EXCEPT ![s] = r]
    BY LikeItself, OnwardFollows DEF Continue, ContinueAs
  <1> HIDE DEF r
  <1>6. /\ r.op \notin {"create", "detail"} /\ Changed(r)
        /\ r.pc <= SummaryStep[r.op] /\ r.pc <= KeysStep[r.op]
    BY <1>1, <1>4 DEF Changed, Changes, SummaryStep, KeysStep
  <1> QED
    BY <1>5, <1>6 DEF DropsSummary, DropsKey

\* Ending a queue (EndQueue, the sweeper) preserves the invariant: its invalidations are still before it.
LEMMA EndInv ==
    ASSUME IInv, NEW s \in Slots, EndQueue(s)
    PROVE  IInv'
  <1> USE SlotTypes DEF At, mongo, redis, history
  <1>1. /\ doc' \in [Queues -> Doc]
        /\ \A q \in Queues : \/ doc'[q] = doc[q]
                             \/ Stored(q) /\ doc'[q] = [doc[q] EXCEPT !.st = "ended"]
    BY DEF EndQueue, IInv, StoreTypes, Doc, Status
  <1>2. \A q \in Queues : /\ doc'[q].st = "none" <=> doc[q].st = "none"
                          /\ Open(q)' => Open(q)
                          /\ Gone(q)' => Gone(q)
    BY <1>1 DEF Open, Gone, Stored, IInv, StoreTypes, Doc
  <1>3. PICK r : /\ Follows(req[s], r) /\ req' = [req EXCEPT ![s] = r]
                 /\ r.op \notin {"create", "detail"}
                 /\ DropsSummary(r) /\ \A x \in Keys : DropsKey(r, x)
    BY NextChange DEF EndQueue
  <1>4. StoreTypes'
    BY <1>1 DEF EndQueue, IInv, StoreTypes
  <1>5. UNCHANGED <<entries, detail, lock, lapsed, stray, stale>>
    BY DEF EndQueue
  <1>6. EntriesRemoved' /\ NoOrphans'
    <2>1. \A q \in entries' \ stray' : q \in entries \ stray /\ (Gone(q)' => Gone(q))
      BY <1>2, <1>5 DEF IInv, StoreTypes
    <2> QED
      BY <1>3, <2>1, OrphansKept DEF Follows
  <1> QED
    BY <1>2, <1>3, <1>4, <1>5, <1>6, Changing

\* The documents go when their entries have gone, or are known to stray.
LEMMA DeleteQueuesInv ==
    ASSUME IInv, NEW s \in Slots, DeleteQueues(s)
    PROVE  IInv'
  <1> USE SlotTypes DEF At, mongo, redis, history
  <1> DEFINE all == req[s].op = "clear"
             qs == {q \in Queues : Stored(q) /\ (all \/ q \in req[s].qs)}
  <1>1. /\ doc' = [q \in Queues |-> IF q \in qs
                        THEN [doc[q] EXCEPT !.st = "gone", !.freed = ~all] ELSE doc[q]]
        /\ stray' = stray \cup (qs \ req[s].qs)
        /\ drift' = (drift \/ (~all /\ qs # req[s].qs))
        /\ Continue(s)
        /\ UNCHANGED <<entries, count, resetDue, redis, scenario, turns, lapsed, stale>>
    BY DEF DeleteQueues
  <1>2. /\ doc' \in [Queues -> Doc]
        /\ \A q \in Queues : doc'[q] = doc[q] \/ (q \in qs /\ Stored(q) /\ doc'[q].st = "gone")
    <2> DEFINE f == ~all
               d(q) == [doc[q] EXCEPT !.st = "gone", !.freed = f]
    <2>1. doc' = [q \in Queues |-> IF q \in qs THEN d(q) ELSE doc[q]]
      BY <1>1
    <2>2. f \in BOOLEAN
      OBVIOUS
    <2> HIDE DEF f
    <2>3. ASSUME NEW q \in Queues PROVE d(q) \in Doc /\ d(q).st = "gone" /\ doc[q] \in Doc
      <3>1. doc[q] \in Doc
        BY DEF IInv, StoreTypes
      <3> QED
        BY <2>2, <3>1 DEF Doc, Status
    <2>4. qs = {q \in Queues : Stored(q) /\ (all \/ q \in req[s].qs)}
      OBVIOUS
    <2> HIDE DEF d, qs
    <2>5. doc' \in [Queues -> Doc]
      BY <2>1, <2>3
    <2>6. \A q \in Queues : doc'[q] = doc[q] \/ (q \in qs /\ doc'[q].st = "gone")
      <3> SUFFICES ASSUME NEW q \in Queues
                   PROVE  doc'[q] = doc[q] \/ (q \in qs /\ doc'[q].st = "gone")
        OBVIOUS
      <3>1. doc'[q] = IF q \in qs THEN d(q) ELSE doc[q]
        BY <2>1, Zenon
      <3> QED
        BY <2>3, <3>1, Zenon
    <2>7. \A q \in qs : q \in Queues /\ Stored(q)
      BY <2>4, Zenon
    <2> QED
      BY <2>5, <2>6, <2>7, Zenon
  <1>3. \A q \in Queues : /\ doc'[q].st = "none" <=> doc[q].st = "none"
                          /\ Open(q)' => Open(q)
    BY <1>2 DEF Open, Stored
  <1>4. PICK r : /\ Follows(req[s], r) /\ req' = [req EXCEPT ![s] = r]
                 /\ r.op \notin {"create", "detail"}
                 /\ DropsSummary(r) /\ \A x \in Keys : DropsKey(r, x)
    BY <1>1, NextChange DEF DeleteQueues
  <1>5. StoreTypes'
    <2>1. qs \subseteq Queues
      OBVIOUS
    <2>2. drift' \in BOOLEAN
      BY <1>1
    <2> HIDE DEF qs
    <2> QED
      BY <1>1, <1>2, <2>1, <2>2 DEF IInv, StoreTypes
  <1>6. EntriesRemoved' /\ NoOrphans'
    <2>1. entries \cap req[s].qs \subseteq stray
      BY DEF DeleteQueues, IInv, EntriesRemoved
    <2>2. \A q \in entries' \ stray' : q \in entries \ stray /\ (Gone(q)' => Gone(q))
      BY <1>1, <1>2, <2>1 DEF Gone, IInv, StoreTypes
    <2> QED
      BY <1>4, <2>2, OrphansKept DEF Follows
  <1> QED
    BY <1>1, <1>3, <1>4, <1>5, <1>6, Changing

\* The entries go first.
LEMMA DeleteEntriesInv ==
    ASSUME IInv, NEW s \in Slots, DeleteEntries(s)
    PROVE  IInv'
  <1> USE SlotTypes DEF At, mongo, redis, history
  <1> DEFINE o == req[s]
             r == Onward(o)
  <1>1. o.op \in {"delete", "deleteBulk", "clear"} /\ o.pc = 2
    BY AtChange DEF DeleteEntries
  <1>2. Proper(r) /\ r.op \notin {"create", "detail"} /\ r.qs \in {{}, o.qs}
    <2>1. r = Idle \/ (r.op = o.op /\ r.qs = o.qs)
      BY OnwardIs
    <2> QED
      BY <1>1, <2>1, OnwardIs DEF Idle
  <1>3. KeepsDrops(o, r)
    BY LikeItself, OnwardKeepsDrops DEF DeleteEntries
  <1>4. req' = [req EXCEPT ![s] = r]
    BY DEF DeleteEntries, Continue, ContinueAs
  <1> HIDE DEF r
  <1>5. UNCHANGED <<doc, redis, history>> /\ entries' = entries \ o.qs
    BY DEF DeleteEntries
  <1>6. StoreTypes'
    BY DEF DeleteEntries, IInv, StoreTypes
  <1>7. ~Creating(r) /\ ~Checked(r)
    BY <1>2 DEF Creating, Checked
  <1>8. LockOwned'
    BY <1>2, <1>4, <1>5, <1>7, LockKept
  <1>9. NoneOpen' /\ OneOpen'
    BY <1>2, <1>4, <1>5, <1>7, OpenKept DEF Open
  <1>10. EntriesRemoved' /\ NoOrphans'
    <2>1. entries' \cap r.qs \subseteq stray'
      BY <1>2, <1>5
    <2>2. \A q \in entries' \ stray' : q \in entries \ stray /\ (Gone(q)' => Gone(q))
      BY <1>5 DEF Gone
    <2> QED
      BY <1>2, <1>4, <2>1, <2>2, OrphansKept
  <1>11. CreatesOwn' /\ DetailsKnown'
    BY <1>2, <1>4, <1>5, NewKept DEF IInv, DetailsKnown
  <1>12. SummaryDropped' /\ KeysDropped'
    <2>1. SummaryRight' = SummaryRight /\ \A x \in Keys : KeyRight(x)' = KeyRight(x)
      BY <1>5 DEF SummaryRight, KeyRight, InState
    <2> QED
      BY <1>2, <1>3, <1>4, <1>5, <2>1, CachesKept DEF KeepsDrops
  <1> QED
    BY <1>2, <1>4, <1>6, <1>8, <1>9, <1>10, <1>11, <1>12, SlotChanged DEF IInv

\* Reading the queues a deletion is about preserves the invariant.
LEMMA FindQueuesInv ==
    ASSUME IInv, NEW s \in Slots, FindQueues(s)
    PROVE  IInv'
  <1> USE SlotTypes DEF At, mongo, redis, history
  <1>1. req[s].op \in {"delete", "deleteBulk", "clear"} /\ req[s].pc = 1
    BY AtChange DEF FindQueues
  <1>2. StoreTypes' /\ UNCHANGED <<mongo, redis, history>>
    BY DEF FindQueues, IInv, StoreTypes
  <1>3. ~Changed(req[s])
    BY <1>1 DEF Changed
  <1>4. CASE Finish(s)
    BY <1>2, <1>3, <1>4, Ends
  <1>5. CASE Jump(s, "keys") /\ req[s].op = "deleteBulk"
    <2> DEFINE r == [req[s] EXCEPT !.pc = 8]
    <2>1. req' = [req EXCEPT ![s] = r]
      BY <1>5, Jumps DEF Jump, IInv, RequestTypes
    <2>2. r \in Request /\ r.op = "deleteBulk" /\ r.pc = 8
      BY <1>5 DEF Request
    <2> HIDE DEF r
    <2>3. Proper(r)
      BY <2>2, Lengths DEF Proper
    <2>4. Command(r) # "docs"
      BY <2>2, <2>3, AtChange
    <2>5. Follows(req[s], r)
      BY <2>2, <2>3, <2>4 DEF Follows, Creating, Checked
    <2>6. KeepsDrops(req[s], r)
      BY <1>3 DEF KeepsDrops, DropsSummary, DropsKey
    <2> QED
      BY <1>2, <2>1, <2>5, <2>6, Apart
  <1>6. ASSUME NEW qs \in SUBSET Queues,
               ContinueAs(s, [req[s] EXCEPT !.qs = qs, !.live = qs \cap InState("live")])
        PROVE  IInv'
    <2> DEFINE l == qs \cap InState("live")
               r == [req[s] EXCEPT !.qs = qs, !.live = l]
    <2>1. ContinueAs(s, r)
      BY <1>6
    <2>2. l \in SUBSET Queues
      OBVIOUS
    <2> HIDE DEF l
    <2>3. Like(req[s], r)
      <3>1. req[s] \in Request
        BY SlotTypes
      <3>2. r = [req[s] EXCEPT !.qs = qs, !.live = l]
        OBVIOUS
      <3> HIDE SlotTypes DEF r
      <3>3. r \in Request /\ r.op = req[s].op /\ r.pc = req[s].pc /\ r.blind = req[s].blind
        BY <2>2, <3>1, <3>2 DEF Request
      <3> QED
        BY <1>1, <3>3 DEF Like
    <2> HIDE DEF r
    <2> QED
      BY <1>2, <2>1, <2>3, Goes DEF FindQueues
  <1> DEFINE asked == IF req[s].op = "clear" THEN Queues ELSE req[s].qs
             qs == {q \in asked : Stored(q)}
  <1>7. \/ req[s].op = "delete" /\ Finish(s)
        \/ req[s].op # "clear" /\ req[s].op # "delete" /\ Jump(s, "keys")
        \/ ContinueAs(s, [req[s] EXCEPT !.qs = qs, !.live = qs \cap InState("live")])
    BY DEF FindQueues
  <1>8. qs \subseteq Queues
    BY DEF Request
  <1> HIDE DEF qs
  <1> QED
    BY <1>1, <1>4, <1>5, <1>6, <1>7, <1>8

\* What else an end, a sweep or a deletion does to the store.
LEMMA DeleteRest ==
    ASSUME IInv, NEW s \in Slots,
           \/ ReleaseCodes(s) \/ CleanExpired(s) \/ ReadHost(s) \/ DecrementCount(s)
           \/ FindOrphans(s) \/ PurgeOrphans(s)
    PROVE  IInv'
  <1> USE SlotTypes, LikeItself DEF At, mongo, redis, history
  <1>1. CASE ReleaseCodes(s)
    <2>1. StoreTypes'
      <3> DEFINE free == {doc[q].code : q \in req[s].live}
      <3>1. key' = [c \in Codes |-> IF c \in free THEN NoQueue ELSE key[c]]
        BY <1>1 DEF ReleaseCodes
      <3> HIDE DEF free
      <3>2. key' \in [Codes -> Queues \cup {NoQueue, LostQueue}]
        BY <3>1 DEF IInv, StoreTypes
      <3> QED
        BY <1>1, <3>2 DEF ReleaseCodes, IInv, StoreTypes
    <2> QED
      BY <1>1, <2>1, Goes DEF ReleaseCodes, Continue
  <1>2. CASE CleanExpired(s)
    <2>1. StoreTypes'
      BY <1>2 DEF CleanExpired, IInv, StoreTypes
    <2> QED
      BY <1>2, <2>1, Goes DEF CleanExpired, Continue
  <1>3. CASE ReadHost(s)
    <2> DEFINE new == Cardinality({q \in req[s].qs : doc[q].fresh})
               n == Min({new, Max({count, 0})})
               r == [req[s] EXCEPT !.less = n]
    <2>1. n \in Nat
      <3>1. IsFiniteSet({q \in req[s].qs : doc[q].fresh})
        <4>1. {q \in req[s].qs : doc[q].fresh} \subseteq Queues
          BY DEF Request
        <4> QED
          BY <4>1, HostQueuesAssumption, FS_Subset
      <3>2. new \in Nat
        BY <3>1, FS_CardinalityType
      <3> HIDE DEF new
      <3>3. count \in Int
        BY DEF IInv, StoreTypes
      <3>4. Max({count, 0}) \in Nat
        <4>1. \E m \in {count, 0} : \A k \in {count, 0} : m >= k
          BY <3>3
        <4> QED
          BY <3>3, <4>1 DEF Max
      <3> DEFINE m == Max({count, 0})
      <3>5. m \in Nat
        BY <3>4
      <3> HIDE DEF m
      <3>6. \E k \in {new, m} : \A j \in {new, m} : k <= j
        BY <3>2, <3>5
      <3>7. Min({new, m}) \in {new, m}
        BY <3>6 DEF Min
      <3> QED
        BY <3>2, <3>5, <3>7 DEF m
    <2>2. drift' \in BOOLEAN
      BY <1>3 DEF ReadHost
    <2>3. StoreTypes'
      BY <1>3, <2>2 DEF ReadHost, IInv, StoreTypes
    <2>4. ContinueAs(s, r)
      BY <1>3 DEF ReadHost
    <2> HIDE DEF n
    <2>5. Like(req[s], r)
      BY <2>1 DEF Like, Request
    <2> HIDE DEF r
    <2> QED
      BY <1>3, <2>3, <2>4, <2>5, Goes DEF ReadHost
  <1>4. CASE DecrementCount(s)
    <2>1. count' \in Int
      BY <1>4 DEF DecrementCount, IInv, StoreTypes, Request
    <2>2. StoreTypes'
      BY <1>4, <2>1 DEF DecrementCount, IInv, StoreTypes
    <2> QED
      BY <1>4, <2>2, Goes DEF DecrementCount, Continue
  <1>5. CASE FindOrphans(s)
    <2> DEFINE f == {q \in entries : ~Stored(q)}
               r == [req[s] EXCEPT !.found = f]
    <2>1. f \subseteq Queues
      BY DEF IInv, StoreTypes
    <2>2. ContinueAs(s, r)
      BY <1>5 DEF FindOrphans
    <2> HIDE DEF f
    <2>3. Like(req[s], r)
      BY <2>1 DEF Like, Request
    <2>4. StoreTypes'
      BY <1>5 DEF FindOrphans, IInv, StoreTypes
    <2> HIDE DEF r
    <2> QED
      BY <1>5, <2>2, <2>3, <2>4, Goes DEF FindOrphans
  <1>6. CASE PurgeOrphans(s)
    <2>1. StoreTypes'
      BY <1>6 DEF PurgeOrphans, IInv, StoreTypes
    <2> QED
      BY <1>6, <2>1, Goes DEF PurgeOrphans, Continue
  <1> QED
    BY <1>1, <1>2, <1>3, <1>4, <1>5, <1>6
-----------------------------------------------------------------------------
(* The caches *)

\* A command of an invalidation, or one that fills a cache, goes on.
LEMMA CacheStep ==
    ASSUME IInv, NEW s \in Slots, NEW r, Like(req[s], r), ContinueAs(s, r),
           Step(s) \notin {"lock", "active", "entries"},
           StoreTypes', UNCHANGED <<doc, entries, lock, lapsed, stray>>, stale => stale',
           \A q \in Queues : detail'[q] # NoCache => doc[q].st # "none",
           ~stale' /\ (SummaryRight \/ DropsSummary(req[s]))
             => SummaryRight' \/ DropsSummary(Onward(r)),
           \A x \in Keys : ~stale' /\ (KeyRight(x) \/ DropsKey(req[s], x))
                             => KeyRight(x)' \/ DropsKey(Onward(r), x)
    PROVE  IInv'
  <1> DEFINE n == Onward(r)
  <1>1. Follows(req[s], n)
    BY SlotTypes, OnwardFollows
  <1>2. req' = [req EXCEPT ![s] = n]
    BY DEF ContinueAs
  <1> HIDE DEF n
  <1>3. Proper(n)
    BY <1>1 DEF Follows
  <1>4. SummaryDropped' /\ KeysDropped'
    BY <1>2, <1>3, CachesKept DEF n
  <1>5. \A q \in Queues : doc'[q].st = doc[q].st /\ (Open(q)' => Open(q))
    BY DEF Open
  <1> QED
    BY <1>1, <1>2, <1>4, <1>5, QuietStep

\* Deleting the summary or the dashboard preserves the invariant.
LEMMA DropInv ==
    ASSUME IInv, NEW s \in Slots, DropViews(s) \/ DropSummary(s)
    PROVE  IInv'
  <1> USE SlotTypes, LikeItself DEF At, mongo, redis, history
  <1>1. StoreTypes' /\ cache'["summary"] = NoCache /\ cache'["list"] = cache["list"]
    BY DEF DropViews, DropSummary, IInv, StoreTypes, Views
  <1>2. /\ UNCHANGED <<doc, entries, lock, lapsed, stray, stale, detail>>
        /\ ContinueAs(s, req[s]) /\ Step(s) \in {"drop", "summary"}
    BY DEF DropViews, DropSummary, Continue
  <1>3. SummaryRight'
    BY <1>1 DEF SummaryRight
  <1>4. \A x \in Keys : KeyRight(x)' = KeyRight(x)
    BY <1>1, <1>2 DEF KeyRight, InState
  <1>5. \A x \in Keys : DropsKey(req[s], x) => DropsKey(Onward(req[s]), x)
    BY <1>2, OnwardKeeps
  <1>6. \A q \in Queues : detail'[q] # NoCache => doc[q].st # "none"
    BY <1>2 DEF IInv, DetailsKnown
  <1> QED
    BY <1>1, <1>2, <1>3, <1>4, <1>5, <1>6, CacheStep

\* The keys that are found are those of the caches that are not right.
LEMMA FindKeysInv ==
    ASSUME IInv, NEW s \in Slots, FindKeys(s)
    PROVE  IInv'
  <1> USE SlotTypes DEF At, mongo, redis, history
  <1> DEFINE f == {q \in Queues : detail[q] # NoCache}
                      \cup (IF cache["list"] = NoCache THEN {} ELSE {"list"})
             r == [req[s] EXCEPT !.found = f]
  <1>1. f \subseteq Keys /\ \A x \in Keys : KeyRight(x) \/ x \in f
    BY DEF KeyRight, Keys
  <1>2. ContinueAs(s, r) /\ Step(s) = "keys" /\ UNCHANGED <<mongo, redis, history>>
    BY DEF FindKeys
  <1> HIDE DEF f
  <1>3. Like(req[s], r) /\ r.found = f
    BY <1>1 DEF Like, Request, Keys
  <1>4. StoreTypes'
    BY <1>2 DEF IInv, StoreTypes
  <1> HIDE DEF r
  <1>5. DropsSummary(req[s]) => DropsSummary(Onward(r))
    BY <1>2, <1>3, OnwardKeeps
  <1>6. ASSUME NEW x \in Keys, DropsKey(req[s], x), x \in f
        PROVE  DropsKey(Onward(r), x)
    <2>1. /\ req[s].op \in Changes /\ Changed(req[s]) /\ req[s].pc \in 1..11
          /\ KeysStep[req[s].op] \in 4..9 /\ KeysStep[req[s].op] + 1 \in DOMAIN Steps[req[s].op]
          /\ SummaryStep[req[s].op] \in DOMAIN Steps[req[s].op]
      BY <1>6, AtDrops DEF DropsKey, Changed, Request
    <2>2. req[s].pc <= KeysStep[req[s].op]
      BY <1>2, <1>6, <2>1, AtDrops DEF DropsKey
    <2>3. Onward(r).op = r.op /\ Onward(r).pc = r.pc + 1 /\ Onward(r).found = f
            /\ r.op = req[s].op /\ r.pc = req[s].pc
      <3>1. Proper(r) /\ r.op = req[s].op /\ r.pc = req[s].pc
        BY <1>3 DEF Like, Proper
      <3>2. r.pc # Len(Steps[r.op])
        <4>1. SUFFICES ASSUME r.pc = Len(Steps[r.op]) PROVE FALSE
          OBVIOUS
        <4>2. DOMAIN Steps[req[s].op] = 1..req[s].pc
          BY <3>1, <4>1, Positions DEF Request
        <4> QED
          BY <2>1, <2>2, <4>2
      <3>3. Onward(r) = [r EXCEPT !.pc = r.pc + 1] /\ r \in Request
        BY <1>3, <3>2 DEF Onward, Like
      <3> QED
        BY <1>3, <3>1, <3>3 DEF Request
    <2>4. Changed(Onward(r))
      BY <2>1, <2>3 DEF Changed
    <2> QED
      BY <1>6, <2>1, <2>2, <2>3, <2>4 DEF DropsKey
  <1>7. SummaryRight' = SummaryRight /\ \A x \in Keys : KeyRight(x)' = KeyRight(x)
    BY <1>2 DEF SummaryRight, KeyRight, InState
  <1>8. \A q \in Queues : detail'[q] # NoCache => doc[q].st # "none"
    BY <1>2 DEF IInv, DetailsKnown
  <1> QED
    BY <1>1, <1>2, <1>3, <1>4, <1>5, <1>6, <1>7, <1>8, CacheStep

\* Deleting the keys a scan has found preserves the invariant.
LEMMA DeleteKeysInv ==
    ASSUME IInv, NEW s \in Slots, DeleteKeys(s)
    PROVE  IInv'
  <1> USE SlotTypes, LikeItself DEF At, mongo, redis, history
  <1>1. /\ ContinueAs(s, req[s]) /\ Step(s) = "unkey"
        /\ UNCHANGED <<mongo, key, lock, history>>
        /\ detail' = [q \in Queues |-> IF q \in req[s].found THEN NoCache ELSE detail[q]]
        /\ cache' = IF "list" \in req[s].found THEN [cache EXCEPT !["list"] = NoCache] ELSE cache
    BY DEF DeleteKeys, Continue
  <1>2. detail' \in [Queues -> {NoCache, "live", "ended"}]
    BY <1>1 DEF IInv, StoreTypes
  <1>3. /\ cache' = [v \in Views |-> cache'[v]]
        /\ cache'["summary"] = cache["summary"] /\ cache'["dashboard"] = cache["dashboard"]
        /\ cache'["list"] = IF "list" \in req[s].found THEN NoCache ELSE cache["list"]
    BY <1>1 DEF IInv, StoreTypes, Views
  <1>4. StoreTypes'
    BY <1>1, <1>2, <1>3 DEF IInv, StoreTypes
  <1>5. SummaryRight' = SummaryRight
    BY <1>1, <1>3 DEF SummaryRight, InState
  <1>6. \A x \in Keys : KeyRight(x)' = (x \in req[s].found \/ KeyRight(x))
    <2>1. InState("ended")' = InState("ended")
      BY <1>1 DEF InState
    <2> QED
      BY <1>1, <1>3, <2>1 DEF KeyRight, Keys
  <1>7. DropsSummary(req[s]) => DropsSummary(Onward(req[s]))
    BY <1>1, OnwardKeeps
  <1>8. ASSUME NEW x \in Keys, DropsKey(req[s], x), x \notin req[s].found
        PROVE  DropsKey(Onward(req[s]), x)
    <2>1. /\ req[s].op \in Changes /\ Changed(req[s]) /\ req[s].pc \in 1..11
          /\ KeysStep[req[s].op] \in 4..9 /\ KeysStep[req[s].op] + 1 \in DOMAIN Steps[req[s].op]
      BY <1>8, AtDrops DEF DropsKey, Changed, Request
    <2>2. req[s].pc < KeysStep[req[s].op]
      BY <1>1, <1>8, <2>1, AtDrops DEF DropsKey
    <2>3. req[s].pc # Len(Steps[req[s].op])
      <3>1. SUFFICES ASSUME req[s].pc = Len(Steps[req[s].op]) PROVE FALSE
        OBVIOUS
      <3>2. DOMAIN Steps[req[s].op] = 1..req[s].pc
        BY <3>1, Positions DEF Request
      <3> QED
        BY <2>1, <2>2, <3>2
    <2>4. Onward(req[s]).op = req[s].op /\ Onward(req[s]).pc = req[s].pc + 1
      BY <2>3 DEF Onward, Request
    <2>5. Changed(Onward(req[s]))
      BY <2>1, <2>4 DEF Changed
    <2> QED
      BY <2>1, <2>2, <2>4, <2>5 DEF DropsKey
  <1>9. \A q \in Queues : detail'[q] # NoCache => doc[q].st # "none"
    BY <1>1 DEF IInv, DetailsKnown
  <1> QED
    BY <1>1, <1>4, <1>5, <1>6, <1>7, <1>8, <1>9, CacheStep

\* Deleting the cached detail of a queue preserves the invariant.
LEMMA DropDetailsInv ==
    ASSUME IInv, NEW s \in Slots, DropDetails(s)
    PROVE  IInv'
  <1> USE SlotTypes, LikeItself DEF At, mongo, redis, history
  <1>1. /\ ContinueAs(s, req[s]) /\ Step(s) = "undetail"
        /\ UNCHANGED <<mongo, key, lock, cache, history>>
        /\ detail' = [q \in Queues |-> IF q \in req[s].qs THEN NoCache ELSE detail[q]]
    BY DEF DropDetails, Continue
  <1>2. StoreTypes'
    BY <1>1 DEF IInv, StoreTypes
  <1>3. SummaryRight' = SummaryRight /\ \A x \in Keys : KeyRight(x) => KeyRight(x)'
    BY <1>1 DEF SummaryRight, KeyRight, InState, Keys
  <1>4. \A q \in Queues : detail'[q] # NoCache => doc[q].st # "none"
    BY <1>1 DEF IInv, DetailsKnown
  <1>5. KeepsDrops(req[s], Onward(req[s]))
    BY <1>1, OnwardKeepsDrops
  <1> QED
    BY <1>1, <1>2, <1>3, <1>4, <1>5, CacheStep DEF KeepsDrops
-----------------------------------------------------------------------------
(* Reads, and guests *)

\* A read through a cache preserves the invariant, or raises the flag of a stale write.
LEMMA ReadInv ==
    ASSUME IInv, NEW s \in Slots,
           ReadQueues(s) \/ ReadSummary(s) \/ ReadDetail(s) \/ ResolveQueue(s)
    PROVE  IInv'
  <1> USE SlotTypes, LikeItself DEF At, mongo, redis, history
  <1>0. StoreTypes' /\ UNCHANGED <<mongo, redis, history>>
    BY DEF ReadQueues, ReadSummary, ReadDetail, ResolveQueue, IInv, StoreTypes
  <1>1. CASE ReadQueues(s)
    <2> DEFINE ended == InState("ended")
               live == InState("live")
               r == [req[s] EXCEPT !.qs = ended, !.live = live]
    <2>1. ended \in SUBSET Queues /\ live \in SUBSET Queues
      BY DEF InState
    <2>2. ContinueAs(s, r)
      BY <1>1 DEF ReadQueues
    <2> HIDE DEF ended, live
    <2>3. Like(req[s], r)
      <3>1. req[s].op \in {"list", "dashboard"}
        BY <1>1, AtRead DEF ReadQueues
      <3>2. r = [req[s] EXCEPT !.qs = ended, !.live = live]
        OBVIOUS
      <3>4. req[s] \in Request
        OBVIOUS
      <3> HIDE SlotTypes, LikeItself DEF r
      <3>3. r \in Request /\ r.op = req[s].op /\ r.pc = req[s].pc /\ r.blind = req[s].blind
        BY <2>1, <3>2, <3>4 DEF Request
      <3> QED
        BY <3>1, <3>3 DEF Like
    <2> HIDE DEF r
    <2> QED
      BY <1>0, <1>1, <2>2, <2>3, Goes DEF ReadQueues
  <1>2. CASE ReadSummary(s)
    <2>1. req[s].op = "list" /\ req[s].pc = 2
      BY <1>2, AtRead DEF ReadSummary
    <2> DEFINE sum == IF cache["summary"] = NoCache THEN InState("ended") ELSE cache["summary"]
               pc == IF cache["summary"] = NoCache THEN 3 ELSE 4
               r == [req[s] EXCEPT !.sum = sum, !.pc = pc]
    <2>2. sum \in SUBSET Queues /\ pc \in {3, 4}
      BY DEF InState, IInv, StoreTypes
    <2>3. req' = [req EXCEPT ![s] = r]
      <3>1. req' = [req EXCEPT ![s].sum = sum, ![s].pc = IF cache["summary"] = NoCache
                                                         THEN @ + 1 ELSE @ + 2]
        BY <1>2 DEF ReadSummary
      <3>2. (IF cache["summary"] = NoCache THEN req[s].pc + 1 ELSE req[s].pc + 2) = pc
        BY <2>1
      <3> HIDE DEF sum, pc
      <3>3. req[s] \in Request /\ req = [t \in Slots |-> req[t]]
        BY DEF IInv, RequestTypes
      <3>4. req' = [req EXCEPT ![s] = [[req[s] EXCEPT !.sum = sum]
                                         EXCEPT !.pc = IF cache["summary"] = NoCache
                                                       THEN req[s].pc + 1 ELSE req[s].pc + 2]]
        <4> DEFINE up(i) == IF cache["summary"] = NoCache THEN i + 1 ELSE i + 2
        <4>1. req' = [req EXCEPT ![s].sum = sum, ![s].pc = up(@)]
          BY <3>1
        <4> HIDE DEF up
        <4>2. [req[s] EXCEPT !.sum = sum].pc = req[s].pc
          BY <3>3 DEF Request
        <4>3. req' = [req EXCEPT ![s] = [[req[s] EXCEPT !.sum = sum]
                                           EXCEPT !.pc = up(req[s].pc)]]
          BY <3>3, <4>1, <4>2
        <4> QED
          BY <4>3 DEF up
      <3> QED
        BY <3>2, <3>4
    <2> HIDE DEF sum, pc
    <2>4. r \in Request /\ r.op = "list" /\ r.pc \in {3, 4}
      <3>1. pc \in 1..11
        BY <2>2
      <3> QED
        <4>1. r = [req[s] EXCEPT !.sum = sum, !.pc = pc]
          OBVIOUS
        <4>3. req[s] \in Request
          OBVIOUS
        <4> HIDE SlotTypes, LikeItself DEF r
        <4>2. r \in Request /\ r.op = req[s].op /\ r.pc = pc
          BY <2>2, <3>1, <4>1, <4>3 DEF Request
        <4> QED
          BY <2>1, <2>2, <4>2
    <2> HIDE DEF r
    <2>5. Proper(r)
      BY <2>4, Lengths DEF Proper
    <2>6. Command(r) # "docs"
      BY <2>4, <2>5, AtChange
    <2>7. Follows(req[s], r)
      BY <2>4, <2>5, <2>6 DEF Follows, Creating, Checked
    <2>8. KeepsDrops(req[s], r)
      BY <2>1 DEF KeepsDrops, DropsSummary, DropsKey, Changed, Changes
    <2> QED
      BY <1>0, <2>3, <2>7, <2>8, Apart
  <1>3. CASE ReadDetail(s)
    <2>1. req[s].op = "detail"
      BY <1>3, AtRead DEF ReadDetail
    <2>2. CASE Finish(s)
      BY <1>0, <2>1, <2>2, Ends DEF Changed, Changes
    <2>3. CASE ContinueAs(s, [req[s] EXCEPT !.live = @ \cup (req[s].qs \cap InState("live"))])
      <3> DEFINE l == req[s].live \cup (req[s].qs \cap InState("live"))
                 r == [req[s] EXCEPT !.live = l]
      <3>1. l \subseteq Queues
        BY DEF InState, Request
      <3>2. ContinueAs(s, r)
        BY <2>3
      <3> HIDE DEF l
      <3>3. Like(req[s], r)
        BY <3>1 DEF Like, Request
      <3> HIDE DEF r
      <3> QED
        BY <1>0, <1>3, <3>2, <3>3, Goes DEF ReadDetail
    <2> QED
      BY <1>3, <2>2, <2>3 DEF ReadDetail
  <1>4. CASE ResolveQueue(s)
    <2>1. req[s].op = "join"
      BY <1>4, AtRead DEF ResolveQueue
    <2>2. CASE Finish(s)
      BY <1>0, <2>1, <2>2, Ends DEF Changed, Changes
    <2>3. CASE Continue(s)
      BY <1>0, <1>4, <2>3, Goes DEF ResolveQueue, Continue
    <2> QED
      BY <1>4, <2>2, <2>3 DEF ResolveQueue
  <1> QED
    BY <1>1, <1>2, <1>3, <1>4

\* What is cached is right, or noted to be stale.
LEMMA FillInv ==
    ASSUME IInv, NEW s \in Slots,
           FillSummary(s) \/ FillList(s) \/ FillDashboard(s) \/ FillDetail(s)
    PROVE  IInv'
  <1> USE SlotTypes, LikeItself DEF At, mongo, redis, history
  <1>1. ASSUME Step(s) \notin {"lock", "active", "entries", "drop", "summary", "keys", "unkey"},
               ContinueAs(s, req[s]), StoreTypes',
               UNCHANGED <<mongo, lock, lapsed, stray>>, stale => stale',
               \A q \in Queues : detail'[q] # NoCache => doc[q].st # "none",
               ~stale' => /\ SummaryRight => SummaryRight'
                          /\ \A x \in Keys : KeyRight(x) => KeyRight(x)'
        PROVE  IInv'
    <2>1. KeepsDrops(req[s], Onward(req[s]))
      BY <1>1, OnwardKeepsDrops
    <2> QED
      BY <1>1, <2>1, CacheStep DEF KeepsDrops
  <1>2. ASSUME NEW v \in Views, NEW x, Fill(s, v, x),
               v = "summary" => x \in SUBSET Queues,
               v # "summary" => x \in (SUBSET Queues) \X (SUBSET Queues),
               Step(s) \notin {"lock", "active", "entries", "drop", "summary", "keys", "unkey"}
        PROVE  IInv'
    <2>1. /\ cache' = [cache EXCEPT ![v] = x] /\ stale' = (stale \/ x # Current[v])
          /\ ContinueAs(s, req[s])
          /\ UNCHANGED <<mongo, key, lock, detail, scenario, turns, lapsed, stray, drift>>
      BY <1>2 DEF Fill, Continue
    <2>2. stale' \in BOOLEAN /\ (stale => stale') /\ (~stale' => x = Current[v])
      BY <2>1
    <2>3. /\ cache' = [w \in Views |-> cache'[w]] /\ cache'[v] = x
          /\ \A w \in Views : w # v => cache'[w] = cache[w]
      BY <2>1 DEF IInv, StoreTypes
    <2>4. StoreTypes'
      BY <1>2, <2>1, <2>2, <2>3 DEF IInv, StoreTypes, Views
    <2>5. InState("ended")' = InState("ended")
      BY <2>1 DEF InState
    <2>6. ~stale' => /\ SummaryRight => SummaryRight'
                     /\ \A y \in Keys : KeyRight(y) => KeyRight(y)'
      BY <2>1, <2>2, <2>3, <2>5 DEF SummaryRight, KeyRight, Current, Views
    <2>7. \A q \in Queues : detail'[q] # NoCache => doc[q].st # "none"
      BY <2>1 DEF IInv, DetailsKnown
    <2> QED
      BY <1>1, <1>2, <2>1, <2>2, <2>4, <2>6, <2>7
  <1>3. CASE FillSummary(s)
    BY <1>2, <1>3 DEF FillSummary, Views, Request
  <1>4. CASE FillList(s)
    <2>1. <<req[s].qs, req[s].sum>> \in (SUBSET Queues) \X (SUBSET Queues)
      BY DEF Request
    <2> QED
      BY <1>2, <1>4, <2>1 DEF FillList, Views
  <1>5. CASE FillDashboard(s)
    <2>1. <<req[s].live, req[s].qs>> \in (SUBSET Queues) \X (SUBSET Queues)
      BY DEF Request
    <2> QED
      BY <1>2, <1>5, <2>1 DEF FillDashboard, Views
  <1>6. CASE FillDetail(s)
    <2>1. req[s].op = "detail" /\ req[s].qs \subseteq Queues
      BY <1>6, AtRead DEF FillDetail, Request
    <2>2. PICK q \in req[s].qs :
             LET shows == IF q \in req[s].live THEN "live" ELSE "ended"
             IN  /\ detail' = [detail EXCEPT ![q] = shows]
                 /\ stale' = (stale \/ doc[q].st # shows)
      BY <1>6 DEF FillDetail
    <2> DEFINE shows == IF q \in req[s].live THEN "live" ELSE "ended"
    <2>3. /\ detail' = [detail EXCEPT ![q] = shows] /\ stale' = (stale \/ doc[q].st # shows)
          /\ shows \in {"live", "ended"} /\ q \in Queues
      BY <2>1, <2>2
    <2> HIDE DEF shows
    <2>4. stale' \in BOOLEAN /\ (stale => stale') /\ (~stale' => doc[q].st = shows)
      BY <2>3
    <2>5. /\ detail' \in [Queues -> {NoCache, "live", "ended"}]
          /\ detail'[q] = shows /\ \A p \in Queues : p # q => detail'[p] = detail[p]
      BY <2>3 DEF IInv, StoreTypes
    <2>6. /\ UNCHANGED <<mongo, key, lock, cache, scenario, turns, lapsed, stray, drift>>
          /\ ContinueAs(s, req[s]) /\ Step(s) = "fillDetail"
      BY <1>6 DEF FillDetail, Continue
    <2>7. StoreTypes'
      BY <2>4, <2>5, <2>6 DEF IInv, StoreTypes
    <2>8. ~stale' => /\ SummaryRight => SummaryRight'
                     /\ \A x \in Keys : KeyRight(x) => KeyRight(x)'
      BY <2>4, <2>5, <2>6 DEF SummaryRight, KeyRight, Keys, InState
    <2>9. \A p \in Queues : detail'[p] # NoCache => doc[p].st # "none"
      BY <2>1, <2>5 DEF IInv, DetailsKnown
    <2> QED
      BY <1>1, <2>4, <2>6, <2>7, <2>8, <2>9
  <1> QED
    BY <1>3, <1>4, <1>5, <1>6

\* An entry of a queue that is gone, or about to go, is known to stray.
LEMMA InsertEntryInv ==
    ASSUME IInv, NEW s \in Slots, InsertEntry(s)
    PROVE  IInv'
  <1> USE SlotTypes, LikeItself DEF At, mongo, redis, history
  <1> DEFINE r == Onward(req[s])
  <1>1. /\ Step(s) = "enter" /\ req' = [req EXCEPT ![s] = r]
        /\ entries' = entries \cup req[s].qs
        /\ stray' = stray \cup {q \in req[s].qs : ~Stored(q) \/ Deleting(q)}
        /\ UNCHANGED <<doc, count, resetDue, redis, scenario, turns, lapsed, drift, stale>>
    BY DEF InsertEntry, Continue, ContinueAs
  <1>2. Follows(req[s], r) /\ KeepsDrops(req[s], r)
    BY <1>1, OnwardFollows, OnwardKeepsDrops
  <1> HIDE DEF r
  <1>3. StoreTypes'
    BY <1>1 DEF IInv, StoreTypes, Request
  <1>4. Proper(r) /\ RequestTypes'
    BY <1>1, <1>2, SlotChanged DEF Follows
  <1>5. LockOwned'
    BY <1>1, <1>2, <1>4, LockKept DEF Follows, IInv, LockOwned
  <1>6. NoneOpen' /\ OneOpen'
    <2>1. \A q \in Queues : Open(q)' = Open(q)
      BY <1>1 DEF Open
    <2> QED
      BY <1>1, <1>2, <1>4, <2>1, OpenKept DEF Follows, IInv, NoneOpen
  <1>7. EntriesRemoved' /\ NoOrphans'
    <2>1. ASSUME NEW q \in entries' \ stray'
          PROVE  \/ q \in entries \ stray /\ (Gone(q)' => Gone(q))
                 \/ ~Gone(q)' /\ \A t \in Slots : At(t, "docs") => q \notin req[t].qs
      <3>1. CASE q \in entries
        BY <1>1, <2>1, <3>1 DEF Gone
      <3>2. CASE q \notin entries
        <4>1. Stored(q) /\ ~Deleting(q)
          BY <1>1, <2>1, <3>2
        <4> QED
          BY <1>1, <4>1 DEF Stored, Gone, Deleting
      <3> QED
        BY <3>1, <3>2
    <2> QED
      BY <1>1, <1>2, <1>4, <2>1, OrphansKept DEF Follows
  <1>8. CreatesOwn' /\ DetailsKnown'
    <2>1. r.op = "create" /\ r.pc <= 5 => \A q \in r.qs : doc'[q].st = "none"
      BY <1>1, <1>2 DEF Follows, IInv, CreatesOwn
    <2>2. r.op = "detail" => \A q \in r.qs : doc'[q].st # "none"
      BY <1>1, <1>2 DEF Follows, IInv, DetailsKnown
    <2>3. \A q \in Queues : doc'[q] = doc[q] /\ detail'[q] = detail[q]
      BY <1>1
    <2>4. \A q \in Queues : doc[q].st = "none" => detail[q] = NoCache
      BY DEF IInv, DetailsKnown
    <2> QED
      BY <1>1, <1>2, <1>4, <2>1, <2>2, <2>3, <2>4, NewKept DEF Follows
  <1>9. SummaryDropped' /\ KeysDropped'
    <2>1. SummaryRight' = SummaryRight /\ \A x \in Keys : KeyRight(x)' = KeyRight(x)
      BY <1>1 DEF SummaryRight, KeyRight, InState
    <2> QED
      BY <1>1, <1>2, <1>4, <2>1, CachesKept DEF KeepsDrops
  <1> QED
    BY <1>3, <1>4, <1>5, <1>6, <1>7, <1>8, <1>9 DEF IInv
-----------------------------------------------------------------------------
(* Requests begin, and fail *)

\* A request that arrives preserves the invariant.
LEMMA BeginInv ==
    ASSUME IInv, NEW s \in Slots, NEW op \in Requests, NEW r \in Request, r.pc = 1,
           Begin(s, op, r),
           op = "create" => r.qs \subseteq Unused,
           op = "detail" => \A q \in r.qs : doc[q].st # "none"
    PROVE  IInv'
  <1> USE SlotTypes DEF mongo, redis
  <1> DEFINE n == [r EXCEPT !.op = op]
  <1>1. /\ n \in Request /\ n.op = op /\ n.pc = 1 /\ n.qs = r.qs
    BY DEF Request
  <1>2. /\ req' = [req EXCEPT ![s] = n] /\ req[s].op = "none" /\ turns' \in 0..MaxTurns
        /\ UNCHANGED <<mongo, redis, scenario, lapsed, stray, drift, stale>>
    BY HostQueuesAssumption DEF Begin, Turn, IInv, StoreTypes
  <1> HIDE DEF n
  <1>3. Proper(n)
    BY <1>1, Lengths DEF Proper, Requests
  <1>4. Command(n) # "docs"
    BY <1>1, <1>3, AtChange
  <1>5. StoreTypes'
    BY <1>2 DEF IInv, StoreTypes
  <1>6. ~Creating(n) /\ ~Checked(n)
    BY <1>1 DEF Creating, Checked
  <1>7. LockOwned'
    BY <1>2, <1>3, <1>6, LockKept
  <1>8. NoneOpen' /\ OneOpen'
    BY <1>2, <1>3, <1>6, OpenKept DEF Open
  <1>9. EntriesRemoved' /\ NoOrphans'
    BY <1>2, <1>3, <1>4, OrphansKept DEF Gone
  <1>10. CreatesOwn' /\ DetailsKnown'
    <2>1. n.op = "create" => \A q \in n.qs : doc'[q].st = "none"
      BY <1>1, <1>2 DEF Unused, InState
    <2>2. \A q \in Queues : doc[q].st = "none" => detail[q] = NoCache
      BY DEF IInv, DetailsKnown
    <2> QED
      BY <1>1, <1>2, <1>3, <2>1, <2>2, NewKept
  <1>11. SummaryDropped' /\ KeysDropped'
    <2>1. ~DropsSummary(req[s]) /\ \A x \in Keys : ~DropsKey(req[s], x)
      BY <1>2 DEF DropsSummary, DropsKey, Changed, Changes
    <2> QED
      BY <1>2, <1>3, <2>1, CachesKept DEF SummaryRight, KeyRight, InState
  <1> QED
    BY <1>2, <1>3, <1>5, <1>7, <1>8, <1>9, <1>10, <1>11, SlotChanged DEF IInv

\* The start of an operation preserves the invariant.
LEMMA StartInv ==
    ASSUME IInv, NEW s \in Slots, Start(s)
    PROVE  IInv'
  <1>1. ASSUME NEW qs \in SUBSET Queues, NEW live \in SUBSET Queues
        PROVE  /\ [Idle EXCEPT !.qs = qs] \in Request /\ [Idle EXCEPT !.qs = qs].pc = 1
               /\ [Idle EXCEPT !.qs = qs].qs = qs
               /\ [Idle EXCEPT !.qs = qs, !.live = live] \in Request
               /\ [Idle EXCEPT !.qs = qs, !.live = live].pc = 1
    <2>1. Idle \in Request /\ Idle.pc = 1
      BY IdleProper DEF Proper, Idle
    <2> HIDE DEF Idle
    <2> QED
      BY <2>1 DEF Request
  <1>2. Idle \in Request /\ Idle.pc = 1
    BY IdleProper DEF Proper, Idle
  <1> HIDE DEF Idle
  <1>3. CASE StartCreate(s)
    <2> DEFINE q == CHOOSE q \in Unused : TRUE
    <2>1. q \in Unused
      BY <1>3 DEF StartCreate
    <2>2. Begin(s, "create", [Idle EXCEPT !.qs = {q}])
      BY <1>3 DEF StartCreate
    <2> HIDE DEF q
    <2>3. {q} \in SUBSET Queues
      BY <2>1 DEF Unused, InState
    <2> QED
      BY <1>1, <2>1, <2>2, <2>3, BeginInv DEF Requests
  <1>4. CASE StartDelete(s)
    BY <1>1, <1>4, BeginInv DEF StartDelete, Requests
  <1>5. CASE StartClear(s)
    BY <1>2, <1>5, BeginInv DEF StartClear, Requests
  <1>6. CASE StartRead(s)
    <2>1. ASSUME NEW q \in Queues, Stored(q), Begin(s, "detail", [Idle EXCEPT !.qs = {q}])
          PROVE  IInv'
      <3>1. doc[q].st # "none" /\ {q} \in SUBSET Queues
        BY <2>1 DEF Stored
      <3> DEFINE n == [Idle EXCEPT !.qs = {q}]
      <3>2. n \in Request /\ n.pc = 1 /\ n.qs = {q}
        BY <1>1, <3>1
      <3>3. Begin(s, "detail", n) /\ "detail" \in Requests
        BY <2>1 DEF Requests
      <3> HIDE DEF n
      <3> QED
        BY <3>1, <3>2, <3>3, BeginInv
    <2>2. ASSUME NEW op \in {"list", "dashboard"}, Begin(s, op, Idle)
          PROVE  IInv'
      <3>1. op \in Requests /\ op # "create" /\ op # "detail"
        BY DEF Requests
      <3> QED
        BY <1>2, <2>2, <3>1, BeginInv
    <2> QED
      BY <1>6, <2>1, <2>2 DEF StartRead
  <1>7. ASSUME NEW q \in Queues, StartEnd(s, q) \/ StartSweep(s, q) \/ StartJoin(s, q)
        PROVE  IInv'
    <2>1. {q} \in SUBSET Queues /\ ({q} \cap InState("live")) \in SUBSET Queues
      OBVIOUS
    <2> QED
      BY <1>1, <1>7, <2>1, BeginInv DEF StartEnd, StartSweep, StartJoin, Requests
  <1> QED
    BY <1>3, <1>4, <1>5, <1>6, <1>7 DEF Start

\* A command that fails preserves the invariant: what it leaves behind is flagged.
LEMMA FailInv ==
    ASSUME IInv, NEW s \in Slots, CommandFails(s)
    PROVE  IInv'
  <1> USE SlotTypes, LikeItself DEF At, mongo, redis
  <1>1. /\ UNCHANGED <<mongo, redis, scenario, stray>>
        /\ drift' = (drift \/ Step(s) \in {"count", "host", "decrement"})
        /\ stale' = (stale \/ Step(s) \in {"docs", "end", "drop", "summary", "keys", "unkey"})
        /\ lapsed' = IF Step(s) = "unlock" THEN lapsed \ {s} ELSE lapsed
        /\ turns' \in 0..MaxTurns
    BY HostQueuesAssumption DEF CommandFails, Turn, IInv, StoreTypes
  <1>2. StoreTypes' /\ (stale => stale')
    <2>1. drift' \in BOOLEAN /\ stale' \in BOOLEAN
      BY <1>1
    <2> QED
      BY <1>1, <2>1 DEF IInv, StoreTypes
  <1>3. CASE Finish(s) /\ Step(s) = "unlock"
    <2>1. req[s].op = "create"
      BY <1>3, AtCreate
    <2> QED
      BY <1>1, <1>2, <1>3, <2>1, CreateEnds
  <1> DEFINE quits == {"lock", "find", "entries", "docs", "rows", "read", "resolve", "enter",
                       "fillSummary", "fillList", "fillDashboard", "fillDetail", "end"}
  <1>4. CASE Finish(s) /\ Step(s) \in quits
    <2>1. Step(s) \in {"docs", "end"} => stale'
      BY <1>1
    <2>2. Step(s) \in quits \ {"docs", "end"} => ~Changed(req[s])
      <3>1. Step(s) \in {"find", "entries"} => req[s].op \notin {"end", "sweep"} /\ req[s].pc <= 3
        BY AtChange
      <3>2. Step(s) \in quits \ {"docs", "end", "find", "entries"} => req[s].op \notin Changes
        BY AtCreate, AtRead DEF Changes
      <3> QED
        BY <3>1, <3>2 DEF Changed, Request
    <2>3. lapsed' = lapsed
      BY <1>1, <1>4
    <2> QED
      BY <1>1, <1>2, <1>4, <2>1, <2>2, <2>3, Ends
  <1>5. CASE Jump(s, "unlock") /\ Step(s) \in {"quota", "code", "insert"}
    BY <1>1, <1>2, <1>5, GivesUp
  <1>6. CASE Step(s) \in {"active", "quota"} /\ ContinueAs(s, [req[s] EXCEPT !.blind = TRUE])
    <2> DEFINE o == [req[s] EXCEPT !.blind = TRUE]
               r == Onward(o)
    <2>1. req[s].op = "create" /\ req[s].pc \in {2, 3} /\ Len(Steps["create"]) = 11
      BY <1>6, AtCreate DEF Steps, CreateSteps
    <2>2. /\ o \in Request /\ o.op = "create" /\ o.pc = req[s].pc /\ o.qs = req[s].qs /\ o.blind
      <3>1. req[s] \in Request
        BY SlotTypes
      <3> QED
        BY <2>1, <3>1 DEF Request
    <2>3. req' = [req EXCEPT ![s] = r]
      BY <1>6 DEF ContinueAs
    <2> HIDE DEF o
    <2>4. o.pc # Len(Steps[o.op])
      <3>1. Len(Steps[o.op]) = 11
        BY <2>1, <2>2
      <3>2. o.pc \in {2, 3}
        BY <2>1, <2>2
      <3> QED
        BY <3>1, <3>2
    <2>5. r = [o EXCEPT !.pc = o.pc + 1]
      BY <2>4 DEF Onward
    <2>6. Proper(o)
      BY <2>1, <2>2, Lengths DEF Proper
    <2>7. /\ Proper(r) /\ r.op = "create" /\ r.pc = req[s].pc + 1 /\ r.qs = req[s].qs /\ r.blind
      BY <2>2, <2>4, <2>5, <2>6, OnwardIs DEF Request
    <2> HIDE DEF r
    <2>8. Command(r) # "docs"
      BY <2>7, AtChange
    <2>9. Follows(req[s], r)
      BY <2>1, <2>7, <2>8 DEF Follows, Creating, Checked
    <2>10. KeepsDrops(req[s], r)
      BY <2>1, CreateDropsNothing DEF KeepsDrops
    <2>11. lapsed' = lapsed
      BY <1>1, <1>6
    <2> QED
      BY <1>1, <1>2, <2>3, <2>9, <2>10, <2>11, Apart
  <1>7. CASE Step(s) \in {"host", "orphans", "purge"} /\ Jump(s, "drop")
    <2> DEFINE i == Index(req[s].op, "drop")
               r == [req[s] EXCEPT !.pc = i]
    <2>1. /\ req[s].op \in {"delete", "deleteBulk", "clear"} /\ req[s].pc \in {4, 5}
          /\ i = IF req[s].op = "clear" THEN 6 ELSE 7
      BY <1>7, AtChange, Jumps
    <2>2. req' = [req EXCEPT ![s] = r]
      BY <1>7 DEF Jump, IInv, RequestTypes
    <2> HIDE DEF i
    <2>3. /\ r \in Request /\ r.op = req[s].op /\ r.found = req[s].found
          /\ r.pc = IF req[s].op = "clear" THEN 6 ELSE 7
      <3>1. i \in 1..11
        BY <2>1
      <3> QED
        BY <2>1, <3>1 DEF Request
    <2> HIDE DEF r
    <2>4. Proper(r)
      BY <2>1, <2>3, Lengths DEF Proper
    <2>5. Command(r) # "docs"
      BY <2>3, <2>4, AtChange
    <2>6. Follows(req[s], r)
      BY <2>1, <2>3, <2>4, <2>5 DEF Follows, Creating, Checked
    <2>7. Changed(r) /\ r.pc <= SummaryStep[r.op] /\ r.pc <= KeysStep[r.op]
      BY <2>1, <2>3 DEF Changed, Changes, SummaryStep, KeysStep
    <2>8. KeepsDrops(req[s], r)
      BY <2>7 DEF KeepsDrops, DropsSummary, DropsKey
    <2>9. lapsed' = lapsed
      BY <1>1, <1>7
    <2> QED
      BY <1>1, <1>2, <2>2, <2>6, <2>8, <2>9, Apart
  <1>8. CASE Continue(s) /\ Step(s) \in {"count", "decrement", "release", "clean", "undetail"}
    <2>1. lapsed' = lapsed
      BY <1>1, <1>8
    <2> QED
      BY <1>1, <1>2, <1>8, <2>1, Goes DEF Continue
  <1>9. CASE Continue(s) /\ Step(s) \in {"drop", "summary", "keys", "unkey", "end"}
    <2>1. lapsed' = lapsed /\ stale'
      BY <1>1, <1>9
    <2>2. Follows(req[s], Onward(req[s]))
      BY <1>9, OnwardFollows
    <2> QED
      BY <1>1, <1>2, <1>9, <2>1, <2>2, Apart DEF Continue, ContinueAs
  <1>10. CASE Step(s) = "total" /\ Jump(s, "fillList")
    <2> DEFINE r == [req[s] EXCEPT !.pc = 4]
    <2>1. req[s].op = "list" /\ req[s].pc = 2
      BY <1>10, AtRead
    <2>2. req' = [req EXCEPT ![s] = r]
      BY <1>10, <2>1, Jumps DEF Jump, IInv, RequestTypes
    <2>3. r \in Request /\ r.op = "list" /\ r.pc = 4
      BY <2>1 DEF Request
    <2> HIDE DEF r
    <2>4. Proper(r)
      BY <2>3, Lengths DEF Proper
    <2>5. Command(r) # "docs"
      BY <2>3, <2>4, AtChange
    <2>6. Follows(req[s], r)
      BY <2>3, <2>4, <2>5 DEF Follows, Creating, Checked
    <2>7. KeepsDrops(req[s], r)
      BY <2>1 DEF KeepsDrops, DropsSummary, DropsKey, Changed, Changes
    <2>8. lapsed' = lapsed
      BY <1>1, <1>10
    <2> QED
      BY <1>1, <1>2, <2>2, <2>6, <2>7, <2>8, Apart
  <1> QED
    BY <1>3, <1>4, <1>5, <1>6, <1>7, <1>8, <1>9, <1>10 DEF CommandFails
-----------------------------------------------------------------------------
(* Time, and the other events *)

\* A step of no request.
LEMMA OutsideInv ==
    ASSUME IInv, UNCHANGED req, StoreTypes',
           \A t \in Slots : t \notin lapsed' => t \notin lapsed,
           \A t \in Slots : Creating(req[t]) /\ t \notin lapsed' /\ lock = t => lock' = t,
           \A q \in Queues : (doc'[q].st = "none" <=> doc[q].st = "none") /\ (Open(q)' => Open(q)),
           \A q \in entries' \ stray' : q \in entries \ stray /\ (Gone(q)' => Gone(q)),
           \A q \in Queues : detail'[q] # NoCache => detail[q] # NoCache,
           CachesGood
    PROVE  IInv'
  <1>1. RequestTypes'
    BY DEF IInv, RequestTypes, Proper
  <1>2. LockOwned'
    BY DEF IInv, LockOwned, Creating
  <1>3. NoneOpen' /\ OneOpen'
    BY DEF IInv, NoneOpen, OneOpen, Checked, Open
  <1>4. EntriesRemoved' /\ NoOrphans'
    BY DEF IInv, EntriesRemoved, NoOrphans, Command
  <1>5. CreatesOwn' /\ DetailsKnown'
    <2>1. \A s \in Slots : req[s].qs \subseteq Queues
      BY SlotTypes DEF Request
    <2>2. CreatesOwn'
      BY <2>1 DEF IInv, CreatesOwn
    <2>3. DetailsKnown'
      BY <2>1 DEF IInv, DetailsKnown
    <2> QED
      BY <2>2, <2>3
  <1>6. SummaryDropped'
    BY DEF IInv, SummaryDropped, CachesGood, DropsSummary, Changed
  <1>7. KeysDropped'
    <2> SUFFICES ASSUME ~stale', NEW x \in Keys
                 PROVE  KeyRight(x)' \/ \E s \in Slots : DropsKey(req'[s], x)
      BY DEF KeysDropped, DropsKey, Changed, Keys
    <2>1. KeyRight(x) \/ \E s \in Slots : DropsKey(req[s], x)
      BY DEF IInv, KeysDropped, CachesGood
    <2> QED
      BY <2>1 DEF CachesGood
  <1> QED
    BY <1>1, <1>2, <1>3, <1>4, <1>5, <1>6, <1>7 DEF IInv

\* A step that leaves the documents and the entries.
LEMMA KeepsStore ==
    ASSUME IInv, UNCHANGED <<doc, entries, stray>>
    PROVE  /\ \A q \in Queues : /\ doc'[q].st = "none" <=> doc[q].st = "none"
                                /\ Open(q)' => Open(q)
           /\ \A q \in entries' \ stray' : q \in entries \ stray /\ (Gone(q)' => Gone(q))
           /\ InState("ended")' = InState("ended")
  BY DEF Open, Gone, InState

\* A time to live that passes preserves the invariant: a cache or a key only disappears.
LEMMA ExpiryInv ==
    ASSUME IInv, Expiry
    PROVE  IInv'
  <1> USE KeepsStore DEF mongo, history
  <1>1. CASE LockExpires
    <2>1. StoreTypes'
      BY <1>1 DEF LockExpires, IInv, StoreTypes
    <2>2. CachesGood
      BY <1>1 DEF LockExpires, CachesGood, SummaryRight, KeyRight, InState
    <2>3. \A t \in Slots : Creating(req[t]) => lock # t
      BY <1>1, SlotTypes DEF LockExpires, Creating
    <2> QED
      BY <1>1, <2>1, <2>2, <2>3, OutsideInv DEF LockExpires
  <1>2. ASSUME NEW v \in Views, ViewExpires(v) PROVE IInv'
    <2>1. StoreTypes'
      BY <1>2 DEF ViewExpires, IInv, StoreTypes
    <2>2. CachesGood
      <3>1. \A w \in Views : cache'[w] \in {cache[w], NoCache}
        BY <1>2 DEF ViewExpires, IInv, StoreTypes
      <3> QED
        BY <1>2, <3>1 DEF ViewExpires, CachesGood, SummaryRight, KeyRight, InState, Views
    <2> QED
      BY <1>2, <2>1, <2>2, OutsideInv DEF ViewExpires
  <1>3. ASSUME NEW q \in Queues, DetailExpires(q) PROVE IInv'
    <2>1. StoreTypes'
      BY <1>3 DEF DetailExpires, IInv, StoreTypes
    <2>2. \A p \in Queues : detail'[p] \in {detail[p], NoCache}
      BY <1>3 DEF DetailExpires, IInv, StoreTypes
    <2>3. CachesGood
      BY <1>3, <2>2 DEF DetailExpires, CachesGood, SummaryRight, KeyRight, InState, Keys
    <2> QED
      BY <1>3, <2>1, <2>2, <2>3, OutsideInv DEF DetailExpires
  <1> QED
    BY <1>1, <1>2, <1>3 DEF Expiry

\* A document that passes its expiry, comes back, or goes.
LEMMA QueueEventInv ==
    ASSUME IInv, NEW q \in Queues, PassExpiry(q) \/ Reopen(q) \/ Ttl(q)
    PROVE  IInv'
  <1> USE DEF redis
  <1>1. turns' \in 0..MaxTurns /\ UNCHANGED <<entries, count, resetDue, lock, req, scenario, lapsed, drift>>
    BY HostQueuesAssumption DEF PassExpiry, Reopen, Ttl, Turn, IInv, StoreTypes
  <1>2. doc[q] \in Doc /\ doc \in [Queues -> Doc]
    BY DEF IInv, StoreTypes
  <1>3. CASE PassExpiry(q)
    <2>1. doc' = [doc EXCEPT ![q].overdue = TRUE] /\ UNCHANGED <<redis, stray, stale>>
      BY <1>3 DEF PassExpiry
    <2>2. doc' \in [Queues -> Doc] /\ \A p \in Queues :
            doc'[p].st = doc[p].st /\ (Open(p)' => Open(p))
      BY <1>2, <2>1 DEF Doc, Open
    <2>3. StoreTypes'
      BY <1>1, <2>1, <2>2 DEF IInv, StoreTypes
    <2>4. InState("ended")' = InState("ended")
      BY <2>2 DEF InState
    <2>5. CachesGood
      BY <2>1, <2>2, <2>4 DEF CachesGood, SummaryRight, KeyRight, Keys
    <2>6. \A p \in entries' \ stray' : p \in entries \ stray /\ (Gone(p)' => Gone(p))
      BY <1>1, <2>1, <2>2 DEF Gone, IInv, StoreTypes
    <2> QED
      BY <1>1, <2>1, <2>2, <2>3, <2>5, <2>6, OutsideInv
  <1>4. CASE Reopen(q)
    <2>1. CASE /\ doc[q].st = "ended"
               /\ doc' = [doc EXCEPT ![q].st = "live", ![q].unchecked = TRUE]
               /\ cache' = [cache EXCEPT !["dashboard"] = NoCache]
               /\ stale' = TRUE
      <3>1. doc' \in [Queues -> Doc] /\ \A p \in Queues :
              /\ doc'[p].st = "none" <=> doc[p].st = "none"
              /\ Open(p)' => Open(p)
              /\ Gone(p)' => Gone(p)
        BY <1>2, <2>1 DEF Doc, Status, Open, Gone
      <3>2. UNCHANGED <<key, detail, stray>>
        BY <1>4 DEF Reopen
      <3>3. StoreTypes'
        BY <1>1, <2>1, <3>1, <3>2 DEF IInv, StoreTypes, Views
      <3>4. CachesGood
        BY <2>1 DEF CachesGood
      <3>5. \A p \in entries' \ stray' : p \in entries \ stray /\ (Gone(p)' => Gone(p))
        BY <1>1, <3>1, <3>2 DEF IInv, StoreTypes
      <3> QED
        BY <1>1, <3>1, <3>2, <3>3, <3>4, <3>5, OutsideInv
    <2>2. CASE /\ doc[q].st = "live"
               /\ doc' = [doc EXCEPT ![q].overdue = FALSE, ![q].unchecked = TRUE]
               /\ UNCHANGED <<cache, stale>>
      <3>1. doc' \in [Queues -> Doc] /\ \A p \in Queues :
              /\ doc'[p].st = doc[p].st
              /\ Open(p)' => Open(p)
              /\ Gone(p)' => Gone(p)
        BY <1>2, <2>2 DEF Doc, Open, Gone
      <3>2. UNCHANGED <<key, detail, stray>>
        BY <1>4 DEF Reopen
      <3>3. StoreTypes'
        BY <1>1, <2>2, <3>1, <3>2 DEF IInv, StoreTypes
      <3>4. InState("ended")' = InState("ended")
        BY <3>1 DEF InState
      <3>5. CachesGood
        BY <2>2, <3>1, <3>2, <3>4 DEF CachesGood, SummaryRight, KeyRight, Keys
      <3>6. \A p \in entries' \ stray' : p \in entries \ stray /\ (Gone(p)' => Gone(p))
        BY <1>1, <3>1, <3>2 DEF IInv, StoreTypes
      <3> QED
        BY <1>1, <3>1, <3>2, <3>3, <3>5, <3>6, OutsideInv
    <2> QED
      BY <1>4, <2>1, <2>2 DEF Reopen
  <1>5. CASE Ttl(q)
    <2>0. UNCHANGED <<cache, detail>>
      BY <1>5 DEF Ttl
    <2>1. CASE /\ Stored(q) /\ doc' = [doc EXCEPT ![q].st = "gone"]
               /\ stray' = stray \cup {q} /\ stale' = TRUE
               /\ UNCHANGED key
      <3>1. doc' \in [Queues -> Doc] /\ \A p \in Queues :
              /\ doc'[p].st = "none" <=> doc[p].st = "none"
              /\ Open(p)' => Open(p)
              /\ Gone(p)' => Gone(p) \/ p = q
        BY <1>2, <2>1 DEF Doc, Status, Open, Gone, Stored
      <3>2. StoreTypes'
        BY <1>1, <2>0, <2>1, <3>1 DEF IInv, StoreTypes
      <3>3. CachesGood
        BY <2>1 DEF CachesGood
      <3>4. \A p \in entries' \ stray' : p \in entries \ stray /\ (Gone(p)' => Gone(p))
        BY <1>1, <2>1, <3>1 DEF IInv, StoreTypes
      <3> QED
        BY <1>1, <2>0, <3>1, <3>2, <3>3, <3>4, OutsideInv
    <2>2. CASE /\ key' = [c \in Codes |-> IF key[c] = q THEN NoQueue ELSE key[c]]
               /\ UNCHANGED <<doc, stray, stale>>
      <3>1. StoreTypes'
        BY <1>1, <2>0, <2>2 DEF IInv, StoreTypes
      <3>2. CachesGood
        BY <2>0, <2>2 DEF CachesGood, SummaryRight, KeyRight, InState
      <3> QED
        BY <1>1, <2>0, <2>2, <3>1, <3>2, OutsideInv, KeepsStore
    <2> QED
      BY <1>5, <2>1, <2>2 DEF Ttl
  <1> QED
    BY <1>3, <1>4, <1>5

\* The end of a billing month preserves the invariant.
LEMMA MonthEndsInv ==
    ASSUME IInv, MonthEnds
    PROVE  IInv'
  <1> USE DEF redis
  <1>1. turns' \in 0..MaxTurns
          /\ UNCHANGED <<entries, key, lock, cache, detail, req, scenario, lapsed, stray, stale>>
    BY HostQueuesAssumption DEF MonthEnds, Turn, IInv, StoreTypes
  <1>2. /\ doc' \in [Queues -> Doc] /\ count' \in Int /\ resetDue' \in BOOLEAN /\ drift' \in BOOLEAN
        /\ \A q \in Queues : doc'[q].st = doc[q].st /\ (Open(q)' => Open(q))
    <2>1. CASE ResetCount
      <3>1. count' = 0
        BY <2>1 DEF ResetCount
      <3>2. count' \in Int
        BY <3>1, SMT
      <3>3. drift' \in BOOLEAN
        BY <2>1 DEF ResetCount, Counting
      <3>4. resetDue' \in BOOLEAN
        BY <2>1 DEF ResetCount
      <3>5. doc' \in [Queues -> Doc] /\ \A q \in Queues :
              doc'[q].st = doc[q].st /\ (Open(q)' => Open(q))
        BY <2>1, ResetDocs DEF Open
      <3> QED
        BY <3>2, <3>3, <3>4, <3>5
    <2>2. CASE ~resetDue /\ resetDue' = TRUE /\ UNCHANGED <<doc, count, drift>>
      BY <2>2 DEF IInv, StoreTypes, Open
    <2> QED
      BY <2>1, <2>2 DEF MonthEnds
  <1>3. StoreTypes'
    BY <1>1, <1>2 DEF IInv, StoreTypes
  <1>4. InState("ended")' = InState("ended")
    BY <1>2 DEF InState
  <1>5. CachesGood
    BY <1>1, <1>2, <1>4 DEF CachesGood, SummaryRight, KeyRight, Keys
  <1>6. \A q \in entries' \ stray' : q \in entries \ stray /\ (Gone(q)' => Gone(q))
    BY <1>1, <1>2 DEF Gone, IInv, StoreTypes
  <1> QED
    BY <1>1, <1>2, <1>3, <1>5, <1>6, OutsideInv

\* A lock that lapses preserves the invariant: its owner is marked.
LEMMA LockLapsesInv ==
    ASSUME IInv, LockLapses
    PROVE  IInv'
  <1> USE DEF mongo
  <1>1. /\ lock \in Slots /\ lapsed' = lapsed \cup {lock} /\ lock' = NoSlot
        /\ drift' \in BOOLEAN
        /\ UNCHANGED <<mongo, key, cache, detail, req, scenario, turns, stray, stale>>
    BY DEF LockLapses, IInv, StoreTypes
  <1>2. StoreTypes'
    BY <1>1 DEF IInv, StoreTypes
  <1>3. CachesGood
    BY <1>1 DEF CachesGood, SummaryRight, KeyRight, InState
  <1> QED
    BY <1>1, <1>2, <1>3, OutsideInv, KeepsStore

\* A crash preserves the invariant: it ends every request and flags what they leave.
LEMMA CrashInv ==
    ASSUME IInv, Crash
    PROVE  IInv'
  <1> USE DEF mongo
  <1>1. /\ turns' \in 0..MaxTurns /\ req' = [s \in Slots |-> Idle] /\ lapsed' = {}
        /\ cache' = [cache EXCEPT !["dashboard"] = NoCache]
        /\ stale' = (stale \/ Writers # {})
        /\ UNCHANGED <<mongo, key, lock, detail, scenario, stray>>
    BY HostQueuesAssumption DEF Crash, Turn, IInv, StoreTypes
  <1>2. drift' \in BOOLEAN /\ stale' \in BOOLEAN
    BY DEF Crash
  <1>3. /\ cache' = [v \in Views |-> cache'[v]] /\ cache'["dashboard"] = NoCache
        /\ cache'["summary"] = cache["summary"] /\ cache'["list"] = cache["list"]
    BY <1>1 DEF IInv, StoreTypes, Views
  <1>4. StoreTypes'
    BY <1>1, <1>2, <1>3 DEF IInv, StoreTypes
  <1>5. Proper(Idle) /\ Idle.op = "none" /\ Command(Idle) # "docs"
    BY IdleProper DEF Idle
  <1> HIDE DEF Idle
  <1>6. RequestTypes' /\ \A s \in Slots : req'[s] = Idle
    BY <1>1, <1>5 DEF RequestTypes, Proper
  <1>7. LockOwned' /\ NoneOpen' /\ EntriesRemoved'
    BY <1>5, <1>6 DEF LockOwned, NoneOpen, EntriesRemoved, Creating, Checked, Command
  <1>8. OneOpen' /\ NoOrphans'
    BY <1>1 DEF IInv, OneOpen, NoOrphans, Open, Gone
  <1>9. CreatesOwn' /\ DetailsKnown'
    BY <1>1, <1>5, <1>6 DEF IInv, CreatesOwn, DetailsKnown
  <1>10. ~stale' => ~stale /\ \A s \in Slots : ~Changed(req[s])
    BY <1>1 DEF Writers, Changed, Changes
  <1>11. SummaryDropped'
    BY <1>1, <1>3, <1>10 DEF IInv, SummaryDropped, DropsSummary, SummaryRight, InState
  <1>12. KeysDropped'
    <2>1. ~stale' => \A x \in Keys : KeyRight(x)
      BY <1>10 DEF IInv, KeysDropped, DropsKey
    <2>2. \A x \in Keys : KeyRight(x)' = KeyRight(x)
      BY <1>1, <1>3 DEF KeyRight, InState
    <2> QED
      BY <2>1, <2>2 DEF KeysDropped, Keys
  <1> QED
    BY <1>4, <1>6, <1>7, <1>8, <1>9, <1>11, <1>12 DEF IInv
-----------------------------------------------------------------------------
(* Init, Next and the theorems *)

\* The initial states satisfy the invariant.
LEMMA InitInv == Init => IInv
  <1> SUFFICES ASSUME Init PROVE IInv
    OBVIOUS
  <1>1. First(Queues) \in Queues /\ First(Codes) \in Codes
    BY HostQueuesAssumption DEF First
  <1>2. PICK q \in {First(Queues)}, c \in {First(Codes)},
             st \in {"none", "live", "ended"}, new \in BOOLEAN :
         /\ doc = [p \in Queues |->
                IF p = q /\ st # "none"
                THEN [NoDoc EXCEPT !.st = st, !.code = c, !.fresh = new]
                ELSE NoDoc]
         /\ entries = IF st = "none" THEN {} ELSE {q}
         /\ count = IF st # "none" /\ new THEN 1 ELSE 0
         /\ key = [d \in Codes |-> IF st = "live" /\ d = c THEN q ELSE NoQueue]
    BY DEF Init
  <1>3. /\ resetDue = FALSE /\ lock = NoSlot
        /\ cache = [v \in Views |-> NoCache] /\ detail = [p \in Queues |-> NoCache]
        /\ req = [s \in Slots |-> Idle]
        /\ scenario \in Scenarios /\ turns = 0
        /\ lapsed = {} /\ stray = {} /\ drift = FALSE /\ stale = FALSE
    BY DEF Init
  <1>4. doc \in [Queues -> Doc] /\ \A p \in Queues : p # q => doc[p].st = "none"
    <2> DEFINE d == [NoDoc EXCEPT !.st = st, !.code = c, !.fresh = new]
    <2>1. d \in Doc /\ NoDoc \in Doc /\ NoDoc.st = "none"
      BY <1>1 DEF NoDoc, Doc, Status
    <2>2. doc = [p \in Queues |-> IF p = q /\ st # "none" THEN d ELSE NoDoc]
      BY <1>2
    <2> HIDE DEF d, NoDoc
    <2> QED
      BY <2>1, <2>2
  <1>5. entries \subseteq Queues /\ key \in [Codes -> Queues \cup {NoQueue, LostQueue}]
    BY <1>1, <1>2
  <1>6. count \in Int
    BY <1>2
  <1>7. \A p \in Queues : ~Gone(p)
    <2>1. doc[q].st \in {"none", "live", "ended"}
      BY <1>1, <1>2 DEF NoDoc
    <2> QED
      BY <1>4, <2>1 DEF Gone
  <1>8. turns \in 0..MaxTurns
    BY <1>3, HostQueuesAssumption
  <1>9. StoreTypes
    BY <1>3, <1>4, <1>5, <1>6, <1>8 DEF StoreTypes, Views
  <1>10. Proper(Idle) /\ Idle.op = "none" /\ Command(Idle) # "docs"
    BY IdleProper DEF Idle
  <1> HIDE DEF Idle, Init
  <1>11. RequestTypes /\ \A s \in Slots : req[s] = Idle
    BY <1>3, <1>10 DEF RequestTypes, Proper
  <1>12. LockOwned /\ NoneOpen /\ EntriesRemoved
    BY <1>10, <1>11 DEF LockOwned, NoneOpen, EntriesRemoved, Creating, Checked
  <1>13. OneOpen
    BY <1>4 DEF OneOpen, Open
  <1>14. NoOrphans
    BY <1>5, <1>7 DEF NoOrphans
  <1>15. CreatesOwn /\ DetailsKnown
    BY <1>3, <1>10, <1>11 DEF CreatesOwn, DetailsKnown
  <1>16. SummaryDropped /\ KeysDropped
    BY <1>3, <1>9 DEF SummaryDropped, KeysDropped, SummaryRight, KeyRight, Keys, Views
  <1> QED
    BY <1>9, <1>11, <1>12, <1>13, <1>14, <1>15, <1>16 DEF IInv

\* Every step preserves the invariant.
LEMMA NextInv == IInv /\ [Next]_vars => IInv'
  <1> SUFFICES ASSUME IInv, [Next]_vars PROVE IInv'
    OBVIOUS
  <1>1. ASSUME NEW s \in Slots, Handler(s) PROVE IInv'
    BY <1>1, CreateChecks, CreateLocks, CreateInserts, EndInv, DeleteQueuesInv,
       DeleteEntriesInv, FindQueuesInv, DeleteRest, DropInv, FindKeysInv, DeleteKeysInv,
       DropDetailsInv, ReadInv, FillInv, InsertEntryInv
    DEF Handler
  <1>2. CASE Environment
    BY <1>2, QueueEventInv, MonthEndsInv, LockLapsesInv, CrashInv, FailInv DEF Environment
  <1>3. CASE UNCHANGED vars
    <2>1. StoreTypes' /\ CachesGood
      BY <1>3 DEF vars, mongo, redis, history, IInv, StoreTypes, CachesGood, SummaryRight,
          KeyRight, InState
    <2> QED
      BY <1>3, <2>1, OutsideInv, KeepsStore DEF vars, mongo, redis, history
  <1> QED
    BY <1>1, <1>2, <1>3, StartInv, ExpiryInv DEF Next

\* The inductive invariant holds in every state.
THEOREM Invariance == Spec => []IInv
  <1>1. Init => IInv
    BY InitInv
  <1>2. IInv /\ [Next]_vars => IInv'
    BY NextInv
  <1> QED
    BY <1>1, <1>2, PTL DEF Spec

\* Every variable keeps its type, and a request is at a command of its operation.
THEOREM TypeCorrect == Spec => []TypeOK
  <1>1. IInv => TypeOK
    BY DEF IInv, StoreTypes, RequestTypes, Proper, TypeOK
  <1> QED
    BY <1>1, Invariance, PTL

\* Create and its lock: the host has one open queue at most, besides those that the
\* code creates without a lock or a check, or brings back without one.
THEOREM OneQueueIsLive == Spec => []OneLiveQueue
  <1>1. IInv => OneLiveQueue
    <2> SUFFICES ASSUME IInv PROVE OneLiveQueue
      OBVIOUS
    <2> DEFINE S == {q \in InState("live") : ~doc[q].overdue /\ ~doc[q].unchecked}
    <2>1. \A p, q \in S : p = q
      BY DEF IInv, OneOpen, Open, InState
    <2>2. S = {} \/ \E q \in S : S = {q}
      BY <2>1
    <2> HIDE DEF S
    <2>3. Cardinality(S) <= 1
      BY <2>2, FS_EmptySet, FS_Singleton
    <2> QED
      BY <2>3 DEF OneLiveQueue, S
  <1> QED
    BY <1>1, Invariance, PTL

\* DeleteQueue, DeleteQueuesBulk and ClearHostHistory: because the entries go first,
\* a deletion that fails, or crashes, leaves none of a queue that is gone; an entry
\* of such a queue is one of a join that crossed a deletion, or the TTL index's.
THEOREM DeletionLeavesNoOrphans == Spec => []NoOrphans
  <1>1. IInv => NoOrphans
    BY DEF IInv
  <1> QED
    BY <1>1, Invariance, PTL

\* The invalidations: once no change is in progress, the cached list, summary and
\* details are those that a read would return, unless a read was cached too late.
THEOREM CachesAreRight == Spec => []CachesAgree
  <1>1. IInv => CachesAgree
    <2> SUFFICES ASSUME IInv, ~stale, Writers = {}
                 PROVE  /\ \A v \in {"list", "summary"} : cache[v] \in {NoCache, Current[v]}
                        /\ \A q \in Queues : detail[q] \in {NoCache, doc[q].st}
      BY DEF CachesAgree
    <2>1. \A s \in Slots : ~Changed(req[s])
      BY DEF Writers, Changed, Changes
    <2>2. SummaryRight /\ \A x \in Keys : KeyRight(x)
      BY <2>1 DEF IInv, SummaryDropped, KeysDropped, DropsSummary, DropsKey
    <2>3. cache["summary"] \in {NoCache, Current["summary"]}
      BY <2>2 DEF SummaryRight, Current
    <2>4. cache["list"] \in {NoCache, Current["list"]}
      BY <2>2 DEF KeyRight, Keys, Current
    <2>5. \A q \in Queues : detail[q] \in {NoCache, doc[q].st}
      BY <2>2, HostQueuesAssumption DEF KeyRight, Keys
    <2> QED
      BY <2>3, <2>4, <2>5
  <1> QED
    BY <1>1, Invariance, PTL
=============================================================================
