---------------------------- MODULE Quota_proofs ----------------------------
(***************************************************************************)
(* Proofs about the month's count of HostQueues: what it says between      *)
(* requests, and that the plan's limit holds because of it.                *)
(*                                                                         *)
(* A queue is due in the count from the $inc of its creation to the $inc of*)
(* its deletion, which are later than its insertion and its removal.  The  *)
(* inductive invariant keeps book of the requests in between: a creation   *)
(* that is yet to count its queue, and a deletion that is yet to take what *)
(* it has removed.                                                         *)
(***************************************************************************)
EXTENDS HostQueues_proofs

\* A deletion whose queues have gone and are not taken from the count, in the
\* end with what it will take; a creation whose queue is not in the count; and one
\* that has found room in the plan and has not inserted its queue.
Deletes == {"delete", "deleteBulk"}
Freeing(r) == r.op \in Deletes /\ r.pc \in 4..6
Taking(r) == r.op \in Deletes /\ r.pc = 6
Uncounted(r) == r.op = "create" /\ r.pc = 6
Admitted(r) == r.op = "create" /\ r.pc \in 4..5 /\ ~r.blind

Held(q) == \E s \in Slots : Freeing(req[s]) /\ q \in req[s].qs
Awaited(q) == \E s \in Slots : Uncounted(req[s]) /\ q \in req[s].qs
InMonth(q) == doc[q].fresh /\ (doc[q].freed => Held(q))

\* What the count is, and what of it the quota is about.
Due == {q \in Queues : InMonth(q) /\ ~Awaited(q)}
CheckedQueues == {q \in Counted : ~doc[q].unchecked}
New(S) == {q \in S : doc[q].fresh}

DocsProper ==
    \A q \in Queues : /\ doc[q].freed => doc[q].st = "gone"
                      /\ doc[q].fresh => doc[q].st # "none"
OneEach == \A s \in Slots : req[s].op = "create" => \E q \in Queues : req[s].qs = {q}

\* What a deletion has removed is freed, once; what it is about to take has been
\* counted; and what a creation is about to add is in the month.
Frees == \A s \in Slots : Freeing(req[s]) => \A q \in req[s].qs : doc[q].freed
Once == \A s, t \in Slots : s # t /\ Freeing(req[s]) /\ Freeing(req[t])
                              => req[s].qs \cap req[t].qs = {}
Takes == \A s \in Slots : Taking(req[s]) =>
            /\ req[s].less = Cardinality(New(req[s].qs))
            /\ \A q \in req[s].qs : ~Awaited(q)
Adds == \A q \in Queues : Awaited(q) => InMonth(q)
CountsDue == count = Cardinality(Due)

\* A creation that was let pass has room for its queue.
Room ==
    /\ Cardinality(CheckedQueues) <= Limit
    /\ \A s \in Slots : Admitted(req[s]) /\ s \notin lapsed
                          => Cardinality(CheckedQueues) < Limit
Skips == \A s \in Slots : Uncounted(req[s]) /\ s \in lapsed
                            => \A q \in req[s].qs : doc[q].unchecked

Books == CountsDue /\ Frees /\ Once /\ Takes /\ Adds /\ Skips
MonthInv == DocsProper /\ OneEach /\ (~drift => Books /\ Room)
-----------------------------------------------------------------------------
(* The requests in between *)

\* r holds and awaits the queues that o does.
SameRole(o, r) ==
    /\ Freeing(r) <=> Freeing(o)
    /\ Uncounted(r) <=> Uncounted(o)
    /\ Freeing(o) \/ Uncounted(o) => r.qs = o.qs
    /\ Taking(r) => Taking(o) /\ r.less = o.less

\* The request after a command that neither inserts, removes nor counts.
LEMMA OnwardRole ==
    ASSUME NEW o, NEW r, Proper(o), Like(o, r), Freeing(o) => r.qs = o.qs,
           Command(o) \notin {"insert", "count", "docs", "host", "decrement"}
    PROVE  /\ SameRole(o, Onward(r))
           /\ Onward(r).op = "create" => o.op = "create" /\ Onward(r).qs = o.qs
           /\ Command(o) # "quota" \/ r.blind => (Admitted(Onward(r)) => Admitted(o))
  <1>1. Proper(r) /\ r.op = o.op /\ r.pc = o.pc /\ o.pc \in 1..11 /\ (o.blind => r.blind)
          /\ (o.op = "create" => r.qs = o.qs)
    BY DEF Proper, Like, Request
  <1>2. /\ o.op = "create" => o.pc \notin {5, 6} /\ (Command(o) # "quota" => o.pc # 3)
        /\ o.op \in Deletes => o.pc \notin {3, 5, 6}
    BY DEF Command, Steps, CreateSteps, DeleteSteps, Deletes
  <1>3. CASE Onward(r) = Idle
    <2>1. ~Freeing(Idle) /\ ~Uncounted(Idle) /\ ~Taking(Idle) /\ ~Admitted(Idle) /\ Idle.op = "none"
      BY DEF Freeing, Uncounted, Taking, Admitted, Idle, Deletes
    <2>2. ~Freeing(o)
      <3>1. o.pc = Len(Steps[o.op]) \/ Onward(r).op = o.op
        BY <1>1, OnwardIs
      <3>2. o.op \in Deletes => Len(Steps[o.op]) = 10 /\ o.op # "none"
        BY DEF Deletes, Steps, DeleteSteps
      <3>3. o.op \in Deletes => o.pc = 10
        BY <1>3, <2>1, <3>1, <3>2
      <3> QED
        BY <3>3 DEF Freeing
    <2>3. ~Uncounted(o)
      BY <1>2 DEF Uncounted
    <2> QED
      BY <1>3, <2>1, <2>2, <2>3 DEF SameRole
  <1>4. CASE Onward(r) # Idle
    <2> DEFINE n == Onward(r)
    <2>1. n.op = o.op /\ n.pc = o.pc + 1 /\ n.qs = r.qs /\ n.blind = r.blind
      BY <1>1, <1>4, OnwardIs
    <2> HIDE DEF n
    <2>2. Freeing(n) <=> Freeing(o)
      BY <1>1, <1>2, <2>1 DEF Freeing
    <2>3. ~Uncounted(n) /\ ~Uncounted(o) /\ ~Taking(n)
      BY <1>1, <1>2, <2>1 DEF Uncounted, Taking
    <2>4. Command(o) # "quota" \/ r.blind => (Admitted(n) => Admitted(o))
      BY <1>1, <1>2, <2>1 DEF Admitted
    <2>5. n.op = "create" => o.op = "create" /\ n.qs = o.qs
      BY <1>1, <2>1
    <2>6. SameRole(o, n)
      BY <2>1, <2>2, <2>3 DEF SameRole
    <2> QED
      BY <2>4, <2>5, <2>6 DEF n
  <1> QED
    BY <1>3, <1>4

\* A request that ends or gives up, where it has nothing to count.
LEMMA PlainRole ==
    ASSUME NEW o, NEW r, ~Freeing(o), ~Uncounted(o), ~Freeing(r), ~Uncounted(r)
    PROVE  SameRole(o, r)
  <1>1. ~Taking(r)
    BY DEF Taking, Freeing
  <1> QED
    BY <1>1 DEF SameRole

\* The positions at which a request has something to count.
LEMMA WhenPlain ==
    ASSUME NEW o, Proper(o)
    PROVE  /\ Command(o) \notin {"release", "host", "decrement"} => ~Freeing(o)
           /\ Command(o) # "count" => ~Uncounted(o)
           /\ Taking(o) => Command(o) = "decrement"
  <1>1. o.pc \in 1..11
    BY DEF Proper, Request
  <1> QED
    BY <1>1 DEF Freeing, Uncounted, Taking, Deletes, Command, Steps, CreateSteps, DeleteSteps

\* A free slot has nothing to count.
LEMMA IdlePlain == ~Freeing(Idle) /\ ~Uncounted(Idle) /\ ~Taking(Idle) /\ ~Admitted(Idle)
                     /\ Idle.op = "none"
  BY DEF Freeing, Uncounted, Taking, Admitted, Idle, Deletes
-----------------------------------------------------------------------------
(* The parts of the invariant over a step *)

\* The sets that are counted are finite.
LEMMA Finite == /\ IsFiniteSet(Due) /\ IsFiniteSet(CheckedQueues) /\ IsFiniteSet(Counted)
                /\ \A S \in SUBSET Queues : IsFiniteSet(S)
                /\ Cardinality(Due) \in Nat /\ Cardinality(CheckedQueues) \in Nat
  <1>1. \A S \in SUBSET Queues : IsFiniteSet(S)
    BY HostQueuesAssumption, FS_Subset
  <1>2. Due \in SUBSET Queues /\ CheckedQueues \in SUBSET Queues /\ Counted \in SUBSET Queues
    BY DEF Due, CheckedQueues, Counted
  <1> QED
    BY <1>1, <1>2, FS_CardinalityType

\* What a step may do to the queues without the count: a place in the month is
\* neither won nor lost, and no queue becomes one that was checked.
DocsKeep ==
    \A q \in Queues :
        /\ doc'[q].fresh = doc[q].fresh /\ doc'[q].freed = doc[q].freed
        /\ doc[q].unchecked => doc'[q].unchecked
        /\ doc'[q].st = "none" <=> doc[q].st = "none"
        /\ doc[q].st = "gone" => doc'[q].st = "gone"

\* Such a step keeps what the quota is about.
LEMMA CheckedKept ==
    ASSUME IInv, IInv', DocsKeep
    PROVE  CheckedQueues' \subseteq CheckedQueues
  BY DEF DocsKeep, CheckedQueues, Counted, IInv, StoreTypes, Doc

\* The roles decide which queues are held and awaited.
LEMMA RolesKept ==
    ASSUME \A s \in Slots : SameRole(req[s], req'[s])
    PROVE  \A q : Held(q)' = Held(q) /\ Awaited(q)' = Awaited(q)
  BY DEF Held, Awaited, SameRole

\* A step in which no request counts keeps the books.
LEMMA BooksKept ==
    ASSUME IInv, IInv', Books, DocsKeep, count' = count,
           \A s \in Slots : SameRole(req[s], req'[s]),
           \A s \in Slots : Uncounted(req'[s]) /\ s \in lapsed' => s \in lapsed
    PROVE  Books'
  <1>1. \A q : Held(q)' = Held(q) /\ Awaited(q)' = Awaited(q)
    BY RolesKept
  <1>2. \A q \in Queues : InMonth(q)' = InMonth(q)
    BY <1>1 DEF InMonth, DocsKeep
  <1>3. Due' = Due
    BY <1>1, <1>2 DEF Due
  <1>4. \A s \in Slots : req[s].qs \subseteq Queues
    BY SlotTypes DEF Request
  <1>5. CountsDue'
    BY <1>3 DEF Books, CountsDue
  <1>6. Frees'
    BY <1>4 DEF Books, Frees, SameRole, DocsKeep
  <1>7. Once'
    BY DEF Books, Once, SameRole
  <1>8. Takes'
    <2> SUFFICES ASSUME NEW s \in Slots, Taking(req'[s])
                 PROVE  /\ req'[s].less = Cardinality({q \in req'[s].qs : doc'[q].fresh})
                        /\ \A q \in req'[s].qs : ~Awaited(q)'
      BY DEF Takes, Awaited, New
    <2>1. Taking(req[s]) /\ req'[s].less = req[s].less /\ req'[s].qs = req[s].qs
      BY DEF SameRole, Taking, Freeing
    <2>2. {q \in req'[s].qs : doc'[q].fresh} = New(req[s].qs)
      BY <1>4, <2>1 DEF New, DocsKeep
    <2> QED
      BY <1>1, <2>1, <2>2 DEF Books, Takes
  <1>9. Adds'
    BY <1>1, <1>2 DEF Books, Adds
  <1>10. Skips'
    BY <1>4 DEF Books, Skips, SameRole, DocsKeep
  <1> QED
    BY <1>5, <1>6, <1>7, <1>8, <1>9, <1>10 DEF Books

\* A step that lets no creation pass and adds no queue keeps the room.
LEMMA RoomKept ==
    ASSUME Room, CheckedQueues' \subseteq CheckedQueues,
           \A s \in Slots : Admitted(req'[s]) /\ s \notin lapsed'
                              => Admitted(req[s]) /\ s \notin lapsed
    PROVE  Room'
  <1>1. Cardinality(CheckedQueues') <= Cardinality(CheckedQueues)
          /\ Cardinality(CheckedQueues) \in Nat /\ Cardinality(CheckedQueues') \in Nat
    BY Finite, FS_Subset, FS_CardinalityType
  <1>2. Limit \in Nat
    BY HostQueuesAssumption
  <1>3. Cardinality(CheckedQueues') <= Limit
    BY <1>1, <1>2 DEF Room
  <1>4. \A s \in Slots : Admitted(req'[s]) /\ s \notin lapsed'
                           => Cardinality(CheckedQueues') < Limit
    BY <1>1, <1>2 DEF Room
  <1> QED
    BY <1>3, <1>4 DEF Room

\* The documents stay in order, and each creation has its queue.
LEMMA ShapeKept ==
    ASSUME IInv, IInv', MonthInv, DocsKeep,
           \A s \in Slots : req'[s].op = "create"
              => \/ req[s].op = "create" /\ req'[s].qs = req[s].qs
                 \/ \E q \in Queues : req'[s].qs = {q}
    PROVE  DocsProper' /\ OneEach'
  <1>1. DocsProper'
    BY DEF DocsKeep, MonthInv, DocsProper
  <1>2. OneEach'
    BY DEF MonthInv, OneEach
  <1> QED
    BY <1>1, <1>2

\* A step in which no request counts, or that is noted in drift.
LEMMA Unaffected ==
    ASSUME IInv, IInv', MonthInv, DocsKeep, count' = count, drift => drift',
           \A s \in Slots : req'[s].op = "create"
              => \/ req[s].op = "create" /\ req'[s].qs = req[s].qs
                 \/ \E q \in Queues : req'[s].qs = {q},
           \A s \in Slots : ~drift' => SameRole(req[s], req'[s]),
           \A s \in Slots : ~drift' /\ Uncounted(req'[s]) /\ s \in lapsed' => s \in lapsed,
           \A s \in Slots : ~drift' /\ Admitted(req'[s]) /\ s \notin lapsed'
                              => Admitted(req[s]) /\ s \notin lapsed
    PROVE  MonthInv'
  <1>1. DocsProper' /\ OneEach'
    BY ShapeKept
  <1>2. ASSUME ~drift' PROVE Books' /\ Room'
    <2>1. Books /\ Room
      BY <1>2 DEF MonthInv
    <2>2. Books'
      BY <1>2, <2>1, BooksKept
    <2>3. Room'
      BY <1>2, <2>1, RoomKept, CheckedKept
    <2> QED
      BY <2>2, <2>3
  <1> QED
    BY <1>1, <1>2 DEF MonthInv

\* Such a step of one request.
LEMMA Moves ==
    ASSUME IInv, IInv', MonthInv, DocsKeep, count' = count, drift => drift',
           NEW s \in Slots, NEW r, req' = [req EXCEPT ![s] = r],
           r.op = "create" => \/ req[s].op = "create" /\ r.qs = req[s].qs
                              \/ \E q \in Queues : r.qs = {q},
           ~drift' => SameRole(req[s], r),
           lapsed' \subseteq lapsed, \A t \in Slots : t # s /\ t \in lapsed => t \in lapsed',
           ~drift' /\ Admitted(r) /\ s \notin lapsed' => Admitted(req[s]) /\ s \notin lapsed
    PROVE  MonthInv'
  <1>1. req'[s] = r /\ \A t \in Slots : t # s => req'[t] = req[t]
    BY DEF IInv, RequestTypes
  <1>2. \A t \in Slots : SameRole(req[t], req[t])
    BY DEF SameRole
  <1>3. \A t \in Slots : req'[t].op = "create"
              => \/ req[t].op = "create" /\ req'[t].qs = req[t].qs
                 \/ \E q \in Queues : req'[t].qs = {q}
    BY <1>1
  <1>4. \A t \in Slots : ~drift' => SameRole(req[t], req'[t])
    BY <1>1, <1>2
  <1>5. \A t \in Slots : ~drift' /\ Uncounted(req'[t]) /\ t \in lapsed' => t \in lapsed
    OBVIOUS
  <1>6. \A t \in Slots : ~drift' /\ Admitted(req'[t]) /\ t \notin lapsed'
                              => Admitted(req[t]) /\ t \notin lapsed
    BY <1>1
  <1> QED
    BY <1>3, <1>4, <1>5, <1>6, Unaffected

\* Such a step that goes on to the next command.
LEMMA MovesOn ==
    ASSUME IInv, IInv', MonthInv, DocsKeep, UNCHANGED <<count, lapsed>>, drift => drift',
           NEW s \in Slots, NEW r, Like(req[s], r), ContinueAs(s, r),
           Freeing(req[s]) => r.qs = req[s].qs,
           Step(s) \notin {"insert", "count", "docs", "host", "decrement"},
           Step(s) # "quota" \/ r.blind
    PROVE  MonthInv'
  <1> DEFINE n == Onward(r)
  <1>1. /\ SameRole(req[s], n)
        /\ n.op = "create" => req[s].op = "create" /\ n.qs = req[s].qs
        /\ Admitted(n) => Admitted(req[s])
    BY SlotTypes, OnwardRole
  <1>2. req' = [req EXCEPT ![s] = n]
    BY DEF ContinueAs
  <1> HIDE DEF n
  <1> QED
    BY <1>1, <1>2, Moves

\* Such a step after which the request has nothing to count, as it had not before.
LEMMA MovesPlainly ==
    ASSUME IInv, IInv', MonthInv, DocsKeep, count' = count, drift => drift',
           NEW s \in Slots, NEW r, req' = [req EXCEPT ![s] = r],
           r.op = "create" => \/ req[s].op = "create" /\ r.qs = req[s].qs
                              \/ \E q \in Queues : r.qs = {q},
           ~drift' => Step(s) \notin {"release", "host", "decrement", "count"},
           ~Freeing(r), ~Uncounted(r), Admitted(r) => Admitted(req[s]),
           \/ lapsed' = lapsed
           \/ lapsed' = lapsed \ {s} /\ ~Admitted(r)
    PROVE  MonthInv'
  <1>1. ~drift' => SameRole(req[s], r)
    BY SlotTypes, WhenPlain, PlainRole
  <1> QED
    BY <1>1, Moves

\* A step that leaves the requests.
LEMMA Elsewhere ==
    ASSUME IInv, IInv', MonthInv, DocsKeep, UNCHANGED <<count, req, lapsed>>, drift => drift'
    PROVE  MonthInv'
  <1>1. \A s \in Slots : SameRole(req[s], req[s])
    BY DEF SameRole
  <1> QED
    BY <1>1, Unaffected

\* A step that leaves the documents.
LEMMA SameDocs == doc' = doc => DocsKeep
  BY DEF DocsKeep
-----------------------------------------------------------------------------
(* The commands that do not count *)

\* Acquiring and releasing the lock of the creation, and its checks.
LEMMA CreateMonth ==
    ASSUME IInv, IInv', MonthInv, NEW s \in Slots,
           \/ AcquireLock(s) \/ CheckActive(s) \/ GenerateCode(s) \/ ReleaseLock(s)
           \/ InsertCollides(s)
    PROVE  MonthInv'
  <1> USE SlotTypes, SameDocs, LikeItself, IdlePlain DEF At, mongo, redis, history
  <1>1. CASE AcquireLock(s)
    <2>1. CASE Continue(s)
      BY <1>1, <2>1, MovesOn DEF AcquireLock, Continue
    <2>2. CASE Finish(s)
      BY <1>1, <2>2, MovesPlainly DEF AcquireLock, Finish
    <2> QED
      BY <1>1, <2>1, <2>2 DEF AcquireLock
  <1>2. ASSUME Jump(s, "unlock"), Step(s) \in {"active", "quota", "code", "insert"},
               UNCHANGED <<doc, count, drift, lapsed>>
        PROVE  MonthInv'
    <2> DEFINE r == [req[s] EXCEPT !.pc = 11]
    <2>1. req[s].op = "create"
      BY <1>2, AtCreate
    <2>2. req' = [req EXCEPT ![s] = r]
      BY <1>2, <2>1, Jumps DEF Jump, IInv, RequestTypes
    <2>3. r.op = "create" /\ r.pc = 11 /\ r.qs = req[s].qs
      BY <2>1 DEF Request
    <2> HIDE DEF r
    <2>4. ~Freeing(r) /\ ~Uncounted(r) /\ ~Admitted(r)
      BY <2>3 DEF Freeing, Uncounted, Admitted
    <2> QED
      BY <1>2, <2>1, <2>2, <2>3, <2>4, MovesPlainly
  <1>3. CASE CheckActive(s)
    <2>1. CASE Continue(s)
      BY <1>3, <2>1, MovesOn DEF CheckActive, Continue
    <2>2. CASE Jump(s, "unlock")
      BY <1>2, <1>3, <2>2 DEF CheckActive
    <2> QED
      BY <1>3, <2>1, <2>2 DEF CheckActive
  <1>4. CASE GenerateCode(s)
    <2>1. CASE \E c \in Codes, q \in req[s].qs : ContinueAs(s, [req[s] EXCEPT !.code = c])
      <3>1. PICK c \in Codes : ContinueAs(s, [req[s] EXCEPT !.code = c])
        BY <2>1
      <3> DEFINE r == [req[s] EXCEPT !.code = c]
      <3>2. Like(req[s], r) /\ r.qs = req[s].qs
        BY DEF Like, Request
      <3>3. ContinueAs(s, r)
        BY <3>1
      <3> HIDE DEF r
      <3> QED
        BY <1>4, <3>2, <3>3, MovesOn DEF GenerateCode
    <2>2. CASE Jump(s, "unlock")
      BY <1>2, <1>4, <2>2 DEF GenerateCode
    <2> QED
      BY <1>4, <2>1, <2>2 DEF GenerateCode
  <1>5. CASE ReleaseLock(s)
    BY <1>5, MovesPlainly DEF ReleaseLock, Finish
  <1>6. CASE InsertCollides(s)
    <2>1. CASE Jump(s, "unlock")
      BY <1>2, <1>6, <2>1 DEF InsertCollides
    <2>2. CASE req' = [req EXCEPT ![s].pc = Index("create", "code"), ![s].tries = @ + 1]
      <3> DEFINE r == [req[s] EXCEPT !.pc = 4, !.tries = @ + 1]
      <3>1. req[s].op = "create" /\ req[s].pc = 5
        BY <1>6, AtCreate DEF InsertCollides
      <3>2. req' = [req EXCEPT ![s] = r]
        BY <2>2, Jumps DEF IInv, RequestTypes
      <3>3. r.op = "create" /\ r.pc = 4 /\ r.qs = req[s].qs /\ r.blind = req[s].blind
        BY <3>1 DEF Request
      <3> HIDE DEF r
      <3>4. ~Freeing(r) /\ ~Uncounted(r) /\ (Admitted(r) => Admitted(req[s]))
        BY <3>1, <3>3 DEF Freeing, Uncounted, Admitted, Deletes
      <3> QED
        BY <1>6, <3>1, <3>2, <3>3, <3>4, MovesPlainly DEF InsertCollides
    <2> QED
      BY <1>6, <2>1, <2>2 DEF InsertCollides
  <1> QED
    BY <1>1, <1>3, <1>4, <1>5, <1>6

\* Ending a queue leaves its place in the month.
LEMMA EndMonth ==
    ASSUME IInv, IInv', MonthInv, NEW s \in Slots, EndQueue(s)
    PROVE  MonthInv'
  <1>1. DocsKeep
    <2>1. \A q \in Queues : \/ doc'[q] = doc[q]
                            \/ Stored(q) /\ doc'[q] = [doc[q] EXCEPT !.st = "ended"]
      BY DEF EndQueue, IInv, StoreTypes
    <2>2. \A q \in Queues : Stored(q) /\ doc'[q] = [doc[q] EXCEPT !.st = "ended"] =>
             /\ doc'[q].fresh = doc[q].fresh /\ doc'[q].freed = doc[q].freed
             /\ doc'[q].unchecked = doc[q].unchecked /\ doc'[q].st = "ended"
             /\ doc[q].st \notin {"none", "gone"}
      BY DEF IInv, StoreTypes, Doc, Stored
    <2> QED
      BY <2>1, <2>2 DEF DocsKeep
  <1> QED
    BY <1>1, SlotTypes, LikeItself, MovesOn DEF EndQueue, At, Continue, history

\* The other commands of a request that changes queues.
LEMMA ChangeMonth ==
    ASSUME IInv, IInv', MonthInv, NEW s \in Slots,
           \/ ReleaseCodes(s) \/ CleanExpired(s) \/ FindQueues(s) \/ DeleteEntries(s)
           \/ FindOrphans(s) \/ PurgeOrphans(s)
    PROVE  MonthInv'
  <1> USE SlotTypes, SameDocs, LikeItself, IdlePlain DEF At, mongo, redis, history
  <1>1. CASE ReleaseCodes(s)
    BY <1>1, MovesOn DEF ReleaseCodes, Continue
  <1>2. CASE CleanExpired(s)
    BY <1>2, MovesOn DEF CleanExpired, Continue
  <1>3. CASE FindQueues(s)
    <2>1. req[s].op \in {"delete", "deleteBulk", "clear"} /\ req[s].pc = 1
      BY <1>3, AtChange DEF FindQueues
    <2>2. CASE req[s].op = "delete" /\ Finish(s)
      BY <1>3, <2>2, MovesPlainly DEF FindQueues, Finish
    <2>3. CASE req[s].op = "deleteBulk" /\ Jump(s, "keys")
      <3> DEFINE r == [req[s] EXCEPT !.pc = 8]
      <3>1. req' = [req EXCEPT ![s] = r]
        BY <2>3, Jumps DEF Jump, IInv, RequestTypes
      <3>2. r.op = "deleteBulk" /\ r.pc = 8
        BY <2>3 DEF Request
      <3> HIDE DEF r
      <3>3. ~Freeing(r) /\ ~Uncounted(r) /\ ~Admitted(r)
        BY <3>2 DEF Freeing, Uncounted, Admitted
      <3> QED
        BY <1>3, <3>1, <3>2, <3>3, MovesPlainly DEF FindQueues
    <2>4. ASSUME NEW qs \in SUBSET Queues, NEW live \in SUBSET Queues,
                 ContinueAs(s, [req[s] EXCEPT !.qs = qs, !.live = live])
          PROVE  MonthInv'
      <3> DEFINE r == [req[s] EXCEPT !.qs = qs, !.live = live]
      <3>1. Like(req[s], r)
        <4>1. r = [req[s] EXCEPT !.qs = qs, !.live = live] /\ req[s] \in Request
          OBVIOUS
        <4> HIDE SlotTypes, LikeItself, IdlePlain DEF r
        <4>2. r \in Request /\ r.op = req[s].op /\ r.pc = req[s].pc /\ r.blind = req[s].blind
          BY <4>1 DEF Request
        <4> QED
          BY <2>1, <4>2 DEF Like
      <3>2. ~Freeing(req[s])
        BY <2>1 DEF Freeing
      <3>3. ContinueAs(s, r)
        BY <2>4
      <3> HIDE DEF r
      <3> QED
        BY <1>3, <3>1, <3>2, <3>3, MovesOn DEF FindQueues
    <2>5. {q \in IF req[s].op = "clear" THEN Queues ELSE req[s].qs : Stored(q)} \in SUBSET Queues
      BY DEF Request
    <2>6. \A S \in SUBSET Queues : S \cap InState("live") \in SUBSET Queues
      OBVIOUS
    <2> QED
      BY <1>3, <2>1, <2>2, <2>3, <2>4, <2>5, <2>6 DEF FindQueues
  <1>4. CASE DeleteEntries(s)
    BY <1>4, MovesOn DEF DeleteEntries, Continue
  <1>5. CASE FindOrphans(s)
    <2> DEFINE found == {q \in entries : ~Stored(q)}
               r == [req[s] EXCEPT !.found = found]
    <2>1. found \subseteq Queues
      BY DEF IInv, StoreTypes
    <2>2. ContinueAs(s, r)
      BY <1>5 DEF FindOrphans
    <2> HIDE DEF found
    <2>3. Like(req[s], r) /\ r.qs = req[s].qs
      BY <2>1 DEF Like, Request
    <2> HIDE DEF r
    <2> QED
      BY <1>5, <2>2, <2>3, MovesOn DEF FindOrphans
  <1>6. CASE PurgeOrphans(s)
    BY <1>6, MovesOn DEF PurgeOrphans, Continue
  <1> QED
    BY <1>1, <1>2, <1>3, <1>4, <1>5, <1>6

\* The invalidations.
LEMMA CacheMonth ==
    ASSUME IInv, IInv', MonthInv, NEW s \in Slots,
           DropViews(s) \/ DropSummary(s) \/ FindKeys(s) \/ DeleteKeys(s) \/ DropDetails(s)
    PROVE  MonthInv'
  <1> USE SlotTypes, SameDocs, LikeItself DEF At, mongo, redis, history
  <1>1. CASE DropViews(s)
    BY <1>1, MovesOn DEF DropViews, Continue
  <1>2. CASE DropSummary(s)
    BY <1>2, MovesOn DEF DropSummary, Continue
  <1>3. CASE FindKeys(s)
    <2> DEFINE found == {q \in Queues : detail[q] # NoCache}
                          \cup (IF cache["list"] = NoCache THEN {} ELSE {"list"})
               r == [req[s] EXCEPT !.found = found]
    <2>1. found \subseteq Queues \cup {"list"}
      OBVIOUS
    <2>2. ContinueAs(s, r)
      BY <1>3 DEF FindKeys
    <2> HIDE DEF found
    <2>3. Like(req[s], r) /\ r.qs = req[s].qs
      BY <2>1 DEF Like, Request
    <2> HIDE DEF r
    <2> QED
      BY <1>3, <2>2, <2>3, MovesOn DEF FindKeys
  <1>4. CASE DeleteKeys(s)
    BY <1>4, MovesOn DEF DeleteKeys, Continue
  <1>5. CASE DropDetails(s)
    BY <1>5, MovesOn DEF DropDetails, Continue
  <1> QED
    BY <1>1, <1>2, <1>3, <1>4, <1>5

\* A request that reads or joins has nothing to count.
LEMMA ReadsPlainly ==
    ASSUME IInv, IInv', MonthInv, NEW s \in Slots, UNCHANGED <<doc, count, drift, lapsed>>,
           NEW r, req' = [req EXCEPT ![s] = r],
           req[s].op \in {"list", "dashboard", "detail", "join"},
           r.op = req[s].op \/ r.op = "none"
    PROVE  MonthInv'
  <1>1. r.op \notin Deletes \cup {"create"} /\ req[s].op \notin Deletes \cup {"create"}
    BY DEF Deletes
  <1>2. /\ ~Freeing(r) /\ ~Uncounted(r) /\ ~Admitted(r)
        /\ ~Freeing(req[s]) /\ ~Uncounted(req[s])
    BY <1>1 DEF Freeing, Uncounted, Admitted
  <1> QED
    BY <1>1, <1>2, SameDocs, PlainRole, Moves

\* The reads and the joins.
LEMMA ReadMonth ==
    ASSUME IInv, IInv', MonthInv, NEW s \in Slots,
           \/ ReadQueues(s) \/ ReadSummary(s) \/ ReadDetail(s) \/ ResolveQueue(s)
           \/ FillSummary(s) \/ FillList(s) \/ FillDashboard(s) \/ FillDetail(s)
           \/ InsertEntry(s)
    PROVE  MonthInv'
  <1> USE SlotTypes DEF At, mongo, redis, history
  <1>1. /\ req[s].op \in {"list", "dashboard", "detail", "join"}
        /\ UNCHANGED <<doc, count, drift, lapsed>>
    BY AtRead DEF ReadQueues, ReadSummary, ReadDetail, ResolveQueue, FillSummary, FillList,
                  FillDashboard, FillDetail, Fill, InsertEntry
  <1>2. ASSUME NEW r, Proper(r), r.op = req[s].op, ContinueAs(s, r)
        PROVE  MonthInv'
    <2> DEFINE n == Onward(r)
    <2>1. (n.op = req[s].op \/ n.op = "none") /\ req' = [req EXCEPT ![s] = n]
      BY <1>2, OnwardIs, IdlePlain DEF ContinueAs
    <2> HIDE DEF n
    <2> QED
      BY <1>1, <2>1, ReadsPlainly
  <1>3. CASE Continue(s)
    BY <1>2, <1>3 DEF Continue
  <1>4. CASE Finish(s)
    BY <1>1, <1>4, ReadsPlainly, IdlePlain DEF Finish
  <1>5. CASE ReadQueues(s)
    <2> DEFINE ended == InState("ended")
               live == InState("live")
               r == [req[s] EXCEPT !.qs = ended, !.live = live]
    <2>1. ended \in SUBSET Queues /\ live \in SUBSET Queues
      BY DEF InState
    <2>2. ContinueAs(s, r)
      BY <1>5 DEF ReadQueues
    <2> HIDE DEF ended, live
    <2>3. r \in Request /\ r.op = req[s].op /\ r.pc = req[s].pc
      BY <2>1 DEF Request
    <2> HIDE DEF r
    <2> QED
      BY <1>2, <2>2, <2>3 DEF Proper
  <1>6. CASE ReadSummary(s)
    <2>1. req'[s].op = req[s].op /\ req' = [req EXCEPT ![s] = req'[s]]
      BY <1>6 DEF ReadSummary, IInv, RequestTypes, Request
    <2> QED
      BY <1>1, <2>1, ReadsPlainly
  <1>7. CASE ReadDetail(s)
    <2>1. CASE ContinueAs(s, [req[s] EXCEPT !.live = @ \cup (req[s].qs \cap InState("live"))])
      <3> DEFINE l == req[s].live \cup (req[s].qs \cap InState("live"))
                 r == [req[s] EXCEPT !.live = l]
      <3>1. l \subseteq Queues
        BY DEF InState, Request
      <3>2. ContinueAs(s, r)
        BY <2>1
      <3> HIDE DEF l
      <3>3. r \in Request /\ r.op = req[s].op /\ r.pc = req[s].pc
        BY <3>1 DEF Request
      <3> HIDE DEF r
      <3> QED
        BY <1>2, <3>2, <3>3 DEF Proper
    <2> QED
      BY <1>4, <1>7, <2>1 DEF ReadDetail
  <1>8. CASE ResolveQueue(s)
    BY <1>3, <1>4, <1>8 DEF ResolveQueue
  <1>9. CASE FillSummary(s) \/ FillList(s) \/ FillDashboard(s) \/ FillDetail(s) \/ InsertEntry(s)
    BY <1>3, <1>9 DEF FillSummary, FillList, FillDashboard, Fill, FillDetail, InsertEntry
  <1> QED
    BY <1>5, <1>6, <1>7, <1>8, <1>9

\* A request that begins has nothing to count.
LEMMA StartMonth ==
    ASSUME IInv, IInv', MonthInv, NEW s \in Slots, Start(s)
    PROVE  MonthInv'
  <1> USE DEF mongo
  <1>1. ASSUME NEW op \in Requests, NEW o \in Request, o.pc = 1, Begin(s, op, o),
               op = "create" => \E q \in Queues : o.qs = {q}
        PROVE  MonthInv'
    <2> DEFINE r == [o EXCEPT !.op = op]
    <2>1. r.op = op /\ r.pc = 1 /\ r.qs = o.qs
      BY <1>1 DEF Request
    <2>2. /\ req' = [req EXCEPT ![s] = r] /\ req[s].op = "none"
          /\ UNCHANGED <<doc, count, drift, lapsed>>
      BY <1>1 DEF Begin
    <2> HIDE DEF r
    <2>3. /\ ~Freeing(r) /\ ~Uncounted(r) /\ ~Admitted(r)
          /\ ~Freeing(req[s]) /\ ~Uncounted(req[s])
      BY <1>1, <2>1, <2>2 DEF Freeing, Uncounted, Admitted, Deletes
    <2> QED
      BY <1>1, <2>1, <2>2, <2>3, SameDocs, PlainRole, Moves
  <1>2. ASSUME NEW qs \in SUBSET Queues, NEW live \in SUBSET Queues
        PROVE  /\ [Idle EXCEPT !.qs = qs] \in Request /\ [Idle EXCEPT !.qs = qs].pc = 1
               /\ [Idle EXCEPT !.qs = qs].qs = qs
               /\ [Idle EXCEPT !.qs = qs, !.live = live] \in Request
               /\ [Idle EXCEPT !.qs = qs, !.live = live].pc = 1
    <2>1. Idle \in Request /\ Idle.pc = 1
      BY IdleProper DEF Proper, Idle
    <2> HIDE DEF Idle
    <2> QED
      BY <2>1 DEF Request
  <1>3. Idle \in Request /\ Idle.pc = 1
    BY IdleProper DEF Proper, Idle
  <1> HIDE DEF Idle
  <1>4. CASE StartCreate(s)
    <2> DEFINE q == CHOOSE q \in Unused : TRUE
               o == [Idle EXCEPT !.qs = {q}]
    <2>1. q \in Queues
      BY <1>4 DEF StartCreate, Unused, InState
    <2>2. Begin(s, "create", o)
      BY <1>4 DEF StartCreate
    <2> HIDE DEF q
    <2>3. {q} \in SUBSET Queues
      BY <2>1
    <2>4. o \in Request /\ o.pc = 1 /\ o.qs = {q}
      BY <1>2, <2>3
    <2> HIDE DEF o
    <2> QED
      BY <1>1, <2>1, <2>2, <2>4 DEF Requests
  <1>5. CASE StartDelete(s)
    BY <1>1, <1>2, <1>5 DEF StartDelete, Requests
  <1>6. CASE StartClear(s)
    BY <1>1, <1>3, <1>6 DEF StartClear, Requests
  <1>7. CASE StartRead(s)
    <2>1. ASSUME NEW q \in Queues, Begin(s, "detail", [Idle EXCEPT !.qs = {q}])
          PROVE  MonthInv'
      BY <1>1, <1>2, <2>1 DEF Requests
    <2>2. ASSUME NEW op \in {"list", "dashboard"}, Begin(s, op, Idle)
          PROVE  MonthInv'
      BY <1>1, <1>3, <2>2 DEF Requests
    <2> QED
      BY <1>7, <2>1, <2>2 DEF StartRead
  <1>8. ASSUME NEW q \in Queues, StartEnd(s, q) \/ StartSweep(s, q) \/ StartJoin(s, q)
        PROVE  MonthInv'
    <2>1. {q} \in SUBSET Queues /\ ({q} \cap InState("live")) \in SUBSET Queues
      OBVIOUS
    <2> QED
      BY <1>1, <1>2, <1>8, <2>1 DEF StartEnd, StartSweep, StartJoin, Requests
  <1> QED
    BY <1>4, <1>5, <1>6, <1>7, <1>8 DEF Start

\* A failed command that counts is noted in drift; the others leave nothing to count.
LEMMA FailMonth ==
    ASSUME IInv, IInv', MonthInv, NEW s \in Slots, CommandFails(s)
    PROVE  MonthInv'
  <1> USE SlotTypes, LikeItself DEF At, mongo, redis
  <1>1. /\ UNCHANGED <<mongo, redis, scenario, stray>>
        /\ drift' = (drift \/ Step(s) \in {"count", "host", "decrement"})
        /\ lapsed' = IF Step(s) = "unlock" THEN lapsed \ {s} ELSE lapsed
    BY DEF CommandFails
  <1>2. DocsKeep /\ count' = count /\ (drift => drift')
    BY <1>1, SameDocs
  <1>3. CASE Finish(s) /\ Step(s) \notin {"release", "host", "decrement", "count"}
    BY <1>1, <1>2, <1>3, MovesPlainly, IdlePlain DEF Finish
  <1>4. CASE Jump(s, "unlock") /\ Step(s) \in {"quota", "code", "insert"}
    <2> DEFINE r == [req[s] EXCEPT !.pc = 11]
    <2>1. req[s].op = "create"
      BY <1>4, AtCreate
    <2>2. req' = [req EXCEPT ![s] = r]
      BY <1>4, <2>1, Jumps DEF Jump, IInv, RequestTypes
    <2>3. r.op = "create" /\ r.pc = 11 /\ r.qs = req[s].qs
      BY <2>1 DEF Request
    <2> HIDE DEF r
    <2>4. ~Freeing(r) /\ ~Uncounted(r) /\ ~Admitted(r)
      BY <2>3 DEF Freeing, Uncounted, Admitted
    <2> QED
      BY <1>1, <1>2, <1>4, <2>1, <2>2, <2>3, <2>4, MovesPlainly
  <1>5. CASE Step(s) \in {"active", "quota"} /\ ContinueAs(s, [req[s] EXCEPT !.blind = TRUE])
    <2> DEFINE r == [req[s] EXCEPT !.blind = TRUE]
    <2>1. Like(req[s], r) /\ r.qs = req[s].qs /\ r.blind
      BY DEF Like, Request
    <2>2. ContinueAs(s, r)
      BY <1>5
    <2> HIDE DEF r
    <2>3. lapsed' = lapsed
      BY <1>1, <1>5
    <2> QED
      BY <1>2, <1>5, <2>1, <2>2, <2>3, MovesOn
  <1>6. CASE Step(s) \in {"host", "orphans", "purge"} /\ Jump(s, "drop")
    <2> DEFINE i == Index(req[s].op, "drop")
               r == [req[s] EXCEPT !.pc = i]
    <2>1. /\ req[s].op \in {"delete", "deleteBulk", "clear"}
          /\ i = IF req[s].op = "clear" THEN 6 ELSE 7
      BY <1>6, AtChange, Jumps
    <2>2. req' = [req EXCEPT ![s] = r]
      BY <1>6 DEF Jump, IInv, RequestTypes
    <2> HIDE DEF i
    <2>3. r.op = req[s].op /\ r.pc = i
      BY DEF Request
    <2> HIDE DEF r
    <2>4. ~Freeing(r) /\ ~Uncounted(r) /\ ~Admitted(r) /\ r.op # "create"
      BY <2>1, <2>3 DEF Freeing, Uncounted, Admitted, Deletes
    <2>5. lapsed' = lapsed /\ (~drift' => Step(s) # "host")
      BY <1>1, <1>6
    <2> QED
      BY <1>2, <1>6, <2>2, <2>4, <2>5, MovesPlainly
  <1>7. CASE Continue(s) /\ Step(s) \in {"release", "clean", "drop", "summary", "keys", "unkey",
                                         "undetail", "end"}
    <2>1. lapsed' = lapsed
      BY <1>1, <1>7
    <2> QED
      BY <1>2, <1>7, <2>1, MovesOn DEF Continue
  <1>8. CASE Continue(s) /\ Step(s) \in {"count", "decrement"}
    <2>1. drift' /\ lapsed' = lapsed
      BY <1>1, <1>8
    <2> DEFINE n == Onward(req[s])
    <2>2. req' = [req EXCEPT ![s] = n] /\ (n.op = "create" => req[s].op = "create" /\ n.qs = req[s].qs)
      BY <1>8, OnwardIs, IdlePlain DEF Continue, ContinueAs
    <2> HIDE DEF n
    <2> QED
      BY <1>2, <2>1, <2>2, Moves
  <1>9. CASE Step(s) = "total" /\ Jump(s, "fillList")
    <2> DEFINE r == [req[s] EXCEPT !.pc = 4]
    <2>1. req[s].op = "list"
      BY <1>9, AtRead
    <2>2. req' = [req EXCEPT ![s] = r]
      BY <1>9, <2>1, Jumps DEF Jump, IInv, RequestTypes
    <2>3. r.op = "list"
      BY <2>1 DEF Request
    <2> HIDE DEF r
    <2>4. UNCHANGED <<doc, count, drift, lapsed>>
      BY <1>1, <1>9 DEF IInv, StoreTypes
    <2> QED
      BY <2>1, <2>2, <2>3, <2>4, ReadsPlainly
  <1> QED
    BY <1>3, <1>4, <1>5, <1>6, <1>7, <1>8, <1>9 DEF CommandFails
-----------------------------------------------------------------------------
(* The commands that count *)

\* A reset empties the month, and with it what the count stands for.
LEMMA ResetMonth ==
    ASSUME IInv, IInv', MonthInv, ResetCount,
           \A s \in Slots : req'[s].op = "create"
                              => req[s].op = "create" /\ req'[s].qs = req[s].qs,
           \A s \in Slots : SameRole(req[s], req'[s])
    PROVE  MonthInv'
  <1>1. \A q \in Queues : /\ doc'[q].fresh = FALSE /\ doc'[q].freed = doc[q].freed
                          /\ doc'[q].st = doc[q].st
    <2> DEFINE e(d) == [d EXCEPT !.fresh = FALSE]
    <2>1. \A d \in Doc : e(d).fresh = FALSE /\ e(d).freed = d.freed /\ e(d).st = d.st
      BY DEF Doc
    <2>2. doc \in [Queues -> Doc]
      BY DEF IInv, StoreTypes
    <2>3. doc' = [q \in Queues |-> e(doc[q])]
      BY DEF ResetCount
    <2> HIDE DEF e
    <2> QED
      BY <2>1, <2>2, <2>3
  <1>2. DocsProper'
    BY <1>1 DEF MonthInv, DocsProper
  <1>3. OneEach'
    BY DEF MonthInv, OneEach
  <1>4. ASSUME ~drift' PROVE Books' /\ Room'
    <2>1. Books /\ ~Counting
      BY <1>4 DEF MonthInv, ResetCount
    <2>2. \A s \in Slots : ~Uncounted(req[s]) /\ ~Taking(req[s])
      BY <2>1, SlotTypes DEF Counting, Uncounted, Taking, Deletes, Step, Steps, CreateSteps,
                            DeleteSteps
    <2>3. \A s \in Slots : ~Uncounted(req'[s]) /\ ~Taking(req'[s])
      BY <2>2 DEF SameRole
    <2>4. Due' = {} /\ CheckedQueues' = {} /\ count' = 0
      BY <1>1 DEF Due, InMonth, CheckedQueues, Counted, ResetCount
    <2>5. CountsDue'
      BY <2>4, FS_EmptySet DEF CountsDue
    <2>6. Frees'
      <3>1. \A s \in Slots : req[s].qs \subseteq Queues
        BY SlotTypes DEF Request
      <3> QED
        BY <1>1, <2>1, <3>1 DEF Books, Frees, SameRole
    <2>7. Once'
      BY <2>1 DEF Books, Once, SameRole
    <2>8. Takes' /\ Adds' /\ Skips'
      BY <2>3 DEF Takes, Adds, Skips, Awaited
    <2>9. Room'
      BY <2>4, FS_EmptySet, HostQueuesAssumption DEF Room
    <2> QED
      BY <2>5, <2>6, <2>7, <2>8, <2>9 DEF Books
  <1> QED
    BY <1>2, <1>3, <1>4 DEF MonthInv

\* The creation that has the lock is let pass when the count is below the limit:
\* every checked queue is in the count, as a creation that is yet to count its own
\* has lost its lock.
LEMMA CheckQuotaMonth ==
    ASSUME IInv, IInv', MonthInv, NEW s \in Slots, CheckQuota(s)
    PROVE  MonthInv'
  <1> USE SlotTypes, LikeItself, SameDocs DEF At, redis
  <1>1. req[s].op = "create" /\ req[s].pc = 3 /\ Step(s) = "quota"
          /\ UNCHANGED <<entries, redis, lapsed>>
    BY AtCreate DEF CheckQuota
  <1> DEFINE n == Onward(req[s])
  <1>2. /\ SameRole(req[s], n) /\ (n.op = "create" => n.qs = req[s].qs)
        /\ n.pc = 4 /\ n.op = "create"
    <2>1. SameRole(req[s], n) /\ (n.op = "create" => n.qs = req[s].qs)
      BY <1>1, OnwardRole
    <2>2. n.pc = 4 /\ n.op = "create"
      <3>1. Len(Steps[req[s].op]) = 11
        BY <1>1 DEF Steps, CreateSteps
      <3>2. n = [req[s] EXCEPT !.pc = 4]
        BY <1>1, <3>1 DEF Onward
      <3> HIDE DEF n
      <3> QED
        BY <1>1, <3>2 DEF Request
    <2> QED
      BY <2>1, <2>2
  <1> HIDE DEF n
  <1>3. Continue(s) => /\ req' = [req EXCEPT ![s] = n] /\ req'[s] = n
                       /\ \A t \in Slots : t # s => req'[t] = req[t]
    BY DEF n, Continue, ContinueAs, IInv, RequestTypes
  <1>4. \A t \in Slots : SameRole(req[t], req[t])
    BY DEF SameRole
  <1>5. Continue(s) => /\ \A t \in Slots : SameRole(req[t], req'[t])
                       /\ \A t \in Slots : req'[t].op = "create"
                              => req[t].op = "create" /\ req'[t].qs = req[t].qs
    BY <1>1, <1>2, <1>3, <1>4
  <1>6. CASE resetDue
    BY <1>5, <1>6, ResetMonth DEF CheckQuota
  <1>7. CASE ~resetDue /\ Jump(s, "unlock")
    <2> DEFINE r == [req[s] EXCEPT !.pc = 11]
    <2>1. req' = [req EXCEPT ![s] = r]
      BY <1>1, <1>7, Jumps DEF Jump, IInv, RequestTypes
    <2>2. r.op = "create" /\ r.pc = 11 /\ r.qs = req[s].qs
      BY <1>1 DEF Request
    <2> HIDE DEF r
    <2>3. ~Freeing(r) /\ ~Uncounted(r) /\ ~Admitted(r)
      BY <2>2 DEF Freeing, Uncounted, Admitted
    <2>4. UNCHANGED <<doc, count, drift>>
      BY <1>7 DEF CheckQuota
    <2> QED
      BY <1>1, <2>1, <2>2, <2>3, <2>4, MovesPlainly
  <1>8. CASE ~resetDue /\ Continue(s) /\ count < Limit
    <2>1. UNCHANGED <<doc, count, drift>>
      BY <1>8 DEF CheckQuota
    <2>2. DocsProper' /\ OneEach'
      BY <1>5, <1>8, <2>1, ShapeKept
    <2>3. ASSUME ~drift' PROVE Books' /\ Room'
      <3>1. Books /\ Room
        BY <2>1, <2>3 DEF MonthInv
      <3>2. Books'
        BY <1>1, <1>5, <1>8, <2>1, <3>1, BooksKept
      <3>3. CheckedQueues' = CheckedQueues
        BY <2>1 DEF CheckedQueues, Counted
      <3>4. ASSUME s \notin lapsed PROVE Cardinality(CheckedQueues) < Limit
        <4>1. ASSUME NEW t \in Slots, Uncounted(req[t]) PROVE t \in lapsed
          <5>1. Creating(req[s]) /\ Creating(req[t]) /\ t # s
            BY <1>1, <4>1 DEF Creating, Uncounted
          <5> QED
            BY <3>4, <5>1 DEF IInv, LockOwned
        <4>2. CheckedQueues \subseteq Due
          BY <3>1, <4>1 DEF CheckedQueues, Counted, Due, InMonth, Awaited, Books, Skips
        <4>3. Cardinality(CheckedQueues) <= Cardinality(Due)
          BY <4>2, Finite, FS_Subset
        <4> QED
          BY <1>8, <3>1, <4>3, Finite, HostQueuesAssumption DEF Books, CountsDue
      <3>5. Room'
        <4>1. \A t \in Slots : t # s => req'[t] = req[t]
          BY <1>3, <1>8
        <4> QED
          BY <1>1, <3>1, <3>3, <3>4, <4>1 DEF Room
      <3> QED
        BY <3>2, <3>5
    <2> QED
      BY <2>2, <2>3 DEF MonthInv
  <1>9. count < Limit \/ count >= Limit
    BY HostQueuesAssumption DEF IInv, StoreTypes
  <1> QED
    BY <1>6, <1>7, <1>8, <1>9 DEF CheckQuota

\* A new queue is awaited before it is due.
LEMMA InsertMonth ==
    ASSUME IInv, IInv', MonthInv, NEW s \in Slots, InsertQueue(s)
    PROVE  MonthInv'
  <1> USE SlotTypes DEF At, redis, history
  <1>1. req[s].op = "create" /\ req[s].pc = 5 /\ req[s].qs \subseteq Queues
    BY AtCreate DEF InsertQueue, Request
  <1>2. PICK q \in req[s].qs :
            doc' = [doc EXCEPT ![q] = [NoDoc EXCEPT !.st = "live", !.code = req[s].code,
                       !.fresh = TRUE, !.unchecked = s \in lapsed \/ req[s].blind]]
    BY DEF InsertQueue
  <1>3. PICK r : /\ Proper(r) /\ r.op = "create" /\ r.pc = 6
                 /\ r.qs = req[s].qs /\ req' = [req EXCEPT ![s] = r]
    BY <1>1, NextCreate DEF InsertQueue
  <1>4. req'[s] = r /\ \A t \in Slots : t # s => req'[t] = req[t]
    BY <1>3, SlotChanged
  <1> DEFINE d == [NoDoc EXCEPT !.st = "live", !.code = req[s].code,
                       !.fresh = TRUE, !.unchecked = s \in lapsed \/ req[s].blind]
  <1>5. /\ d.st = "live" /\ d.fresh /\ ~d.freed
        /\ d.unchecked <=> s \in lapsed \/ req[s].blind
    BY DEF NoDoc
  <1>6. doc' = [doc EXCEPT ![q] = d] /\ q \in Queues
    BY <1>1, <1>2
  <1> HIDE DEF d
  <1>7. doc'[q] = d /\ \A p \in Queues : p # q => doc'[p] = doc[p]
    BY <1>6 DEF IInv, StoreTypes
  <1>8. UNCHANGED <<count, lapsed, drift>>
    BY DEF InsertQueue
  <1>9. req[s].qs = {q} /\ doc[q].st = "none" /\ ~doc[q].fresh /\ ~doc[q].freed
    BY <1>1, <1>6 DEF MonthInv, OneEach, DocsProper, IInv, CreatesOwn
  <1>10. DocsProper' /\ OneEach'
    BY <1>1, <1>3, <1>4, <1>5, <1>7 DEF MonthInv, DocsProper, OneEach
  <1>11. ASSUME ~drift' PROVE Books' /\ Room'
    <2>1. Books /\ Room
      BY <1>8, <1>11 DEF MonthInv
    <2>2. /\ ~Freeing(r) /\ Uncounted(r) /\ ~Taking(r) /\ ~Admitted(r)
          /\ ~Freeing(req[s]) /\ ~Uncounted(req[s])
      BY <1>1, <1>3 DEF Freeing, Uncounted, Taking, Admitted, Deletes
    <2>3. /\ \A p : Held(p)' <=> Held(p)
          /\ \A p : Awaited(p)' <=> Awaited(p) \/ p = q
      BY <1>3, <1>4, <1>9, <2>2 DEF Held, Awaited
    <2>4. \A t \in Slots : Freeing(req[t]) => q \notin req[t].qs
      BY <1>9, <2>1 DEF Books, Frees
    <2>5. CountsDue'
      <3>1. ~InMonth(q)
        BY <1>9 DEF InMonth
      <3>2. \A p \in Queues : p # q => (InMonth(p)' <=> InMonth(p))
        BY <1>7, <2>3 DEF InMonth
      <3>3. Due' = Due
        BY <2>3, <3>1, <3>2 DEF Due
      <3> QED
        BY <1>8, <2>1, <3>3 DEF Books, CountsDue
    <2>6. \A t \in Slots : req[t].qs \subseteq Queues
      BY DEF Request
    <2>7. Frees'
      BY <1>4, <1>7, <2>1, <2>2, <2>4, <2>6 DEF Books, Frees
    <2>8. Once'
      BY <1>4, <2>1, <2>2 DEF Books, Once
    <2>9. Takes'
      <3> SUFFICES ASSUME NEW t \in Slots, Taking(req'[t])
                   PROVE  /\ req'[t].less = Cardinality({p \in req'[t].qs : doc'[p].fresh})
                          /\ \A p \in req'[t].qs : ~Awaited(p)'
        BY DEF Takes, Awaited, New
      <3>1. req'[t] = req[t] /\ Taking(req[t]) /\ q \notin req[t].qs
        BY <1>4, <2>2, <2>4 DEF Taking, Freeing
      <3>2. {p \in req'[t].qs : doc'[p].fresh} = New(req[t].qs)
        BY <1>7, <2>6, <3>1 DEF New
      <3> QED
        BY <2>1, <2>3, <3>1, <3>2 DEF Books, Takes
    <2>10. Adds'
      <3>1. InMonth(q)'
        BY <1>5, <1>7 DEF InMonth
      <3>2. \A p \in Queues : p # q /\ InMonth(p) => InMonth(p)'
        BY <1>7, <2>3 DEF InMonth
      <3> QED
        BY <2>1, <2>3, <3>1, <3>2 DEF Books, Adds
    <2>11. Skips'
      <3>1. \A t \in Slots : t # s /\ req[t].op = "create" => q \notin req[t].qs
        BY <1>1, <1>9 DEF IInv, CreatesOwn
      <3> SUFFICES ASSUME NEW t \in Slots, Uncounted(req'[t]), t \in lapsed', NEW p \in req'[t].qs
                   PROVE  doc'[p].unchecked
        BY DEF Skips
      <3>2. CASE t = s
        BY <1>3, <1>4, <1>5, <1>7, <1>8, <1>9, <3>2
      <3>3. CASE t # s
        <4>1. req'[t] = req[t] /\ p # q /\ doc'[p] = doc[p]
          BY <1>4, <1>7, <2>6, <3>1, <3>3 DEF Uncounted
        <4> QED
          BY <1>8, <2>1, <4>1 DEF Books, Skips
      <3> QED
        BY <3>2, <3>3
    <2>12. Room'
      <3>1. CASE d.unchecked
        <4>1. CheckedQueues' \subseteq CheckedQueues
          BY <1>7, <3>1 DEF CheckedQueues, Counted
        <4> QED
          BY <1>4, <1>8, <2>1, <2>2, <4>1, RoomKept
      <3>2. CASE ~d.unchecked
        <4>1. Admitted(req[s]) /\ s \notin lapsed /\ Creating(req[s])
          BY <1>1, <1>5, <3>2 DEF Admitted, Creating
        <4>2. Cardinality(CheckedQueues) < Limit
          BY <2>1, <4>1 DEF Room
        <4>3. CheckedQueues' \subseteq CheckedQueues \cup {q}
          BY <1>7 DEF CheckedQueues, Counted
        <4>4. Cardinality(CheckedQueues \cup {q}) <= Cardinality(CheckedQueues) + 1
                /\ IsFiniteSet(CheckedQueues \cup {q})
          <5>1. /\ IsFiniteSet(CheckedQueues \cup {q})
                /\ Cardinality(CheckedQueues \cup {q})
                     = IF q \in CheckedQueues THEN Cardinality(CheckedQueues)
                                             ELSE Cardinality(CheckedQueues) + 1
            BY Finite, FS_AddElement, Zenon
          <5> QED
            BY <5>1, Finite
        <4>5. Cardinality(CheckedQueues') <= Limit
          <5>1. /\ Cardinality(CheckedQueues') <= Cardinality(CheckedQueues \cup {q})
                /\ Cardinality(CheckedQueues') \in Nat /\ Cardinality(CheckedQueues \cup {q}) \in Nat
            BY <4>3, <4>4, FS_Subset, FS_CardinalityType
          <5> QED
            BY <4>2, <4>4, <5>1, Finite, HostQueuesAssumption
        <4>6. \A t \in Slots : t \notin lapsed' => ~Admitted(req'[t])
          <5>1. \A t \in Slots : Admitted(req[t]) /\ t \notin lapsed => t = s
            BY <4>1 DEF IInv, LockOwned, Creating, Admitted
          <5> QED
            BY <1>4, <1>8, <2>2, <5>1
        <4> QED
          BY <4>5, <4>6 DEF Room
      <3> QED
        BY <3>1, <3>2
    <2> QED
      BY <2>5, <2>7, <2>8, <2>9, <2>10, <2>11, <2>12 DEF Books
  <1> QED
    BY <1>10, <1>11 DEF MonthInv

\* The $inc of a creation: its queue is due from now.
LEMMA IncrementMonth ==
    ASSUME IInv, IInv', MonthInv, NEW s \in Slots, IncrementCount(s)
    PROVE  MonthInv'
  <1> USE SlotTypes DEF At, redis, history
  <1>1. req[s].op = "create" /\ req[s].pc = 6
          /\ UNCHANGED <<doc, lapsed, drift>> /\ count' = count + 1
    BY AtCreate DEF IncrementCount
  <1>2. PICK r : /\ Proper(r) /\ r.op = "create" /\ r.pc = 7
                 /\ r.qs = req[s].qs /\ req' = [req EXCEPT ![s] = r]
    BY <1>1, NextCreate DEF IncrementCount
  <1>3. req'[s] = r /\ \A t \in Slots : t # s => req'[t] = req[t]
    BY <1>2, SlotChanged
  <1>4. PICK q \in Queues : req[s].qs = {q}
    BY <1>1 DEF MonthInv, OneEach
  <1>5. DocsProper' /\ OneEach'
    BY <1>1, <1>2, <1>3 DEF MonthInv, DocsProper, OneEach
  <1>6. ASSUME ~drift' PROVE Books' /\ Room'
    <2>1. Books /\ Room
      BY <1>1, <1>6 DEF MonthInv
    <2>2. /\ ~Freeing(r) /\ ~Uncounted(r) /\ ~Taking(r) /\ ~Admitted(r)
          /\ ~Freeing(req[s]) /\ Uncounted(req[s]) /\ ~Taking(req[s])
      BY <1>1, <1>2 DEF Freeing, Uncounted, Taking, Admitted, Deletes
    <2>3. \A t \in Slots : t # s /\ Uncounted(req[t]) => q \notin req[t].qs
      BY <1>1, <1>4 DEF Uncounted, IInv, CreatesOwn
    <2>4. /\ \A p : Held(p)' <=> Held(p)
          /\ Awaited(q) /\ \A p : Awaited(p)' <=> Awaited(p) /\ p # q
      BY <1>3, <1>4, <2>2, <2>3 DEF Held, Awaited
    <2>5. \A p \in Queues : InMonth(p)' <=> InMonth(p)
      BY <1>1, <2>4 DEF InMonth
    <2>6. InMonth(q) /\ q \notin Due
      BY <2>1, <2>4 DEF Books, Adds, Due
    <2>7. CountsDue'
      <3>1. Due' = Due \cup {q}
        BY <2>4, <2>5, <2>6 DEF Due
      <3>2. Cardinality(Due \cup {q}) = Cardinality(Due) + 1
        BY <2>6, Finite, FS_AddElement, Zenon
      <3> QED
        BY <1>1, <2>1, <3>1, <3>2 DEF Books, CountsDue
    <2>8. Frees' /\ Once'
      BY <1>1, <1>3, <2>1, <2>2 DEF Books, Frees, Once
    <2>9. Takes'
      <3> SUFFICES ASSUME NEW t \in Slots, Taking(req'[t])
                   PROVE  /\ req'[t].less = Cardinality({p \in req'[t].qs : doc'[p].fresh})
                          /\ \A p \in req'[t].qs : ~Awaited(p)'
        BY DEF Takes, Awaited, New
      <3>1. req'[t] = req[t] /\ Taking(req[t])
        BY <1>3, <2>2
      <3> QED
        BY <1>1, <2>1, <2>4, <3>1 DEF Books, Takes, New
    <2>10. Adds'
      BY <2>1, <2>4, <2>5 DEF Books, Adds
    <2>11. Skips'
      BY <1>1, <1>3, <2>1, <2>2 DEF Books, Skips
    <2>12. Room'
      <3>1. CheckedQueues' \subseteq CheckedQueues
        BY <1>1 DEF CheckedQueues, Counted
      <3> QED
        BY <1>1, <1>3, <2>1, <2>2, <3>1, RoomKept
    <2> QED
      BY <2>7, <2>8, <2>9, <2>10, <2>11, <2>12 DEF Books
  <1> QED
    BY <1>5, <1>6 DEF MonthInv

\* The request after the step of a deletion that frees or counts.
LEMMA NextDelete ==
    ASSUME IInv, NEW s \in Slots, NEW r \in Request, r.op = req[s].op, r.pc = req[s].pc,
           req[s].op \in Deletes, req[s].pc \in 3..6, ContinueAs(s, r)
    PROVE  \E n : /\ n.op = r.op /\ n.pc = r.pc + 1 /\ n.qs = r.qs /\ n.less = r.less
                  /\ req' = [req EXCEPT ![s] = n]
  <1> DEFINE n == Onward(r)
  <1>1. Len(Steps[r.op]) = 10 /\ r.pc # 10
    BY DEF Deletes, Steps, DeleteSteps
  <1>2. n = [r EXCEPT !.pc = r.pc + 1]
    BY <1>1 DEF Onward
  <1>3. req' = [req EXCEPT ![s] = n]
    BY DEF ContinueAs
  <1> HIDE DEF n
  <1>4. n.op = r.op /\ n.pc = r.pc + 1 /\ n.qs = r.qs /\ n.less = r.less
    BY <1>2 DEF Request
  <1> QED
    BY <1>3, <1>4

\* A deletion frees what it removes, and holds its place until it has taken it from
\* the count; clearing the history frees nothing.
LEMMA DeleteMonth ==
    ASSUME IInv, IInv', MonthInv, NEW s \in Slots, DeleteQueues(s)
    PROVE  MonthInv'
  <1> USE SlotTypes DEF At, redis
  <1> DEFINE all == req[s].op = "clear"
             qs == {q \in Queues : Stored(q) /\ (all \/ q \in req[s].qs)}
             f == ~all
  <1>1. /\ doc' = [q \in Queues |-> IF q \in qs
                        THEN [doc[q] EXCEPT !.st = "gone", !.freed = f] ELSE doc[q]]
        /\ drift' = (drift \/ (~all /\ qs # req[s].qs))
        /\ Continue(s) /\ UNCHANGED <<count, lapsed>>
    BY DEF DeleteQueues
  <1>2. req[s].op \in Deletes \cup {"clear"} /\ req[s].pc = 3 /\ req[s].qs \subseteq Queues
    BY AtChange DEF DeleteQueues, Deletes, Request
  <1>3. \A q \in Queues : q \in qs => Stored(q) /\ ~doc[q].freed /\ doc[q].st # "gone"
    BY DEF MonthInv, DocsProper, Stored
  <1>4. \A q \in Queues :
            /\ q \notin qs => doc'[q] = doc[q]
            /\ q \in qs => /\ doc'[q].st = "gone" /\ doc'[q].freed = f
                           /\ doc'[q].fresh = doc[q].fresh /\ doc'[q].unchecked = doc[q].unchecked
    <2> DEFINE d(q) == [doc[q] EXCEPT !.st = "gone", !.freed = f]
    <2>1. doc' = [q \in Queues |-> IF q \in qs THEN d(q) ELSE doc[q]]
      BY <1>1
    <2>2. \A q \in Queues : /\ d(q).st = "gone" /\ d(q).freed = f
                            /\ d(q).fresh = doc[q].fresh /\ d(q).unchecked = doc[q].unchecked
      BY DEF IInv, StoreTypes, Doc
    <2> HIDE DEF d, qs, f
    <2> QED
      BY <2>1, <2>2
  <1>5. CASE all
    <2>1. DocsKeep
      BY <1>3, <1>4, <1>5 DEF DocsKeep, Stored, IInv, StoreTypes, Doc
    <2>2. SameRole(req[s], Onward(req[s])) /\ Onward(req[s]).op # "create"
            /\ ~Admitted(Onward(req[s]))
      <3> DEFINE n == Onward(req[s])
      <3>1. n.op \in {"clear", "none"}
        BY <1>5, OnwardIs, IdlePlain
      <3> HIDE DEF n
      <3>2. /\ ~Freeing(n) /\ ~Uncounted(n) /\ ~Admitted(n)
            /\ ~Freeing(req[s]) /\ ~Uncounted(req[s])
        BY <1>5, <3>1 DEF Freeing, Uncounted, Admitted, Deletes
      <3> QED
        BY <3>1, <3>2, PlainRole DEF n
    <2>3. drift => drift'
      BY <1>1
    <2> QED
      BY <1>1, <2>1, <2>2, <2>3, Moves DEF Continue, ContinueAs
  <1>6. CASE ~all
    <2>1. req[s].op \in Deletes /\ f
      BY <1>2, <1>6
    <2> HIDE DEF f, all
    <2>2. PICK r : /\ r.op = req[s].op /\ r.pc = 4 /\ r.qs = req[s].qs
                   /\ req' = [req EXCEPT ![s] = r]
      <3>1. ContinueAs(s, req[s]) /\ req[s].pc \in 3..6 /\ req[s] \in Request
        <4>1. ContinueAs(s, req[s])
          BY <1>1, Zenon DEF Continue
        <4>2. req[s].pc \in 3..6
          BY <1>2
        <4> QED
          BY <4>1, <4>2
      <3>2. PICK n : /\ n.op = req[s].op /\ n.pc = req[s].pc + 1 /\ n.qs = req[s].qs
                     /\ req' = [req EXCEPT ![s] = n]
        BY <2>1, <3>1, NextDelete
      <3>3. n.pc = 4
        BY <1>2, <3>2
      <3> QED
        BY <3>2, <3>3, Zenon
    <2>3. req'[s] = r /\ \A t \in Slots : t # s => req'[t] = req[t]
      BY <2>2 DEF IInv, RequestTypes
    <2> HIDE DEF qs
    <2>4. DocsProper' /\ OneEach'
      <3>1. DocsProper'
        BY <1>4 DEF MonthInv, DocsProper
      <3>2. r.op # "create"
        BY <2>1, <2>2 DEF Deletes
      <3> QED
        BY <2>3, <3>1, <3>2 DEF MonthInv, OneEach
    <2>5. ASSUME ~drift' PROVE Books' /\ Room'
      <3>1. Books /\ Room /\ qs = req[s].qs
        BY <1>1, <1>6, <2>5 DEF MonthInv
      <3>2. /\ Freeing(r) /\ ~Uncounted(r) /\ ~Taking(r) /\ ~Admitted(r)
            /\ ~Freeing(req[s]) /\ ~Uncounted(req[s])
        BY <1>2, <2>1, <2>2 DEF Freeing, Uncounted, Taking, Admitted, Deletes
      <3>3. /\ \A p : Held(p)' <=> Held(p) \/ p \in qs
            /\ \A p : Awaited(p)' <=> Awaited(p)
        BY <2>2, <2>3, <3>1, <3>2 DEF Held, Awaited
      <3>4. \A p \in Queues : InMonth(p)' <=> InMonth(p)
        BY <1>3, <1>4, <2>1, <3>3 DEF InMonth
      <3>5. CountsDue'
        <4>1. Due' = Due
          BY <3>3, <3>4 DEF Due
        <4> QED
          BY <1>1, <3>1, <4>1 DEF Books, CountsDue
      <3>6. \A t \in Slots : req[t].qs \subseteq Queues
        BY DEF Request
      <3>7. \A t \in Slots : Freeing(req[t]) => req[t].qs \cap qs = {}
        BY <1>3, <3>1, <3>6 DEF Books, Frees
      <3>8. Frees'
        <4>1. \A q \in qs : doc'[q].freed
          BY <1>4, <2>1, <3>1, <3>6
        <4>2. \A q \in Queues : doc[q].freed => doc'[q].freed
          BY <1>4, <2>1
        <4> QED
          BY <2>2, <2>3, <3>1, <3>6, <4>1, <4>2 DEF Books, Frees
      <3>9. Once'
        BY <2>2, <2>3, <3>1, <3>7 DEF Books, Once
      <3>10. \A p \in Queues : doc'[p].fresh = doc[p].fresh /\ doc'[p].unchecked = doc[p].unchecked
        BY <1>4
      <3>11. Takes'
        <4> SUFFICES ASSUME NEW t \in Slots, Taking(req'[t])
                     PROVE  /\ req'[t].less = Cardinality({p \in req'[t].qs : doc'[p].fresh})
                            /\ \A p \in req'[t].qs : ~Awaited(p)'
          BY DEF Takes, Awaited, New
        <4>1. req'[t] = req[t] /\ Taking(req[t])
          BY <2>3, <3>2
        <4>2. {p \in req'[t].qs : doc'[p].fresh} = New(req[t].qs)
          BY <3>6, <3>10, <4>1 DEF New
        <4> QED
          BY <3>1, <3>3, <4>1, <4>2 DEF Books, Takes
      <3>12. Adds'
        BY <3>1, <3>3, <3>4 DEF Books, Adds
      <3>13. Skips'
        BY <1>1, <2>3, <3>1, <3>2, <3>6, <3>10 DEF Books, Skips
      <3>14. Room'
        <4>1. CheckedQueues' \subseteq CheckedQueues
          BY <1>3, <1>4 DEF CheckedQueues, Counted, Stored
        <4> QED
          BY <1>1, <2>3, <3>1, <3>2, <4>1, RoomKept
      <3> QED
        BY <3>5, <3>8, <3>9, <3>11, <3>12, <3>13, <3>14 DEF Books
    <2> QED
      BY <2>4, <2>5 DEF MonthInv
  <1> QED
    BY <1>5, <1>6

\* What a deletion takes when the count has room for it.
LEMMA TakesAll ==
    ASSUME NEW a \in Nat, NEW c \in Int, a <= c
    PROVE  Min({a, Max({c, 0})}) = a
  <1>1. Max({c, 0}) = c
    BY DEF Max
  <1> QED
    BY <1>1 DEF Min

\* DecrementMonthlyQueueCount reads how many of its queues the count holds: all that
\* are fresh, as each of them is still due.
LEMMA ReadHostMonth ==
    ASSUME IInv, IInv', MonthInv, NEW s \in Slots, ReadHost(s)
    PROVE  MonthInv'
  <1> USE SlotTypes DEF At, mongo, redis
  <1>1. /\ req[s].op \in Deletes /\ req[s].pc = 5 /\ req[s].qs \subseteq Queues
        /\ UNCHANGED <<doc, count, lapsed>>
        /\ drift' = (drift \/ \E o \in Slots : Step(o) = "count" /\ req[o].qs \cap req[s].qs # {})
    BY AtChange DEF ReadHost, Deletes, Request
  <1> DEFINE m == Min({Cardinality(New(req[s].qs)), Max({count, 0})})
             o == [req[s] EXCEPT !.less = m]
  <1>2. ContinueAs(s, o)
    BY DEF ReadHost, New
  <1> HIDE DEF m
  <1>3. m \in Nat
    <2>1. New(req[s].qs) \in SUBSET Queues /\ count \in Int
      BY <1>1 DEF New, IInv, StoreTypes
    <2> DEFINE k == Cardinality(New(req[s].qs))
    <2>2. k \in Nat
      BY <2>1, Finite, FS_CardinalityType
    <2> HIDE DEF k
    <2>3. Max({count, 0}) \in Nat
      BY <2>1 DEF Max
    <2>4. Min({k, Max({count, 0})}) \in Nat
      BY <2>2, <2>3 DEF Min
    <2> QED
      BY <2>4 DEF m, k
  <1>4. o \in Request /\ o.op = req[s].op /\ o.pc = 5 /\ o.qs = req[s].qs /\ o.less = m
    BY <1>1, <1>3 DEF Request
  <1> HIDE DEF o
  <1>5. PICK r : /\ r.op = req[s].op /\ r.pc = 6 /\ r.qs = req[s].qs /\ r.less = m
                 /\ req' = [req EXCEPT ![s] = r]
    <2>1. PICK n : /\ n.op = o.op /\ n.pc = o.pc + 1 /\ n.qs = o.qs /\ n.less = o.less
                   /\ req' = [req EXCEPT ![s] = n]
      BY <1>1, <1>2, <1>4, NextDelete
    <2>2. n.pc = 6
      BY <1>4, <2>1
    <2> QED
      BY <1>4, <2>1, <2>2, Zenon
  <1>6. req'[s] = r /\ \A t \in Slots : t # s => req'[t] = req[t]
    BY <1>5 DEF IInv, RequestTypes
  <1>7. DocsProper' /\ OneEach'
    BY <1>1, <1>5, <1>6 DEF MonthInv, DocsProper, OneEach, Deletes
  <1>8. ASSUME ~drift' PROVE Books' /\ Room'
    <2>1. Books /\ Room /\ \A t \in Slots : Step(t) = "count" => req[t].qs \cap req[s].qs = {}
      BY <1>1, <1>8 DEF MonthInv
    <2>2. /\ Freeing(r) /\ ~Uncounted(r) /\ ~Admitted(r)
          /\ Freeing(req[s]) /\ ~Uncounted(req[s])
      BY <1>1, <1>5 DEF Freeing, Uncounted, Admitted, Deletes
    <2>3. \A p : (Held(p)' <=> Held(p)) /\ (Awaited(p)' <=> Awaited(p))
      BY <1>5, <1>6, <2>2 DEF Held, Awaited
    <2>4. \A p \in Queues : InMonth(p)' <=> InMonth(p)
      BY <1>1, <2>3 DEF InMonth
    <2>5. CountsDue'
      <3>1. Due' = Due
        BY <2>3, <2>4 DEF Due
      <3> QED
        BY <1>1, <2>1, <3>1 DEF Books, CountsDue
    <2>6. Frees' /\ Once'
      BY <1>1, <1>5, <1>6, <2>1, <2>2 DEF Books, Frees, Once
    <2>7. \A q \in req[s].qs : ~Awaited(q)
      <3>1. \A t \in Slots : Uncounted(req[t]) => Step(t) = "count"
        BY WhenPlain
      <3> QED
        BY <2>1, <3>1 DEF Awaited
    <2>8. m = Cardinality(New(req[s].qs))
      <3>1. New(req[s].qs) \subseteq Due
        BY <1>1, <2>2, <2>7 DEF New, Due, InMonth, Held
      <3>2. /\ Cardinality(New(req[s].qs)) <= count /\ Cardinality(New(req[s].qs)) \in Nat
            /\ count \in Int
        BY <2>1, <3>1, Finite, FS_Subset, FS_CardinalityType
        DEF Books, CountsDue, IInv, StoreTypes
      <3> QED
        BY <3>2, TakesAll DEF m
    <2>9. Takes'
      <3> SUFFICES ASSUME NEW t \in Slots, Taking(req'[t])
                   PROVE  /\ req'[t].less = Cardinality({p \in req'[t].qs : doc'[p].fresh})
                          /\ \A p \in req'[t].qs : ~Awaited(p)'
        BY DEF Takes, Awaited, New
      <3>1. CASE t = s
        BY <1>1, <1>5, <1>6, <2>3, <2>7, <2>8, <3>1 DEF New
      <3>2. CASE t # s
        BY <1>1, <1>6, <2>1, <2>3, <3>2 DEF Books, Takes, New
      <3> QED
        BY <3>1, <3>2
    <2>10. Adds'
      BY <2>1, <2>3, <2>4 DEF Books, Adds
    <2>11. Skips'
      BY <1>1, <1>6, <2>1, <2>2 DEF Books, Skips
    <2>12. Room'
      <3>1. CheckedQueues' \subseteq CheckedQueues
        BY <1>1 DEF CheckedQueues, Counted
      <3> QED
        BY <1>1, <1>6, <2>1, <2>2, <3>1, RoomKept
    <2> QED
      BY <2>5, <2>6, <2>9, <2>10, <2>11, <2>12 DEF Books
  <1> QED
    BY <1>7, <1>8 DEF MonthInv

\* The $inc of a deletion: its queues are due no more.
LEMMA DecrementMonth ==
    ASSUME IInv, IInv', MonthInv, NEW s \in Slots, DecrementCount(s)
    PROVE  MonthInv'
  <1> USE SlotTypes DEF At, redis, history
  <1>1. /\ req[s].op \in Deletes /\ req[s].pc = 6 /\ req[s].qs \subseteq Queues
        /\ UNCHANGED <<doc, lapsed, drift>> /\ count' = count - req[s].less
    BY AtChange DEF DecrementCount, Deletes, Request
  <1>2. PICK r : /\ r.op = req[s].op /\ r.pc = 7 /\ r.qs = req[s].qs
                 /\ req' = [req EXCEPT ![s] = r]
    <2>1. ContinueAs(s, req[s]) /\ req[s].pc \in 3..6 /\ req[s] \in Request
      BY <1>1 DEF DecrementCount, Continue
    <2>2. PICK n : /\ n.op = req[s].op /\ n.pc = req[s].pc + 1 /\ n.qs = req[s].qs
                   /\ req' = [req EXCEPT ![s] = n]
      BY <1>1, <2>1, NextDelete
    <2>3. n.pc = 7
      BY <1>1, <2>2
    <2> QED
      BY <2>2, <2>3, Zenon
  <1>3. req'[s] = r /\ \A t \in Slots : t # s => req'[t] = req[t]
    BY <1>2 DEF IInv, RequestTypes
  <1>4. DocsProper' /\ OneEach'
    BY <1>1, <1>2, <1>3 DEF MonthInv, DocsProper, OneEach, Deletes
  <1>5. ASSUME ~drift' PROVE Books' /\ Room'
    <2> DEFINE qs == req[s].qs
    <2>1. Books /\ Room
      BY <1>1, <1>5 DEF MonthInv
    <2>2. /\ ~Freeing(r) /\ ~Uncounted(r) /\ ~Taking(r) /\ ~Admitted(r)
          /\ Freeing(req[s]) /\ ~Uncounted(req[s]) /\ Taking(req[s])
      BY <1>1, <1>2 DEF Freeing, Uncounted, Taking, Admitted, Deletes
    <2>3. \A t \in Slots : t # s /\ Freeing(req[t]) => req[t].qs \cap qs = {}
      BY <2>1, <2>2 DEF Books, Once
    <2>4. /\ \A p : Held(p)' <=> Held(p) /\ p \notin qs
          /\ \A p : Awaited(p)' <=> Awaited(p)
          /\ \A p \in qs : Held(p)
      BY <1>2, <1>3, <2>2, <2>3 DEF Held, Awaited
    <2>5. /\ \A p \in qs : doc[p].freed /\ ~Awaited(p)
          /\ req[s].less = Cardinality(New(qs))
      BY <2>1, <2>2 DEF Books, Frees, Takes
    <2>6. \A p \in Queues : InMonth(p)' <=> InMonth(p) /\ p \notin qs
      BY <1>1, <2>4, <2>5 DEF InMonth
    <2>7. CountsDue'
      <3>1. Due' = Due \ New(qs) /\ Due \cap New(qs) = New(qs)
        BY <1>1, <2>4, <2>5, <2>6 DEF Due, New, InMonth
      <3>2. Cardinality(Due \ New(qs)) = Cardinality(Due) - Cardinality(New(qs))
        BY <3>1, Finite, FS_Difference, Zenon
      <3> QED
        BY <1>1, <2>1, <2>5, <3>1, <3>2 DEF Books, CountsDue
    <2>8. Frees' /\ Once'
      BY <1>1, <1>3, <2>1, <2>2 DEF Books, Frees, Once
    <2>9. Takes'
      <3> SUFFICES ASSUME NEW t \in Slots, Taking(req'[t])
                   PROVE  /\ req'[t].less = Cardinality({p \in req'[t].qs : doc'[p].fresh})
                          /\ \A p \in req'[t].qs : ~Awaited(p)'
        BY DEF Takes, Awaited, New
      <3>1. req'[t] = req[t] /\ Taking(req[t])
        BY <1>3, <2>2
      <3> QED
        BY <1>1, <2>1, <2>4, <3>1 DEF Books, Takes, New
    <2>10. Adds'
      BY <2>1, <2>4, <2>5, <2>6 DEF Books, Adds
    <2>11. Skips'
      BY <1>1, <1>3, <2>1, <2>2 DEF Books, Skips
    <2>12. Room'
      <3>1. CheckedQueues' \subseteq CheckedQueues
        BY <1>1 DEF CheckedQueues, Counted
      <3> QED
        BY <1>1, <1>3, <2>1, <2>2, <3>1, RoomKept
    <2> QED
      BY <2>7, <2>8, <2>9, <2>10, <2>11, <2>12 DEF Books
  <1> QED
    BY <1>4, <1>5 DEF MonthInv
-----------------------------------------------------------------------------
(* Time, and the other events *)

\* The end of a month, by a payment or by time.
LEMMA MonthEndsMonth ==
    ASSUME IInv, IInv', MonthInv, MonthEnds
    PROVE  MonthInv'
  <1>1. req' = req /\ lapsed' = lapsed
    BY DEF MonthEnds
  <1>2. \A s \in Slots : SameRole(req[s], req'[s])
    BY <1>1 DEF SameRole
  <1>3. CASE ResetCount
    BY <1>1, <1>2, <1>3, ResetMonth
  <1>4. CASE UNCHANGED <<doc, count, drift>>
    BY <1>1, <1>4, SameDocs, Elsewhere
  <1> QED
    BY <1>3, <1>4 DEF MonthEnds

\* The lock of a creation that has inserted its queue lapses only into drift.
LEMMA LapseMonth ==
    ASSUME IInv, IInv', MonthInv, LockLapses
    PROVE  MonthInv'
  <1>1. /\ req' = req /\ doc' = doc /\ count' = count
        /\ lock \in Slots /\ lapsed' = lapsed \cup {lock}
        /\ drift' = (drift \/ Step(lock) = "count")
    BY DEF LockLapses, At, mongo, IInv, StoreTypes
  <1>2. \A s \in Slots : SameRole(req[s], req'[s])
    BY <1>1 DEF SameRole
  <1>3. ~drift' => ~Uncounted(req[lock])
    BY <1>1, SlotTypes, WhenPlain
  <1> QED
    BY <1>1, <1>2, <1>3, SameDocs, Unaffected

\* A crash leaves nothing to count, or is noted in drift.
LEMMA CrashMonth ==
    ASSUME IInv, IInv', MonthInv, Crash
    PROVE  MonthInv'
  <1>1. /\ doc' = doc /\ count' = count
        /\ \A s \in Slots : req'[s] = Idle
        /\ drift' = (drift \/ \E s \in Slots : Step(s) \in {"count", "release", "host", "decrement"})
    BY DEF Crash, mongo
  <1>2. \A s \in Slots : ~drift' => SameRole(req[s], req'[s])
    BY <1>1, SlotTypes, WhenPlain, PlainRole, IdlePlain
  <1> QED
    BY <1>1, <1>2, SameDocs, IdlePlain, Unaffected

\* A queue that expires, is brought back, or is removed by the TTL index keeps its
\* place in the month.
LEMMA QueueEventMonth ==
    ASSUME IInv, IInv', MonthInv, NEW q \in Queues, PassExpiry(q) \/ Reopen(q) \/ Ttl(q)
    PROVE  MonthInv'
  <1>1. UNCHANGED <<count, req, lapsed, drift>>
    BY DEF PassExpiry, Reopen, Ttl
  <1>2. doc \in [Queues -> Doc] /\ doc[q] \in Doc
    BY DEF IInv, StoreTypes
  <1>3. CASE doc' = [doc EXCEPT ![q].overdue = TRUE] \/ doc' = doc
    BY <1>1, <1>2, <1>3, Elsewhere DEF DocsKeep, Doc
  <1>4. CASE doc' = [doc EXCEPT ![q].overdue = FALSE, ![q].unchecked = TRUE]
    BY <1>1, <1>2, <1>4, Elsewhere DEF DocsKeep, Doc
  <1>5. CASE doc[q].st = "ended" /\ doc' = [doc EXCEPT ![q].st = "live", ![q].unchecked = TRUE]
    BY <1>1, <1>2, <1>5, Elsewhere DEF DocsKeep, Doc
  <1>6. CASE Stored(q) /\ doc' = [doc EXCEPT ![q].st = "gone"]
    BY <1>1, <1>2, <1>6, Elsewhere DEF DocsKeep, Doc, Stored
  <1> QED
    BY <1>3, <1>4, <1>5, <1>6 DEF PassExpiry, Reopen, Ttl

\* What expires in Redis is no part of the count.
LEMMA ExpiryMonth ==
    ASSUME IInv, IInv', MonthInv, Expiry
    PROVE  MonthInv'
  <1>1. UNCHANGED <<doc, count, req, lapsed, drift>>
    BY DEF Expiry, LockExpires, ViewExpires, DetailExpires, mongo, history
  <1> QED
    BY <1>1, SameDocs, Elsewhere
-----------------------------------------------------------------------------
(* Init, Next and the theorems *)

\* The count of the initial queue is right, and the plan has room for it.
LEMMA InitMonth == Init => MonthInv
  <1> SUFFICES ASSUME Init PROVE MonthInv
    OBVIOUS
  <1>1. First(Queues) \in Queues
    BY HostQueuesAssumption DEF First
  <1>2. PICK q \in {First(Queues)}, c \in {First(Codes)},
             st \in {"none", "live", "ended"}, new \in BOOLEAN :
         /\ doc = [p \in Queues |->
                IF p = q /\ st # "none"
                THEN [NoDoc EXCEPT !.st = st, !.code = c, !.fresh = new]
                ELSE NoDoc]
         /\ entries = IF st = "none" THEN {} ELSE {q}
         /\ count = IF st # "none" /\ new THEN 1 ELSE 0
         /\ key = [d \in Codes |-> IF st = "live" /\ d = c THEN q ELSE NoQueue]
    BY DEF Init
  <1>3. req = [s \in Slots |-> Idle] /\ lapsed = {} /\ drift = FALSE
    BY DEF Init
  <1>4. \A s \in Slots : /\ ~Freeing(req[s]) /\ ~Uncounted(req[s]) /\ ~Taking(req[s])
                         /\ ~Admitted(req[s]) /\ req[s].op = "none"
    BY <1>3, IdlePlain
  <1>5. \A p \in Queues : /\ ~doc[p].freed
                          /\ doc[p].fresh <=> p = q /\ st # "none" /\ new
                          /\ doc[p].fresh => doc[p].st # "none"
    <2> DEFINE d == [NoDoc EXCEPT !.st = st, !.code = c, !.fresh = new]
    <2>1. ~d.freed /\ d.fresh = new /\ d.st = st /\ ~NoDoc.freed /\ ~NoDoc.fresh
      BY DEF NoDoc
    <2>2. doc = [p \in Queues |-> IF p = q /\ st # "none" THEN d ELSE NoDoc]
      BY <1>2
    <2> HIDE DEF d, NoDoc
    <2> QED
      BY <2>1, <2>2
  <1>6. DocsProper /\ OneEach
    BY <1>4, <1>5 DEF DocsProper, OneEach
  <1>7. Frees /\ Once /\ Takes /\ Adds /\ Skips
    BY <1>4 DEF Frees, Once, Takes, Adds, Skips, Awaited
  <1>8. Due = (IF st # "none" /\ new THEN {q} ELSE {}) /\ CheckedQueues \subseteq Due
    <2>1. \A p : ~Awaited(p)
      BY <1>4 DEF Awaited
    <2> QED
      BY <1>1, <1>2, <1>5, <2>1 DEF Due, InMonth, CheckedQueues, Counted
  <1>9. Cardinality(Due) = count /\ count <= 1
    <2>1. CASE st # "none" /\ new
      <3>1. Due = {q} /\ count = 1
        BY <1>2, <1>8, <2>1, Zenon
      <3> QED
        BY <3>1, FS_Singleton
    <2>2. CASE ~(st # "none" /\ new)
      <3>1. Due = {} /\ count = 0
        BY <1>2, <1>8, <2>2, Zenon
      <3> QED
        BY <3>1, FS_EmptySet
    <2> QED
      BY <2>1, <2>2
  <1>10. CountsDue /\ Room
    <2>1. Cardinality(CheckedQueues) <= Cardinality(Due)
      BY <1>8, Finite, FS_Subset
    <2>2. 1 <= Limit /\ Limit \in Nat
      BY HostQueuesAssumption
    <2>3. Cardinality(CheckedQueues) <= Limit
      BY <1>9, <2>1, <2>2, Finite
    <2> QED
      BY <1>4, <1>9, <2>3 DEF CountsDue, Room
  <1> QED
    BY <1>6, <1>7, <1>10 DEF MonthInv, Books

\* Every step keeps the books.
LEMMA NextMonth == IInv /\ IInv' /\ MonthInv /\ [Next]_vars => MonthInv'
  <1> SUFFICES ASSUME IInv, IInv', MonthInv, [Next]_vars PROVE MonthInv'
    OBVIOUS
  <1>1. ASSUME NEW s \in Slots, Handler(s) PROVE MonthInv'
    BY <1>1, CreateMonth, CheckQuotaMonth, InsertMonth, IncrementMonth, EndMonth,
       ChangeMonth, DeleteMonth, ReadHostMonth, DecrementMonth, CacheMonth, ReadMonth
    DEF Handler
  <1>2. CASE Environment
    BY <1>2, QueueEventMonth, MonthEndsMonth, LapseMonth, CrashMonth, FailMonth DEF Environment
  <1>3. CASE UNCHANGED vars
    BY <1>3, SameDocs, Elsewhere DEF vars, mongo, history
  <1> QED
    BY <1>1, <1>2, <1>3, StartMonth, ExpiryMonth DEF Next

\* The books are in order in every state.
LEMMA MonthInvariance == Spec => []MonthInv
  <1>1. Init => MonthInv
    BY InitMonth
  <1>2. IInv /\ IInv' /\ MonthInv /\ [Next]_vars => MonthInv'
    BY NextMonth
  <1> QED
    BY <1>1, <1>2, Invariance, PTL DEF Spec

\* IncrementMonthlyQueueCount and DecrementMonthlyQueueCount: with no request between
\* its change of the queues and its $inc, the count is the number of queues of the
\* month, unless a failed or overtaken command that counts is noted in drift.
THEOREM CountIsRight == Spec => []CountAgrees
  <1>1. MonthInv => CountAgrees
    <2> SUFFICES ASSUME MonthInv, ~drift,
                        \A s \in Slots : req[s].op \notin {"create", "delete", "deleteBulk"}
                 PROVE  count = Cardinality(Counted)
      BY DEF CountAgrees
    <2>1. \A q : ~Held(q) /\ ~Awaited(q)
      BY DEF Held, Awaited, Freeing, Uncounted, Deletes
    <2>2. Due = Counted
      BY <2>1 DEF MonthInv, DocsProper, Due, InMonth, Counted
    <2> QED
      BY <2>2 DEF MonthInv, Books, CountsDue
  <1> QED
    BY <1>1, MonthInvariance, PTL

\* checkMonthlyQuota under the lock of the creation: the host gets no more queues in a
\* month than the plan has, besides those created without the lock or the check.
THEOREM QuotaIsHeld == Spec => []QuotaHeld
  <1>1. MonthInv => QuotaHeld
    BY DEF MonthInv, Room, CheckedQueues, QuotaHeld
  <1> QED
    BY <1>1, MonthInvariance, PTL
=============================================================================
