--------------------------- MODULE Joining_proofs ---------------------------
(***************************************************************************)
(* Proofs about QueueSession: what a join, which is a sequence of          *)
(* commands, cannot break although others run in between.                  *)
(*                                                                         *)
(* Tickets are unique unless one of two races happens or a ticket beyond   *)
(* 9999 is read back; the limit of the plan is exceeded by no more than    *)
(* the joins in flight, although each counts before it inserts; and a      *)
(* queue that ends while nobody joins leaves no guest unfinished.          *)
(***************************************************************************)
EXTENDS QueueSession_proofs

-----------------------------------------------------------------------------
(* When the tickets of a queue are unique.  In general they are not:         *)
(* ensureTicketCounter reads the last ticket and sets the counter in two     *)
(* commands, a counter found to exist may be gone when it is incremented,    *)
(* and of a ticket beyond 9999 only four digits are read.  There is no       *)
(* fourth way, for any number of guests, of concurrent joins and of          *)
(* deletions, expiries and losses of the counter.                            *)

\* While a request sets the counter from a ticket it has read, no other one
\* sets it, increments it, or has drawn a ticket it has not inserted yet.
NumberingUndisturbed ==
    \A r, s \in Requests :
        At(r, "setCounter") /\ req[s].pc \in {"setCounter", "incr", "insert"} => r = s

\* The counter is not lost between EXISTS, or SET, and INCR.
CounterKept == (\E r \in Requests : At(r, "incr")) /\ counterSet => counterSet'

\* No ticket has more than four digits when the last one is read from MongoDB.
LastTicketReadable ==
    (\E r \in Requests : At(r, "maxTicket")) => \A t \in Tickets : t <= 9999

\* The ticket of the request is drawn but not stored.
Drawn(r) == At(r, "insert")

\* A counter that exists is beyond every ticket drawn; tickets drawn are distinct
\* from each other and from those stored; and what a request is about to write
\* to the counter is beyond every stored ticket.
TicketInv ==
    /\ TicketsUnique
    /\ counterSet =>
          /\ \A e \in Stored : ticket[e] <= counter
          /\ \A r \in Requests : Drawn(r) => req[r].n <= counter
    /\ \A r \in Requests :
          /\ At(r, "setCounter") => \A e \in Stored : ticket[e] <= req[r].n
          /\ At(r, "incr") => counterSet
          /\ Drawn(r) => \A e \in Stored : ticket[e] # req[r].n
          /\ \A s \in Requests : Drawn(r) /\ Drawn(s) /\ req[r].n = req[s].n => r = s

NumberPCs == {"setCounter", "incr", "insert"}
-----------------------------------------------------------------------------
(* Steps that number nobody *)

\* No ticket is stored or drawn, and no request comes to write the counter.
LEMMA TicketKept ==
    ASSUME TicketInv, CounterKept,
           Stored' \subseteq Stored, UNCHANGED ticket,
           counterSet' => counterSet /\ counter' = counter,
           \A s \in Requests : req'[s].pc \in NumberPCs => req'[s] = req[s]
    PROVE  TicketInv'
  <1> USE DEF TicketInv, Drawn, At, NumberPCs
  <1>1. TicketsUnique'
    BY DEF TicketsUnique
  <1>2. counterSet' => /\ (\A e \in Stored : ticket[e] <= counter)'
                       /\ (\A r \in Requests : Drawn(r) => req[r].n <= counter)'
    OBVIOUS
  <1>3. ASSUME NEW r \in Requests
        PROVE  /\ (At(r, "setCounter") => \A e \in Stored : ticket[e] <= req[r].n)'
               /\ (At(r, "incr") => counterSet)'
               /\ (Drawn(r) => \A e \in Stored : ticket[e] # req[r].n)'
               /\ \A s \in Requests :
                     (Drawn(r) /\ Drawn(s) /\ req[r].n = req[s].n => r = s)'
    BY DEF CounterKept
  <1> QED
    BY <1>1, <1>2, <1>3

\* An update of a status stores no further entry.
LEMMA StoredSetStatus ==
    ASSUME TypeOK, NEW e, NEW s, SetStatus(e, s)
    PROVE  Stored' \subseteq Stored
  BY DEF SetStatus, Stored, TypeOK

\* Neither does skipping or deleting them.
LEMMA StoredBulk ==
    ASSUME TypeOK, SkipUnserved \/ DeleteEntries
    PROVE  Stored' \subseteq Stored
  <1>1. CASE SkipUnserved
    BY <1>1 DEF SkipUnserved, Stored, Unserved, TypeOK
  <1>2. CASE DeleteEntries
    BY <1>2 DEF DeleteEntries, Stored, TypeOK
  <1> QED
    BY <1>1, <1>2

\* In an empty queue.
LEMMA TicketInit == Init => TicketInv
  BY DEF Init, TicketInv, TicketsUnique, Stored, LiveStatus, TerminalStatus, Drawn, At,
         IdleRequest

\* A request numbers nobody by its first command.
LEMMA TicketStart ==
    ASSUME IInv, TicketInv, CounterKept, NEW r \in Requests, Start(r)
    PROVE  TicketInv'
  <1> USE DEF Begin, IdleRequest, NumberPCs
  <1>0. req \in [Requests -> RequestType] /\ TypeOK
    BY DEF IInv, TypeOK
  <1>1. ASSUME Stored' \subseteq Stored, UNCHANGED <<ticket, counter, counterSet>>,
               \A s \in Requests \ {r} : req'[s] = req[s],
               req'[r].pc \notin NumberPCs
        PROVE  TicketInv'
    BY <1>1, TicketKept
  <1>2. CASE StartStatus(r) \/ StartCallNext(r) \/ StartTerminate(r)
    BY <1>0, <1>1, <1>2 DEF StartStatus, StartCallNext, StartTerminate, mongo, redis, Stored
  <1>3. ASSUME NEW e \in Entries, StartJoin(r, e) \/ StartAddEntry(r, e) PROVE TicketInv'
    BY <1>0, <1>1, <1>3 DEF StartJoin, StartAddEntry, mongo, redis, Stored
  <1>4. ASSUME NEW e \in Entries, StartArrived(r, e) \/ StartConfirm(r, e) PROVE TicketInv'
    <2>1. Stored' \subseteq Stored
      BY <1>0, <1>4, StoredSetStatus DEF StartArrived, StartConfirm
    <2> QED
      BY <1>0, <1>1, <1>4, <2>1 DEF StartArrived, StartConfirm, redis
  <1>5. ASSUME NEW e \in Entries, NEW o \in {"serve", "skip", "leave"},
               FinishUserSession(r, e, o)
        PROVE  TicketInv'
    <2>1. Stored' \subseteq Stored
      BY <1>0, <1>5, StoredSetStatus DEF FinishUserSession
    <2> QED
      BY <1>0, <1>1, <1>5, <2>1 DEF FinishUserSession, redis
  <1> QED
    BY <1>2, <1>3, <1>4, <1>5 DEF Start

\* The commands of a handler that are none of ensureTicketCounter, NextTicket
\* and the insert.
LEMMA TicketReads ==
    ASSUME IInv, TicketInv, CounterKept, NEW r \in Requests,
           \/ Count(r) \/ RehydrateSentinel(r) \/ RehydrateFind(r) \/ RehydrateAdd(r)
           \/ Admit(r) \/ AddToQueue(r)
           \/ CheckStrict(r) \/ ReadPositions(r) \/ PickWaiting(r)
           \/ MarkCalled(r) \/ StartIdleTimer(r) \/ ReleaseLock(r)
           \/ RemoveFromQueue(r) \/ TallyServed(r)
           \/ ClearIdleTimer(r) \/ ClearGraceTimer(r)
           \/ CloseQueue(r) \/ SkipEntries(r) \/ TerminateDeleteKeys(r)
    PROVE  TicketInv'
  <1> USE DEF At, Goto, Done, IdleRequest, NumberPCs
  <1>0. req \in [Requests -> RequestType] /\ TypeOK
    BY DEF IInv, TypeOK
  <1> DEFINE Own == /\ \A s \in Requests \ {r} : req'[s] = req[s]
                    /\ req'[r].pc \notin NumberPCs
             Data == /\ Stored' \subseteq Stored /\ UNCHANGED ticket
                     /\ counterSet' => counterSet /\ counter' = counter
  <1>1. ASSUME Own, Data PROVE TicketInv'
    BY <1>1, TicketKept
  <1>2. ASSUME NEW l, l \notin NumberPCs, Goto(r, l) PROVE Own
    BY <1>0, <1>2 DEF RequestType
  <1>3. ASSUME Done(r) PROVE Own
    BY <1>0, <1>3
  <1>4. ASSUME NEW n, AfterCount(r, n) PROVE Own
    BY <1>0, <1>4 DEF AfterCount, RequestType
  <1>5. ASSUME NEW ids, AfterRehydrate(r, ids) PROVE Own
    <2>1. CASE req[r].op = "callNext"
      BY <1>0, <1>5, <2>1 DEF AfterRehydrate, RequestType
    <2> QED
      BY <1>4, <1>5, <2>1 DEF AfterRehydrate
  <1>6. ASSUME NEW e, NextCandidate(r, e) PROVE Own
    BY <1>0, <1>6 DEF NextCandidate, RequestType
  <1>7. ASSUME AfterSkip(r) PROVE Own
    BY <1>0, <1>7 DEF AfterSkip, RequestType
  <1>8. ASSUME UNCHANGED <<status, ticket, counter, counterSet>> PROVE Data
    BY <1>8 DEF Stored
  <1>9. CASE Count(r) \/ RehydrateSentinel(r) \/ RehydrateAdd(r)
    <2>1. Own
      BY <1>2, <1>4, <1>5, <1>9 DEF Count, RehydrateSentinel, RehydrateAdd
    <2> QED
      BY <1>1, <1>8, <1>9, <2>1 DEF Count, RehydrateSentinel, RehydrateAdd, mongo, redis
  <1>10. CASE RehydrateFind(r)
    <2>1. Own
      BY <1>0, <1>5, <1>10 DEF RehydrateFind, RequestType
    <2> QED
      BY <1>1, <1>8, <1>10, <2>1 DEF RehydrateFind, mongo, redis
  <1>12. CASE Admit(r) \/ CheckStrict(r)
    <2>1. Own
      BY <1>2, <1>3, <1>12 DEF Admit, CheckStrict
    <2> QED
      BY <1>1, <1>8, <1>12, <2>1 DEF Admit, CheckStrict, mongo, redis
  <1>13. CASE AddToQueue(r)
    <2>1. Own
      BY <1>0, <1>13 DEF AddToQueue
    <2> QED
      BY <1>1, <1>8, <1>13, <2>1 DEF AddToQueue, mongo
  <1>14. CASE ReadPositions(r)
    <2>1. Own
      BY <1>0, <1>14 DEF ReadPositions, RequestType
    <2> QED
      BY <1>1, <1>8, <1>14, <2>1 DEF ReadPositions, mongo, redis
  <1>15. CASE PickWaiting(r)
    <2>1. Own
      <3>1. PICK e \in Oldest(req[r].ids) :
               IF status[e] = "WAITING"
               THEN req' = [req EXCEPT ![r].e = e, ![r].ids = {}, ![r].pc = "mark"]
               ELSE NextCandidate(r, e)
        BY <1>15 DEF PickWaiting
      <3>2. CASE status[e] = "WAITING"
        BY <1>0, <3>1, <3>2 DEF RequestType
      <3> QED
        BY <1>6, <3>1, <3>2
    <2> QED
      BY <1>1, <1>8, <1>15, <2>1 DEF PickWaiting, mongo, redis
  <1>16. CASE MarkCalled(r)
    <2>1. Own
      BY <1>2, <1>16 DEF MarkCalled
    <2>2. Data
      BY <1>0, <1>16, StoredSetStatus DEF MarkCalled, redis
    <2> QED
      BY <1>1, <2>1, <2>2
  <1>17. CASE StartIdleTimer(r) \/ ReleaseLock(r) \/ ClearIdleTimer(r) \/ ClearGraceTimer(r)
    <2>1. Own
      BY <1>2, <1>3, <1>17 DEF StartIdleTimer, ReleaseLock, ClearIdleTimer, ClearGraceTimer
    <2> QED
      BY <1>1, <1>8, <1>17, <2>1
      DEF StartIdleTimer, ReleaseLock, ClearIdleTimer, ClearGraceTimer, mongo
  <1>18. CASE RemoveFromQueue(r) \/ TallyServed(r) \/ CloseQueue(r)
    <2>1. Own
      BY <1>2, <1>3, <1>18 DEF RemoveFromQueue, AfterRemove, TallyServed, CloseQueue
    <2> QED
      BY <1>1, <1>8, <1>18, <2>1 DEF RemoveFromQueue, TallyServed, CloseQueue, mongo, redis
  <1>19. CASE SkipEntries(r)
    <2>1. Own
      BY <1>7, <1>19 DEF SkipEntries
    <2>2. Stored' \subseteq Stored
      BY <1>0, <1>19, StoredBulk DEF SkipEntries, Stored
    <2> QED
      BY <1>1, <1>19, <2>1, <2>2 DEF SkipEntries, redis
  <1>20. CASE TerminateDeleteKeys(r)
    <2>1. Own
      BY <1>3, <1>20 DEF TerminateDeleteKeys
    <2> QED
      BY <1>1, <1>20, <2>1 DEF TerminateDeleteKeys, DeleteQueueKeys, mongo, Stored
  <1> QED
    BY <1>9, <1>10, <1>12, <1>13, <1>14, <1>15, <1>16, <1>17, <1>18, <1>19, <1>20

\* The steps that are no command of a handler.
LEMMA TicketRest ==
    ASSUME IInv, TicketInv, CounterKept, ~CommandsMayFail,
           \/ \E e \in Entries : CallEntry(e)
           \/ PauseQueue \/ ResumeQueue
           \/ Listener \/ Sweeper \/ ListenerFails \/ SweeperFails \/ Environment
    PROVE  TicketInv'
  <1>0. TypeOK
    BY DEF IInv
  <1>1. ASSUME Stored' \subseteq Stored, UNCHANGED <<req, ticket>>,
               counterSet' => counterSet /\ counter' = counter
        PROVE  TicketInv'
    BY <1>1, TicketKept
  <1>2. ASSUME NEW e \in Entries, CallEntry(e) PROVE TicketInv'
    BY <1>0, <1>1, <1>2, StoredSetStatus DEF CallEntry, redis
  <1>3. CASE PauseQueue \/ ResumeQueue \/ QueueTimePasses \/ QueueTtl \/ ExpireMark
    BY <1>1, <1>3
    DEF PauseQueue, ResumeQueue, SetQueueStatus, QueueTimePasses, QueueTtl, ExpireMark,
        redis, Stored
  <1>4. CASE HandleIdleExpiry \/ HandleGraceExpiry
    BY <1>0, <1>1, <1>4, StoredSetStatus DEF HandleIdleExpiry, HandleGraceExpiry
  <1>5. CASE ExpireEntries \/ ExpireDrop
    <2>1. Stored' \subseteq Stored
      BY <1>0, <1>5, StoredBulk DEF ExpireEntries, ExpireDrop
    <2> QED
      BY <1>1, <1>5, <2>1 DEF ExpireEntries, ExpireDrop, redis
  <1>6. CASE StartGraceTimer \/ SweepFind \/ ExpireRead
    BY <1>1, <1>6 DEF StartGraceTimer, SweepFind, ExpireRead, mongo, redis, Stored
  <1>7. CASE ExpireDeleteKeys \/ CounterExpires \/ RedisLoss
    BY <1>1, <1>7 DEF ExpireDeleteKeys, DeleteQueueKeys, CounterExpires, RedisLoss, mongo, Stored
  <1>8. CASE TimerFires
    BY <1>1, <1>8 DEF TimerFires, IdleTimerFires, GraceTimerFires, mongo, Stored
  <1>9. CASE PositionsExpire \/ SentinelExpires \/ LockExpires
    BY <1>1, <1>9 DEF PositionsExpire, SentinelExpires, LockExpires, mongo, Stored
  <1>10. ~ListenerFails /\ ~SweeperFails
    BY DEF ListenerFails, SweeperFails
  <1> QED
    BY <1>2, <1>3, <1>4, <1>5, <1>6, <1>7, <1>8, <1>9, <1>10
    DEF Listener, Sweeper, Environment
-----------------------------------------------------------------------------
(* Steps that number a guest *)

\* ensureTicketCounter, INCR and the insert.
LEMMA TicketDraws ==
    ASSUME IInv, TicketInv, NumberingUndisturbed, LastTicketReadable, CounterKept, NEW r \in Requests,
           \/ HasCounter(r) \/ ReadLastTicket(r) \/ SetTicketCounter(r)
           \/ NextTicket(r) \/ InsertEntry(r)
    PROVE  TicketInv'
  <1> USE DEF At, Goto, NumberPCs, Drawn
  <1>0. /\ req \in [Requests -> RequestType] /\ TypeOK /\ counter \in Nat
        /\ req[r].n \in Nat /\ \A e \in Stored : ticket[e] \in Nat
    BY RequestFields DEF IInv, TypeOK, Stored
  <1>1. CASE HasCounter(r)
    <2>1. /\ \A s \in Requests \ {r} : req'[s] = req[s]
          /\ req'[r].pc = (IF counterSet THEN "incr" ELSE "maxTicket")
          /\ UNCHANGED <<status, ticket, counter, counterSet>>
      BY <1>0, <1>1 DEF HasCounter, RequestType, mongo, redis
    <2>2. Stored' = Stored
      BY <2>1 DEF Stored
    <2> QED
      BY <2>1, <2>2 DEF TicketInv, TicketsUnique
  <1>2. CASE ReadLastTicket(r)
    <2>0. PICK n \in Readable : /\ IsLastTicket(n)
                               /\ req' = [req EXCEPT ![r].n = n, ![r].pc = "setCounter"]
      BY <1>2 DEF ReadLastTicket
    <2>1. /\ \A s \in Requests \ {r} : req'[s] = req[s]
          /\ req'[r].pc = "setCounter" /\ req'[r].n = n
      BY <1>0, <2>0 DEF RequestType
    <2>2. UNCHANGED <<status, ticket, counter, counterSet>>
      BY <1>2 DEF ReadLastTicket, mongo, redis
    <2>3. \A t \in Tickets : t \in Readable
      BY <1>2, ReadableType DEF ReadLastTicket, LastTicketReadable
    <2>4. Stored' = Stored /\ \A e \in Stored : ticket[e] <= req'[r].n
      BY <2>0, <2>1, <2>2, <2>3 DEF Stored, IsLastTicket, Tickets
    <2> QED
      BY <2>1, <2>2, <2>4 DEF TicketInv, TicketsUnique
  <1>3. CASE SetTicketCounter(r)
    <2>1. /\ \A s \in Requests \ {r} : req'[s] = req[s]
          /\ req'[r].pc = "incr"
          /\ counter' = req[r].n /\ counterSet'
          /\ UNCHANGED <<status, ticket>>
      BY <1>0, <1>3 DEF SetTicketCounter, RequestType, mongo
    <2>2. Stored' = Stored /\ \A e \in Stored : ticket[e] <= counter'
      BY <1>3, <2>1 DEF Stored, SetTicketCounter, TicketInv
    <2>3. \A s \in Requests \ {r} : req[s].pc \notin NumberPCs
      BY <1>3 DEF SetTicketCounter, NumberingUndisturbed
    <2> QED
      BY <2>1, <2>2, <2>3 DEF TicketInv, TicketsUnique
  <1>4. CASE NextTicket(r)
    <2>1. /\ \A s \in Requests \ {r} : req'[s] = req[s]
          /\ req'[r].pc = "insert" /\ req'[r].n = counter + 1
          /\ counter' = counter + 1 /\ counterSet'
          /\ UNCHANGED <<status, ticket>>
      BY <1>0, <1>4 DEF NextTicket, RequestType, mongo
    <2>2. Stored' = Stored
      BY <2>1 DEF Stored
    <2>3. counterSet
      BY <1>4 DEF NextTicket, TicketInv
    <2>4. /\ \A e \in Stored : ticket[e] <= counter
          /\ \A s \in Requests : Drawn(s) => req[s].n <= counter /\ req[s].n \in Nat
      BY <1>0, <2>3 DEF TicketInv, RequestType
    <2>5. /\ \A e \in Stored : ticket[e] < counter + 1
          /\ \A s \in Requests : Drawn(s) => req[s].n < counter + 1
      BY <1>0, <2>4
    <2>6. \A s \in Requests : ~(At(s, "setCounter"))
      BY <1>4 DEF NextTicket, NumberingUndisturbed
    <2>7. TicketsUnique'
      BY <2>1, <2>2 DEF TicketsUnique, TicketInv
    <2>8. /\ \A e \in Stored : ticket[e] <= counter'
          /\ \A s \in Requests : req'[s].pc = "insert" => req'[s].n <= counter'
      BY <1>0, <2>1, <2>4
    <2>9. ASSUME NEW s \in Requests
          PROVE  /\ req'[s].pc # "setCounter"
                 /\ req'[s].pc = "insert" => \A e \in Stored : ticket[e] # req'[s].n
                 /\ \A t \in Requests :
                       req'[s].pc = "insert" /\ req'[t].pc = "insert" /\ req'[s].n = req'[t].n
                          => s = t
      <3>1. req'[s].pc # "setCounter"
        BY <2>1, <2>6
      <3>2. req'[s].pc = "insert" => \A e \in Stored : ticket[e] # req'[s].n
        BY <1>0, <2>1, <2>5 DEF TicketInv
      <3>3. ASSUME NEW t \in Requests, req'[s].pc = "insert", req'[t].pc = "insert",
                   req'[s].n = req'[t].n
            PROVE  s = t
        BY <1>0, <2>1, <2>5, <3>3 DEF TicketInv
      <3> QED
        BY <3>1, <3>2, <3>3
    <2> QED
      BY <2>1, <2>2, <2>7, <2>8, <2>9 DEF TicketInv
  <1>5. CASE InsertEntry(r)
    <2> DEFINE e == req[r].e
               n == req[r].n
    <2>0. e \in Entries
      BY <1>5, RequestFields DEF InsertEntry
    <2>1. /\ \A s \in Requests \ {r} : req'[s] = req[s]
          /\ req'[r].pc = "zadd"
          /\ status' = [status EXCEPT ![e] = "WAITING"]
          /\ ticket' = [ticket EXCEPT ![e] = n]
          /\ UNCHANGED <<counter, counterSet>>
      BY <1>0, <1>5 DEF InsertEntry, RequestType, redis
    <2>2. At(r, "insert")
      BY <1>5 DEF InsertEntry
    <2> HIDE DEF e, n
    <2>3. /\ Stored' \subseteq Stored \cup {e} /\ ticket'[e] = n
          /\ \A f \in Entries \ {e} : ticket'[f] = ticket[f]
      BY <1>0, <2>0, <2>1 DEF Stored, TypeOK
    <2>4. /\ \A f \in Stored : ticket[f] # n
          /\ \A s \in Requests \ {r} : Drawn(s) => req[s].n # n
          /\ counterSet => n <= counter
      BY <2>2 DEF TicketInv, n
    <2>5. \A s \in Requests \ {r} : ~At(s, "setCounter")
      BY <2>2 DEF NumberingUndisturbed
    <2>6. TicketsUnique'
      BY <2>3, <2>4 DEF TicketsUnique, TicketInv, Stored
    <2>7. counterSet' =>
             /\ \A f \in Stored' : ticket'[f] <= counter'
             /\ \A s \in Requests : req'[s].pc = "insert" => req'[s].n <= counter'
      BY <2>1, <2>3, <2>4 DEF TicketInv, Stored
    <2>8. ASSUME NEW s \in Requests
          PROVE  /\ req'[s].pc # "setCounter"
                 /\ req'[s].pc = "incr" => counterSet'
                 /\ req'[s].pc = "insert" => \A f \in Stored' : ticket'[f] # req'[s].n
                 /\ \A t \in Requests :
                       req'[s].pc = "insert" /\ req'[t].pc = "insert" /\ req'[s].n = req'[t].n
                          => s = t
      <3>1. req'[s].pc # "setCounter" /\ (req'[s].pc = "incr" => counterSet')
        BY <2>1, <2>5 DEF TicketInv
      <3>2. req'[s].pc = "insert" => \A f \in Stored' : ticket'[f] # req'[s].n
        BY <2>1, <2>3, <2>4 DEF TicketInv, Stored
      <3>3. \A t \in Requests :
               req'[s].pc = "insert" /\ req'[t].pc = "insert" /\ req'[s].n = req'[t].n => s = t
        BY <2>1 DEF TicketInv
      <3> QED
        BY <3>1, <3>2, <3>3
    <2> QED
      BY <2>6, <2>7, <2>8 DEF TicketInv
  <1> QED
    BY <1>1, <1>2, <1>3, <1>4, <1>5

\* Unless a command fails, the only ways two guests of a queue get the same
\* ticket are a request that sets the counter while another one is numbered, the
\* counter being lost just before it is incremented, and the last ticket being
\* read back when there are tickets of more than four digits: neither any number
\* of concurrent joins on a counter that exists, nor deleting it when a queue is
\* terminated or expires, nor its loss at any other time, repeats a ticket.
THEOREM TicketsStayUnique ==
    ~CommandsMayFail =>
       (Spec /\ []NumberingUndisturbed /\ []LastTicketReadable /\ [][CounterKept]_vars
           => []TicketsUnique)
  <1> SUFFICES ASSUME ~CommandsMayFail
               PROVE  Spec /\ []NumberingUndisturbed /\ []LastTicketReadable
                         /\ [][CounterKept]_vars => []TicketsUnique
    OBVIOUS
  <1>1. IInv /\ TicketInv /\ NumberingUndisturbed /\ LastTicketReadable /\ [Next]_vars
           /\ [CounterKept]_vars => TicketInv'
    <2> SUFFICES ASSUME IInv, TicketInv, NumberingUndisturbed, LastTicketReadable,
                        [Next]_vars, [CounterKept]_vars
                 PROVE  TicketInv'
      OBVIOUS
    <2>1. CASE UNCHANGED vars
      <3>1. UNCHANGED <<req, status, ticket, counter, counterSet>>
        BY <2>1 DEF vars, mongo, redis
      <3>2. Stored' = Stored
        BY <3>1 DEF Stored
      <3> QED
        BY <3>1, <3>2 DEF TicketInv, TicketsUnique, Drawn, At
    <2>2. CASE Next /\ CounterKept
      <3>1. ASSUME NEW r \in Requests, Start(r) \/ Continue(r) \/ CommandFails(r)
            PROVE  TicketInv'
        BY <2>2, <3>1, TicketStart, TicketReads, TicketDraws DEF Continue, CommandFails
      <3> QED
        BY <2>2, <3>1, TicketRest DEF Next
    <2> QED
      BY <2>1, <2>2
  <1>2. TicketInv => TicketsUnique
    BY DEF TicketInv
  <1> QED
    BY <1>1, <1>2, TicketInit, Invariance, PTL DEF Spec
-----------------------------------------------------------------------------
(* A queue that is never terminated ends by the clock *)

\* Who ends the queue, and who deletes its entries, comes after the expiry.
ExpiryInv ==
    /\ \A r \in Requests : req[r].op # "terminate"
    /\ ~QueueLive => pastExpiry
    /\ sweeper.pc # "idle" => pastExpiry
    /\ \A e \in Entries : status[e] = "GONE" => pastExpiry

\* An update deletes no entry, and stores none that was not stored.
LEMMA StatusKnown ==
    ASSUME TypeOK, NEW e, NEW s \in LiveStatus \cup TerminalStatus, SetStatus(e, s)
    PROVE  /\ Known' = Known
           /\ \A f \in Entries : status'[f] = "GONE" => status[f] = "GONE"
  BY DEF SetStatus, Known, TypeOK, Stored, LiveStatus, TerminalStatus

\* A request before the expiry leaves the queue open.
LEMMA ExpiryRequest ==
    ASSUME IInv, ExpiryInv, NEW r \in Requests, Start(r) \/ Continue(r),
           "terminate" \notin Ops
    PROVE  /\ UNCHANGED <<qStatus, pastExpiry, sweeper>>
           /\ \A e \in Entries : status'[e] = "GONE" => status[e] = "GONE"
           /\ \A s \in Requests : req'[s].op # "terminate"
  <1>0. req \in [Requests -> RequestType]
    BY DEF IInv, TypeOK
  <1> DEFINE Kept == /\ UNCHANGED <<qStatus, pastExpiry, sweeper>>
                     /\ \A e \in Entries : status'[e] = "GONE" => status[e] = "GONE"
             Others == \A s \in Requests : req'[s].op # "terminate"
  <1>1. ASSUME NEW o, NEW e, NEW l, Begin(r, o, e, l), o # "terminate" PROVE Others
    BY <1>0, <1>1 DEF Begin, IdleRequest, ExpiryInv
  <1>2. CASE StartStatus(r) \/ StartCallNext(r)
    BY <1>1, <1>2 DEF StartStatus, StartCallNext, mongo
  <1>3. ASSUME NEW e \in Entries, StartJoin(r, e) \/ StartAddEntry(r, e)
        PROVE  Kept /\ Others
    BY <1>1, <1>3 DEF StartJoin, StartAddEntry, mongo
  <1>4. ASSUME NEW e \in Entries, StartArrived(r, e) \/ StartConfirm(r, e)
        PROVE  Kept /\ Others
    <2>1. SetStatus(e, "ARRIVED") \/ SetStatus(e, "WAITING")
      BY <1>4 DEF StartArrived, StartConfirm
    <2>2. \A f \in Entries : status'[f] = "GONE" => status[f] = "GONE"
      BY <2>1, StatusKnown DEF IInv, LiveStatus
    <2> QED
      BY <1>1, <1>4, <2>2 DEF StartArrived, StartConfirm
  <1>5. ASSUME NEW e \in Entries, NEW o \in {"serve", "skip", "leave"},
               FinishUserSession(r, e, o)
        PROVE  Kept /\ Others
    <2>1. SetStatus(e, FinalStatus[o]) /\ FinalStatus[o] \in TerminalStatus
      BY <1>5 DEF FinishUserSession, FinalStatus, TerminalStatus
    <2>2. \A f \in Entries : status'[f] = "GONE" => status[f] = "GONE"
      BY <2>1, StatusKnown DEF IInv
    <2> QED
      BY <1>1, <1>5, <2>2 DEF FinishUserSession
  <1>6. CASE Start(r)
    BY <1>2, <1>3, <1>4, <1>5, <1>6 DEF Start, StartTerminate
  <1>7. CASE Continue(r)
    <2>1. Others
      BY <1>7, Onward DEF ExpiryInv
    <2>2. ~CloseQueue(r) /\ ~SkipEntries(r) /\ ~TerminateDeleteKeys(r)
      BY RequestFields DEF CloseQueue, SkipEntries, TerminateDeleteKeys, At, Coherent, ExpiryInv
    <2>3. CASE UNCHANGED <<mongo, sweeper>>
      BY <2>1, <2>3 DEF mongo
    <2>4. CASE InsertEntry(r)
      <3>1. /\ status' = [status EXCEPT ![req[r].e] = "WAITING"]
            /\ UNCHANGED <<qStatus, pastExpiry, sweeper>>
        BY <2>4 DEF InsertEntry
      <3>2. \A e \in Entries : status'[e] = "GONE" => status[e] = "GONE"
        BY <3>1 DEF IInv, TypeOK
      <3> QED
        BY <2>1, <3>1, <3>2
    <2>5. CASE MarkCalled(r)
      <3>1. \A e \in Entries : status'[e] = "GONE" => status[e] = "GONE"
        BY <2>5, StatusKnown DEF MarkCalled, IInv, LiveStatus
      <3> QED
        BY <2>1, <2>5, <3>1 DEF MarkCalled
    <2>6. CASE TallyServed(r)
      BY <2>1, <2>6 DEF TallyServed
    <2>7. CASE \/ Count(r) \/ RehydrateSentinel(r) \/ RehydrateFind(r) \/ RehydrateAdd(r)
               \/ Admit(r) \/ HasCounter(r) \/ ReadLastTicket(r) \/ SetTicketCounter(r)
               \/ NextTicket(r) \/ AddToQueue(r)
      BY <2>3, <2>7 DEF Count, RehydrateSentinel, RehydrateFind, RehydrateAdd, Admit,
                        HasCounter, ReadLastTicket, SetTicketCounter, NextTicket, AddToQueue
    <2>8. CASE \/ CheckStrict(r) \/ ReadPositions(r) \/ PickWaiting(r)
               \/ StartIdleTimer(r) \/ ReleaseLock(r)
               \/ RemoveFromQueue(r) \/ ClearIdleTimer(r) \/ ClearGraceTimer(r)
      BY <2>3, <2>8 DEF CheckStrict, ReadPositions, PickWaiting, StartIdleTimer, ReleaseLock,
                        RemoveFromQueue, ClearIdleTimer, ClearGraceTimer
    <2> QED
      BY <1>7, <2>2, <2>4, <2>5, <2>6, <2>7, <2>8 DEF Continue
  <1> QED
    BY <1>6, <1>7

\* Without failures and the host's terminate, a queue that is not open has expired,
\* and stays so.
LEMMA ExpiryNext ==
    ASSUME IInv, ExpiryInv, Reliable, "terminate" \notin Ops, [Next]_vars
    PROVE  ExpiryInv' /\ NotReopened
  <1>1. /\ pastExpiry => pastExpiry'
        /\ \/ pastExpiry'
           \/ /\ qStatus' = qStatus \/ qStatus' \in {"ACTIVE", "PAUSED"}
              /\ sweeper' = sweeper
              /\ \A e \in Entries : status'[e] = "GONE" => status[e] = "GONE"
        /\ \A s \in Requests : req'[s].op # "terminate"
    <2>1. CASE UNCHANGED vars
      BY <2>1 DEF vars, mongo, ExpiryInv
    <2>2. ASSUME NEW r \in Requests, Start(r) \/ Continue(r)
          PROVE  /\ UNCHANGED <<qStatus, pastExpiry, sweeper>>
                 /\ \A e \in Entries : status'[e] = "GONE" => status[e] = "GONE"
                 /\ \A s \in Requests : req'[s].op # "terminate"
      BY <2>2, ExpiryRequest
    <2>3. ASSUME NEW e \in Entries, CallEntry(e)
          PROVE  \A f \in Entries : status'[f] = "GONE" => status[f] = "GONE"
      BY <2>3, StatusKnown DEF CallEntry, IInv, LiveStatus
    <2>4. CASE \E e \in Entries : CallEntry(e)
      BY <2>3, <2>4 DEF CallEntry, ExpiryInv
    <2>5. CASE PauseQueue \/ ResumeQueue
      BY <2>5 DEF PauseQueue, ResumeQueue, SetQueueStatus, ExpiryInv
    <2>6. CASE HandleIdleExpiry \/ HandleGraceExpiry
      <3>1. \A f \in Entries : status'[f] = "GONE" => status[f] = "GONE"
        BY <2>6, StatusKnown DEF HandleIdleExpiry, HandleGraceExpiry, IInv, LiveStatus
      <3> QED
        BY <2>6, <3>1 DEF HandleIdleExpiry, HandleGraceExpiry, ExpiryInv
    <2>7. CASE StartGraceTimer
      BY <2>7 DEF StartGraceTimer, mongo, ExpiryInv
    <2>8. CASE Sweeper
      BY <2>8 DEF Sweeper, SweepFind, ExpireRead, ExpireMark, ExpireDeleteKeys, ExpireEntries,
                  ExpireDrop, mongo, ExpiryInv
    <2>9. CASE Environment
      BY <2>9 DEF Environment, QueueTimePasses, QueueTtl, TimerFires, IdleTimerFires, GraceTimerFires,
                  PositionsExpire, CounterExpires, SentinelExpires, LockExpires, RedisLoss,
                  mongo, ExpiryInv
    <2>10. ~ListenerFails /\ ~SweeperFails /\ \A r \in Requests : ~CommandFails(r)
      BY DEF Reliable, ListenerFails, SweeperFails, CommandFails
    <2> QED
      BY <2>1, <2>2, <2>4, <2>5, <2>6, <2>7, <2>8, <2>9, <2>10 DEF Next, Listener
  <1>2. TypeOK
    BY DEF IInv
  <1> QED
    BY <1>1, <1>2 DEF ExpiryInv, NotReopened, QueueLive, TypeOK
-----------------------------------------------------------------------------
(* The guests that the check of the limit has to do with *)

AdmittedPCs == {"hasCounter", "maxTicket", "setCounter", "incr", "insert", "zadd"}

\* A join that is admitted, or whose check is bound to admit it while the queue
\* has not expired: it has counted few enough, or rebuilds the line to count it.
Passing(r) ==
    \/ req[r].pc \in AdmittedPCs
    \/ /\ ~pastExpiry /\ req[r].op \in {"join", "addEntry"}
       /\ req[r].pc \in ReadPCs \/ (At(r, "admit") /\ ~Exceeded(req[r].n))

\* Everybody whose visit goes on, and who passes.
Guests == (Known \ finished) \cup {req[r].e : r \in {s \in Requests : Passing(s)}}

\* More than the limit are let pass only by requests in flight together.
RoomInv ==
    MaxGuests > 0 => Cardinality(Guests) <= MaxGuests + Cardinality(Requests) - 1

\* Who passes is a guest.
LEMMA PassingGuest ==
    ASSUME IInv, NEW r \in Requests, Passing(r)
    PROVE  req[r].e \in Entries
  BY RequestFields DEF Passing, AdmittedPCs, Coherent, GuestOps, JoinPCs

\* Nobody new is among the guests after a step of one request.
LEMMA GuestsStep ==
    ASSUME NEW r \in Requests, \A s \in Requests \ {r} : req'[s] = req[s],
           Passing(r)' => Passing(r) /\ req'[r].e = req[r].e,
           pastExpiry' = pastExpiry,
           Known' \ finished' \subseteq Guests
    PROVE  Guests' \subseteq Guests
  <1>1. ASSUME NEW s \in Requests, Passing(s)'
        PROVE  Passing(s) /\ req'[s].e = req[s].e
    BY <1>1 DEF Passing, At
  <1> QED
    BY <1>1 DEF Guests

\* The same for a step that leaves every request alone.
LEMMA GuestsOther ==
    ASSUME UNCHANGED req, pastExpiry => pastExpiry', Known' \subseteq Known,
           finished \subseteq finished'
    PROVE  Guests' \subseteq Guests
  <1>0. pastExpiry' = TRUE \/ pastExpiry' = pastExpiry \/ ~pastExpiry
    OBVIOUS
  <1>1. ASSUME NEW s \in Requests, Passing(s)'
        PROVE  Passing(s)
    BY <1>1 DEF Passing, At
  <1> QED
    BY <1>1 DEF Guests

\* Skipping and deleting entries brings nobody back.
LEMMA BulkGuests ==
    ASSUME TypeOK, SkipUnserved \/ DeleteEntries
    PROVE  Known' \subseteq Known /\ finished \subseteq finished'
  <1>1. CASE SkipUnserved
    BY <1>1 DEF SkipUnserved, Known, TypeOK, Unserved, LiveStatus
  <1>2. CASE DeleteEntries
    BY <1>2 DEF DeleteEntries, Known, TypeOK, Stored, LiveStatus, TerminalStatus
  <1> QED
    BY <1>1, <1>2

\* Nobody is a guest by the first command of a request.
LEMMA GuestsStart ==
    ASSUME IInv, NEW r \in Requests, Start(r), "terminate" \notin Ops
    PROVE  Guests' \subseteq Guests
  <1>0. req \in [Requests -> RequestType]
    BY DEF IInv, TypeOK
  <1>1. ASSUME NEW o, NEW e, NEW l, Begin(r, o, e, l),
               l \notin AdmittedPCs \cup ReadPCs \cup {"admit"}, UNCHANGED pastExpiry,
               Known' \subseteq Known, finished \subseteq finished'
        PROVE  Guests' \subseteq Guests
    <2>1. /\ \A s \in Requests \ {r} : req'[s] = req[s]
          /\ req'[r].pc = l
      BY <1>0, <1>1 DEF Begin, IdleRequest
    <2>2. ~Passing(r)'
      BY <1>1, <2>1 DEF Passing, At
    <2>3. Known' \ finished' \subseteq Guests
      BY <1>1 DEF Guests
    <2> QED
      BY <1>1, <2>1, <2>2, <2>3, GuestsStep
  <1>2. CASE StartStatus(r) \/ StartCallNext(r)
    BY <1>1, <1>2 DEF StartStatus, StartCallNext, mongo, Known, AdmittedPCs, ReadPCs
  <1>3. ASSUME NEW e \in Entries, StartJoin(r, e) \/ StartAddEntry(r, e)
        PROVE  Guests' \subseteq Guests
    BY <1>1, <1>3 DEF StartJoin, StartAddEntry, mongo, Known, AdmittedPCs, ReadPCs
  <1>4. ASSUME NEW e \in Entries, StartArrived(r, e) \/ StartConfirm(r, e)
        PROVE  Guests' \subseteq Guests
    <2>1. Known' = Known
      BY <1>4, StatusKnown DEF StartArrived, StartConfirm, IInv, LiveStatus
    <2> QED
      BY <1>1, <1>4, <2>1 DEF StartArrived, StartConfirm, AdmittedPCs, ReadPCs
  <1>5. ASSUME NEW e \in Entries, NEW o \in {"serve", "skip", "leave"},
               FinishUserSession(r, e, o)
        PROVE  Guests' \subseteq Guests
    <2>1. SetStatus(e, FinalStatus[o]) /\ FinalStatus[o] \in TerminalStatus
      BY <1>5 DEF FinishUserSession, FinalStatus, TerminalStatus
    <2>2. Known' = Known
      BY <2>1, StatusKnown DEF IInv
    <2> QED
      BY <1>1, <1>5, <2>2 DEF FinishUserSession, AdmittedPCs, ReadPCs
  <1> QED
    BY <1>2, <1>3, <1>4, <1>5 DEF Start, StartTerminate

\* Rebuilding the line and the commands of a join admit nobody who did not pass.
LEMMA GuestsJoin ==
    ASSUME IInv, NEW r \in Requests,
           \/ RehydrateSentinel(r) \/ RehydrateFind(r) \/ RehydrateAdd(r)
           \/ Admit(r) \/ HasCounter(r) \/ ReadLastTicket(r) \/ SetTicketCounter(r)
           \/ NextTicket(r) \/ InsertEntry(r) \/ AddToQueue(r)
    PROVE  Guests' \subseteq Guests
  <1> USE DEF At, Goto, Done, IdleRequest
  <1>0. req \in [Requests -> RequestType] /\ Coherent(req[r])
    BY RequestFields DEF IInv, TypeOK
  <1> DEFINE Own == /\ \A s \in Requests \ {r} : req'[s] = req[s]
                    /\ Passing(r)' => Passing(r) /\ req'[r].e = req[r].e
             Data == Known' \subseteq Known /\ UNCHANGED <<finished, pastExpiry>>
  <1>1. ASSUME Own, Data PROVE Guests' \subseteq Guests
    BY <1>1, GuestsStep DEF Guests
  <1>2. ASSUME NEW l, Goto(r, l), UNCHANGED pastExpiry,
               \/ req[r].pc \in AdmittedPCs
               \/ req[r].pc \in ReadPCs /\ l \in ReadPCs
        PROVE  Own
    BY <1>0, <1>2 DEF RequestType, Passing, AdmittedPCs, ReadPCs
  <1>3. ASSUME NEW n, AfterCount(r, n), UNCHANGED pastExpiry, req[r].pc \in ReadPCs PROVE Own
    BY <1>0, <1>3 DEF AfterCount, RequestType, Passing, AdmittedPCs, ReadPCs, Coherent
  <1>4. ASSUME NEW ids, AfterRehydrate(r, ids), UNCHANGED pastExpiry, req[r].pc \in ReadPCs
        PROVE  Own
    <2>1. CASE req[r].op = "callNext"
      BY <1>0, <1>4, <2>1 DEF AfterRehydrate, RequestType, Passing, AdmittedPCs, ReadPCs
    <2> QED
      BY <1>3, <1>4, <2>1 DEF AfterRehydrate
  <1>5. CASE RehydrateSentinel(r)
    <2>1. Own
      BY <1>2, <1>5 DEF RehydrateSentinel, mongo, ReadPCs
    <2> QED
      BY <1>1, <1>5, <2>1 DEF RehydrateSentinel, mongo, Known
  <1>6. CASE RehydrateFind(r)
    <2>1. Own
      <3>1. CASE Rehydratable = {}
        BY <1>4, <1>6, <3>1 DEF RehydrateFind, mongo, ReadPCs
      <3>2. CASE Rehydratable # {}
        BY <1>0, <1>6, <3>2 DEF RehydrateFind, mongo, RequestType, Passing, AdmittedPCs, ReadPCs
      <3> QED
        BY <3>1, <3>2
    <2> QED
      BY <1>1, <1>6, <2>1 DEF RehydrateFind, mongo, Known
  <1>7. CASE RehydrateAdd(r)
    <2>1. Own
      BY <1>4, <1>7 DEF RehydrateAdd, mongo, ReadPCs
    <2> QED
      BY <1>1, <1>7, <2>1 DEF RehydrateAdd, mongo, Known
  <1>8. CASE Admit(r)
    <2>1. Own
      BY <1>0, <1>8 DEF Admit, mongo, RequestType, Passing, AdmittedPCs, ReadPCs, Coherent,
                        JoinPCs, QueueLive
    <2> QED
      BY <1>1, <1>8, <2>1 DEF Admit, mongo, Known
  <1>9. CASE HasCounter(r) \/ SetTicketCounter(r)
    <2>1. Own
      BY <1>2, <1>9 DEF HasCounter, SetTicketCounter, mongo, AdmittedPCs
    <2> QED
      BY <1>1, <1>9, <2>1 DEF HasCounter, SetTicketCounter, mongo, Known
  <1>10. CASE ReadLastTicket(r)
    <2>1. PICK n \in Readable : req' = [req EXCEPT ![r].n = n, ![r].pc = "setCounter"]
      BY <1>10 DEF ReadLastTicket
    <2>2. /\ \A s \in Requests \ {r} : req'[s] = req[s]
          /\ req'[r].e = req[r].e /\ req'[r].pc = "setCounter"
      BY <1>0, <2>1 DEF RequestType
    <2>3. Own
      BY <1>10, <2>2 DEF ReadLastTicket, Passing, AdmittedPCs
    <2> QED
      BY <1>1, <1>10, <2>3 DEF ReadLastTicket, mongo, Known
  <1>11. CASE NextTicket(r)
    <2>1. Own
      BY <1>0, <1>11 DEF NextTicket, RequestType, Passing, AdmittedPCs
    <2> QED
      BY <1>1, <1>11, <2>1 DEF NextTicket, mongo, Known
  <1>12. CASE InsertEntry(r)
    <2>1. Own
      BY <1>2, <1>12 DEF InsertEntry, AdmittedPCs
    <2>2. Passing(r) /\ status' = [status EXCEPT ![req[r].e] = "WAITING"]
      BY <1>12 DEF InsertEntry, Passing, AdmittedPCs
    <2>3. Known' \subseteq Known \cup {req[r].e}
      BY <2>2 DEF Known, IInv, TypeOK
    <2>4. UNCHANGED <<finished, pastExpiry>>
      BY <1>12 DEF InsertEntry
    <2>5. Known' \ finished' \subseteq Guests
      BY <2>2, <2>3, <2>4 DEF Guests
    <2> QED
      BY <2>1, <2>4, <2>5, GuestsStep
  <1>13. CASE AddToQueue(r)
    <2>1. Own
      BY <1>0, <1>13 DEF AddToQueue, Passing, AdmittedPCs, ReadPCs
    <2> QED
      BY <1>1, <1>13, <2>1 DEF AddToQueue, mongo, Known
  <1> QED
    BY <1>5, <1>6, <1>7, <1>8, <1>9, <1>10, <1>11, <1>12, <1>13

\* No other command makes a guest.
LEMMA GuestsRest ==
    ASSUME IInv, ExpiryInv, NEW r \in Requests,
           \/ CheckStrict(r) \/ ReadPositions(r) \/ PickWaiting(r) \/ MarkCalled(r)
           \/ StartIdleTimer(r) \/ ReleaseLock(r) \/ RemoveFromQueue(r) \/ TallyServed(r)
           \/ ClearIdleTimer(r) \/ ClearGraceTimer(r)
           \/ CloseQueue(r) \/ SkipEntries(r) \/ TerminateDeleteKeys(r)
    PROVE  Guests' \subseteq Guests
  <1> USE DEF At, Goto, Done, IdleRequest
  <1>0. req \in [Requests -> RequestType] /\ Coherent(req[r])
    BY RequestFields DEF IInv, TypeOK
  <1> DEFINE Own == /\ \A s \in Requests \ {r} : req'[s] = req[s]
                    /\ ~Passing(r)'
             Data == Known' \subseteq Known /\ UNCHANGED <<finished, pastExpiry>>
  <1>1. ASSUME Own, Data PROVE Guests' \subseteq Guests
    BY <1>1, GuestsStep DEF Guests
  <1>2. ASSUME NEW l, Goto(r, l), l \notin AdmittedPCs \cup ReadPCs \cup {"admit"} PROVE Own
    BY <1>0, <1>2 DEF RequestType, Passing
  <1>3. ASSUME Done(r) PROVE Own
    BY <1>0, <1>3 DEF Passing, AdmittedPCs, ReadPCs
  <1>4. CASE CheckStrict(r) \/ StartIdleTimer(r) \/ ReleaseLock(r)
    <2>1. Own
      BY <1>2, <1>3, <1>4 DEF CheckStrict, StartIdleTimer, ReleaseLock, AdmittedPCs, ReadPCs
    <2> QED
      BY <1>1, <1>4, <2>1 DEF CheckStrict, StartIdleTimer, ReleaseLock, mongo, Known
  <1>5. CASE ReadPositions(r)
    <2>1. /\ \A s \in Requests \ {r} : req'[s] = req[s]
          /\ req'[r].op = req[r].op /\ req[r].pc = "zrange"
          /\ req'[r].pc \in {"sentinel", "pick"}
      BY <1>0, <1>5 DEF ReadPositions, RequestType
    <2>2. Own
      BY <1>0, <2>1 DEF Passing, AdmittedPCs, Coherent, CallPCs
    <2> QED
      BY <1>1, <1>5, <2>2 DEF ReadPositions, mongo, Known
  <1>6. CASE PickWaiting(r)
    <2>1. PICK e \in Oldest(req[r].ids) :
             IF status[e] = "WAITING"
             THEN req' = [req EXCEPT ![r].e = e, ![r].ids = {}, ![r].pc = "mark"]
             ELSE NextCandidate(r, e)
      BY <1>6 DEF PickWaiting
    <2>2. /\ \A s \in Requests \ {r} : req'[s] = req[s]
          /\ req'[r].pc \in {"mark", "pick", "release"}
      <3>1. CASE status[e] = "WAITING"
        BY <1>0, <2>1, <3>1 DEF RequestType
      <3>2. CASE status[e] # "WAITING"
        BY <1>0, <2>1, <3>2 DEF RequestType, NextCandidate
      <3> QED
        BY <3>1, <3>2
    <2>3. Own
      BY <2>2 DEF Passing, AdmittedPCs, ReadPCs
    <2> QED
      BY <1>1, <1>6, <2>3 DEF PickWaiting, mongo, Known
  <1>7. CASE MarkCalled(r)
    <2>1. Own
      BY <1>2, <1>7 DEF MarkCalled, AdmittedPCs, ReadPCs
    <2>2. Known' = Known
      BY <1>7, StatusKnown DEF MarkCalled, IInv, LiveStatus
    <2> QED
      BY <1>1, <1>7, <2>1, <2>2 DEF MarkCalled
  <1>8. CASE RemoveFromQueue(r) \/ TallyServed(r) \/ ClearIdleTimer(r) \/ ClearGraceTimer(r)
    <2>1. Own
      BY <1>2, <1>3, <1>8 DEF RemoveFromQueue, AfterRemove, TallyServed, ClearIdleTimer,
                              ClearGraceTimer, AdmittedPCs, ReadPCs
    <2> QED
      BY <1>1, <1>8, <2>1 DEF RemoveFromQueue, TallyServed, ClearIdleTimer, ClearGraceTimer,
                              mongo, Known
  <1>9. ~CloseQueue(r) /\ ~SkipEntries(r) /\ ~TerminateDeleteKeys(r)
    BY <1>0 DEF CloseQueue, SkipEntries, TerminateDeleteKeys, Coherent, ExpiryInv
  <1> QED
    BY <1>4, <1>5, <1>6, <1>7, <1>8, <1>9

\* Neither do the jobs, the clock, Redis and the host's other requests.
LEMMA GuestsElse ==
    ASSUME IInv,
           \/ \E e \in Entries : CallEntry(e)
           \/ PauseQueue \/ ResumeQueue \/ Listener \/ Sweeper \/ Environment
    PROVE  Guests' \subseteq Guests
  <1>1. ASSUME UNCHANGED <<req, pastExpiry, status, finished>> PROVE Guests' \subseteq Guests
    BY <1>1, GuestsOther DEF Known
  <1>2. ASSUME UNCHANGED <<req, pastExpiry, finished>>, Known' = Known
        PROVE  Guests' \subseteq Guests
    BY <1>2, GuestsOther
  <1>3. ASSUME NEW e \in Entries, CallEntry(e) PROVE Guests' \subseteq Guests
    <2>1. Known' = Known
      BY <1>3, StatusKnown DEF CallEntry, IInv, LiveStatus
    <2> QED
      BY <1>2, <1>3, <2>1 DEF CallEntry
  <1>4. CASE HandleIdleExpiry \/ HandleGraceExpiry
    <2>1. Known' = Known
      BY <1>4, StatusKnown DEF HandleIdleExpiry, HandleGraceExpiry, IInv, LiveStatus
    <2> QED
      BY <1>2, <1>4, <2>1 DEF HandleIdleExpiry, HandleGraceExpiry
  <1>5. CASE PauseQueue \/ ResumeQueue \/ StartGraceTimer
    BY <1>1, <1>5 DEF PauseQueue, ResumeQueue, SetQueueStatus, StartGraceTimer, mongo
  <1>6. CASE SweepFind \/ ExpireRead \/ ExpireMark \/ ExpireDeleteKeys
    BY <1>1, <1>6 DEF SweepFind, ExpireRead, ExpireMark, ExpireDeleteKeys, mongo
  <1>7. CASE ExpireEntries \/ ExpireDrop
    <2>1. SkipUnserved \/ DeleteEntries
      BY <1>7 DEF ExpireEntries, ExpireDrop
    <2>2. Known' \subseteq Known /\ finished \subseteq finished'
      BY <2>1, BulkGuests DEF IInv
    <2> QED
      BY <1>7, <2>2, GuestsOther DEF ExpireEntries, ExpireDrop
  <1>8. CASE QueueTimePasses \/ QueueTtl
    BY <1>8, GuestsOther DEF QueueTimePasses, QueueTtl, Known
  <1>9. CASE TimerFires
    BY <1>1, <1>9 DEF TimerFires, IdleTimerFires, GraceTimerFires, mongo
  <1>10. CASE PositionsExpire \/ CounterExpires \/ SentinelExpires \/ LockExpires \/ RedisLoss
    BY <1>1, <1>10 DEF PositionsExpire, CounterExpires, SentinelExpires, LockExpires,
                       RedisLoss, mongo
  <1> QED
    BY <1>3, <1>4, <1>5, <1>6, <1>7, <1>8, <1>9, <1>10 DEF Listener, Sweeper, Environment
-----------------------------------------------------------------------------
(* The count of a join *)

\* Those about whom the requests are.
InFlight == {req[r].e : r \in Requests}

\* They are no more than the requests.
LEMMA InFlightCount ==
    IsFiniteSet(InFlight) /\ Cardinality(InFlight) <= Cardinality(Requests)
  <1> DEFINE f == [r \in Requests |-> req[r].e]
  <1>1. f \in Surjection(Requests, InFlight)
    BY DEF InFlight, Surjection
  <1> QED
    BY <1>1, FS_Surjection, SessionAssumption

\* A set of entries, some of them in line and the others in flight.
LEMMA GuestCount ==
    ASSUME IInv, NEW S \in SUBSET (positions \cup InFlight)
    PROVE  /\ IsFiniteSet(S) /\ Cardinality(S) \in Nat
           /\ Cardinality(S) <= Cardinality(positions) + Cardinality(Requests)
           /\ positions = {} => Cardinality(S) <= Cardinality(Requests)
  <1>1. IsFiniteSet(positions) /\ Cardinality(positions) \in Nat
    BY SessionAssumption, FS_Subset, FS_CardinalityType DEF IInv, TypeOK
  <1>2. IsFiniteSet(InFlight) /\ Cardinality(InFlight) \in Nat
        /\ Cardinality(InFlight) <= Cardinality(Requests) /\ Cardinality(Requests) \in Nat
    BY InFlightCount, SessionAssumption, FS_CardinalityType
  <1>3. positions \cap InFlight \subseteq positions
    OBVIOUS
  <1>4. IsFiniteSet(positions \cap InFlight) /\ Cardinality(positions \cap InFlight) \in Nat
    BY <1>1, <1>3, FS_Subset, FS_CardinalityType
  <1>5. /\ IsFiniteSet(positions \cup InFlight)
        /\ Cardinality(positions \cup InFlight)
             = Cardinality(positions) + Cardinality(InFlight)
                 - Cardinality(positions \cap InFlight)
    BY <1>1, <1>2, FS_Union
  <1>6. /\ IsFiniteSet(S) /\ Cardinality(S) \in Nat
        /\ Cardinality(S) <= Cardinality(positions \cup InFlight)
    BY <1>5, FS_Subset, FS_CardinalityType
  <1>7. Cardinality(positions \cup InFlight) \in Nat
    BY <1>5, FS_CardinalityType
  <1>8. positions = {} => Cardinality(S) <= Cardinality(InFlight)
    <2>1. positions = {} => S \subseteq InFlight
      OBVIOUS
    <2> QED
      BY <1>2, <2>1, FS_Subset
  <1> QED
    BY <1>1, <1>2, <1>4, <1>5, <1>6, <1>7, <1>8

\* Who was a guest is counted already.
LEMMA RoomKept ==
    ASSUME IInv, RoomInv, Guests' \subseteq Guests
    PROVE  RoomInv'
  <1>1. Guests \subseteq Entries
    BY PassingGuest DEF Guests, Known
  <1>2. IsFiniteSet(Guests) /\ IsFiniteSet(Guests')
    BY <1>1, SessionAssumption, FS_Subset
  <1>3. Cardinality(Guests') <= Cardinality(Guests)
    BY <1>2, FS_Subset
  <1>4. /\ Cardinality(Guests) \in Nat /\ Cardinality(Guests') \in Nat
        /\ Cardinality(Requests) \in Nat /\ MaxGuests \in Nat
    BY <1>2, FS_CardinalityType, SessionAssumption
  <1> QED
    BY <1>3, <1>4 DEF RoomInv

\* A join that counts and is to pass: of those who are guests then, all who are
\* not in line are in flight, and those in line were few enough.
LEMMA RoomCount ==
    ASSUME IInv, ExpiryInv, LineInv, RoomInv, NEW r \in Requests, Count(r)
    PROVE  RoomInv'
  <1> USE DEF At
  <1>0. req \in [Requests -> RequestType] /\ TypeOK
    BY DEF IInv, TypeOK
  <1>1. UNCHANGED <<qStatus, pastExpiry, status, finished, positions>>
    BY DEF Count, mongo, redis
  <1>2. /\ \A s \in Requests \ {r} : req'[s] = req[s]
        /\ \/ req'[r].pc = "idle"
           \/ req'[r].e = req[r].e /\ req'[r].op = req[r].op
    <2>1. ASSUME NEW n, AfterCount(r, n)
          PROVE  /\ \A s \in Requests \ {r} : req'[s] = req[s]
                 /\ \/ req'[r].pc = "idle"
                    \/ req'[r].e = req[r].e /\ req'[r].op = req[r].op
      BY <1>0, <2>1 DEF AfterCount, Done, IdleRequest, RequestType
    <2>2. CASE Goto(r, "sentinel")
      BY <1>0, <2>2 DEF Goto, RequestType
    <2> QED
      BY <2>1, <2>2 DEF Count
  <1>3. CASE ~Passing(r)'
    <2>1. Known' \ finished' \subseteq Guests
      BY <1>1 DEF Known, Guests
    <2> QED
      BY <1>1, <1>2, <1>3, <2>1, GuestsStep, RoomKept
  <1>4. CASE Passing(r)'
    <2>1. req'[r].pc # "idle" /\ (req'[r].pc = "admit" => ~Exceeded(req'[r].n))
      BY <1>4 DEF Passing, AdmittedPCs, ReadPCs
    <2>2. req'[r].pc \notin AdmittedPCs
      <3>1. ASSUME NEW n, AfterCount(r, n) PROVE req'[r].pc \in {"idle", "admit"}
        BY <1>0, <3>1 DEF AfterCount, Done, IdleRequest, RequestType
      <3>2. CASE Goto(r, "sentinel")
        BY <1>0, <3>2 DEF Goto, RequestType, AdmittedPCs
      <3> QED
        BY <3>1, <3>2 DEF Count, AdmittedPCs
    <2>3. ~pastExpiry /\ QueueLive
      BY <1>1, <1>4, <2>2 DEF Passing, ExpiryInv
    <2>4. Guests' \subseteq positions \cup InFlight
      <3>1. ASSUME NEW e \in Known \ finished PROVE e \in positions \cup InFlight
        <4>1. status[e] \in LiveStatus
          BY <1>0, <2>3 DEF Known, LineInv, ExpiryInv, TypeOK
        <4> QED
          BY <2>3, <4>1 DEF LineInv, InLine, Joining, InFlight, Known
      <3>2. ASSUME NEW s \in Requests, Passing(s)' PROVE req'[s].e = req[s].e
        BY <1>2, <2>1
      <3> QED
        BY <1>1, <3>1, <3>2 DEF Guests, Known, InFlight
    <2>5. \/ positions = {}
          \/ MaxGuests > 0 => Cardinality(positions) + 1 <= MaxGuests
      <3>1. CASE AfterCount(r, Cardinality(positions))
        <4>1. req'[r].pc = "admit" /\ req'[r].n = Cardinality(positions)
          BY <1>0, <2>1, <3>1 DEF AfterCount, Done, IdleRequest, RequestType
        <4>2. ~(MaxGuests > 0 /\ Cardinality(positions) + 1 > MaxGuests)
          BY <2>1, <4>1 DEF Exceeded
        <4>3. Cardinality(positions) \in Nat /\ MaxGuests \in Nat
          BY <1>0, SessionAssumption, CountType DEF TypeOK
        <4> QED
          BY <4>2, <4>3
      <3> QED
        BY <2>3, <3>1 DEF Count
    <2>6. /\ Cardinality(Guests') \in Nat
          /\ Cardinality(Guests') <= Cardinality(positions) + Cardinality(Requests)
          /\ positions = {} => Cardinality(Guests') <= Cardinality(Requests)
      BY <2>4, GuestCount
    <2>7. /\ Cardinality(positions) \in Nat /\ Cardinality(Requests) \in Nat
          /\ MaxGuests \in Nat
      BY <1>0, SessionAssumption, CountType, FS_CardinalityType DEF TypeOK
    <2> QED
      BY <2>5, <2>6, <2>7 DEF RoomInv
  <1> QED
    BY <1>3, <1>4

\* Nobody is a guest of a new queue.
LEMMA RoomInit == Init /\ "terminate" \notin Ops => ExpiryInv /\ RoomInv
  <1> SUFFICES ASSUME Init PROVE ExpiryInv /\ RoomInv
    OBVIOUS
  <1>1. ExpiryInv
    BY DEF Init, ExpiryInv, QueueLive, IdleRequest, IdleSweeper
  <1>2. Guests = {}
    BY DEF Init, Guests, Known, Passing, AdmittedPCs, ReadPCs, At, IdleRequest
  <1>3. Cardinality(Guests) = 0 /\ Cardinality(Requests) \in Nat /\ MaxGuests \in Nat
    BY <1>2, FS_EmptySet, FS_CardinalityType, SessionAssumption
  <1> QED
    BY <1>1, <1>3 DEF RoomInv

\* The capacity check and the insert of a join are separate commands, and the
\* length it reads may be zero because the line was lost or is rebuilt without
\* the guests who are IDLE.  While commands succeed and Redis keeps its data,
\* a queue that is not terminated nevertheless exceeds the limit of its plan by
\* less than the number of requests that run at a time, however long it runs.
THEOREM CapacityIsBounded ==
    Reliable /\ "terminate" \notin Ops => (Spec => []CapacityOvershootBounded)
  <1> SUFFICES ASSUME Reliable, "terminate" \notin Ops
               PROVE  Spec => []CapacityOvershootBounded
    OBVIOUS
  <1> DEFINE Inv == ExpiryInv /\ LineInv /\ KnownInv /\ RoomInv
  <1>1. Init => Inv
    BY LineInit, KnownInit, RoomInit
  <1>2. IInv /\ Inv /\ [Next]_vars => Inv'
    <2> SUFFICES ASSUME IInv, Inv, [Next]_vars PROVE Inv'
      OBVIOUS
    <2>1. ExpiryInv' /\ NotReopened
      BY ExpiryNext
    <2>2. LineInv' /\ KnownInv'
      BY <2>1, LineNext, KnownNext
    <2>3. RoomInv'
      <3>1. CASE UNCHANGED vars
        <4>1. Guests' \subseteq Guests
          BY <3>1, GuestsOther DEF vars, mongo, Known
        <4> QED
          BY <4>1, RoomKept
      <3>2. ASSUME NEW r \in Requests, Start(r) \/ Continue(r) PROVE RoomInv'
        <4>1. CASE Count(r)
          BY <4>1, RoomCount
        <4>2. CASE ~Count(r)
          <5>1. Guests' \subseteq Guests
            BY <3>2, <4>2, GuestsStart, GuestsJoin, GuestsRest DEF Continue
          <5> QED
            BY <5>1, RoomKept
        <4> QED
          BY <4>1, <4>2
      <3>3. ~ListenerFails /\ ~SweeperFails /\ \A r \in Requests : ~CommandFails(r)
        BY DEF Reliable, ListenerFails, SweeperFails, CommandFails
      <3>4. CASE \/ \E e \in Entries : CallEntry(e)
                 \/ PauseQueue \/ ResumeQueue \/ Listener \/ Sweeper \/ Environment
        BY <3>4, GuestsElse, RoomKept
      <3> QED
        BY <3>1, <3>2, <3>3, <3>4 DEF Next
    <2> QED
      BY <2>1, <2>2, <2>3
  <1>3. IInv /\ Inv => CapacityOvershootBounded
    <2> SUFFICES ASSUME IInv, Inv PROVE CapacityOvershootBounded
      OBVIOUS
    <2>1. Admitted \subseteq Guests
      BY DEF Admitted, Guests, KnownInv, Passing, AdmittedPCs
    <2>2. Guests \subseteq Entries
      BY PassingGuest DEF Guests, Known
    <2>3. IsFiniteSet(Guests)
      BY <2>2, SessionAssumption, FS_Subset
    <2>4. /\ IsFiniteSet(Admitted) /\ Cardinality(Admitted) <= Cardinality(Guests)
          /\ Cardinality(Guests) \in Nat /\ Cardinality(Admitted) \in Nat
          /\ Cardinality(Requests) \in Nat /\ MaxGuests \in Nat
      BY <2>1, <2>3, FS_Subset, FS_CardinalityType, SessionAssumption
    <2> QED
      BY <2>4 DEF RoomInv, CapacityOvershootBounded
  <1> QED
    BY <1>1, <1>2, <1>3, Invariance, PTL DEF Spec
-----------------------------------------------------------------------------
(* A queue that ends leaves nobody behind *)

Over == qStatus \in {"CLOSED", "EXPIRED"}

Drained == Unserved \subseteq finished

\* The entries are about to be skipped or deleted.
Draining ==
    \/ sweeper.pc \in {"delKeys", "entries"}
    \/ \E r \in Requests : At(r, "skipAll") /\ req[r].ids # {}

\* Who has a final status has finished; a request that found nobody to skip has
\* nobody to skip; and a queue that is over, which nobody joins, is drained or
\* will be.
DrainInv ==
    /\ \A e \in Entries : status[e] \in TerminalStatus => e \in finished
    /\ \A r \in Requests :
          req[r].pc \in {"close", "skipAll"} /\ req[r].ids = {} => Drained
    /\ Over => /\ \A r \in Requests : req[r].op \notin JoinOps
               /\ Drained \/ Draining

\* No entry is stored or comes to life that was not stored, and none ends its
\* visit without finishing.
Settling ==
    /\ finished \subseteq finished'
    /\ \A e \in Entries :
          /\ status'[e] \in LiveStatus => status[e] \in LiveStatus \cup TerminalStatus
          /\ status'[e] \in TerminalStatus => status[e] \in TerminalStatus \/ e \in finished'

\* Such a step leaves nobody unfinished who had finished.
LEMMA SettlingKeeps ==
    ASSUME DrainInv, Settling
    PROVE  /\ \A e \in Entries : status'[e] \in TerminalStatus => e \in finished'
           /\ Drained => Drained'
  BY DEF DrainInv, Settling, Drained, Unserved

\* An update that gives an entry a status, and a final one with finished_at.
LEMMA SettlingStatus ==
    ASSUME TypeOK, NEW e, NEW s \in LiveStatus \cup TerminalStatus, SetStatus(e, s),
           finished \subseteq finished', s \in TerminalStatus => e \in finished'
    PROVE  Settling
  BY DEF SetStatus, Settling, TypeOK, Stored, LiveStatus, TerminalStatus

\* Skipping the unserved entries, or deleting all of them, drains the queue.
LEMMA SettlingBulk ==
    ASSUME TypeOK, SkipUnserved \/ DeleteEntries
    PROVE  Settling /\ Drained'
  <1>1. CASE SkipUnserved
    BY <1>1 DEF SkipUnserved, Settling, Drained, Unserved, TypeOK, LiveStatus, TerminalStatus
  <1>2. CASE DeleteEntries
    BY <1>2 DEF DeleteEntries, Settling, Drained, Unserved, TypeOK, Stored, LiveStatus,
                TerminalStatus
  <1> QED
    BY <1>1, <1>2

\* A step of one request that neither ends the queue nor begins to.
LEMMA DrainStep ==
    ASSUME DrainInv, NEW r \in Requests,
           \A s \in Requests \ {r} : req'[s] = req[s],
           Settling, UNCHANGED <<qStatus, sweeper>>,
           At(r, "skipAll") /\ req[r].ids # {} => Drained',
           req'[r].pc \in {"close", "skipAll"} /\ req'[r].ids = {} => Drained,
           req'[r].op \in JoinOps => ~Over \/ req[r].op \in JoinOps
    PROVE  DrainInv'
  <1>1. /\ \A e \in Entries : status'[e] \in TerminalStatus => e \in finished'
        /\ Drained => Drained'
    BY SettlingKeeps
  <1>2. ASSUME NEW s \in Requests, req'[s].pc \in {"close", "skipAll"}, req'[s].ids = {}
        PROVE  Drained'
    BY <1>1, <1>2 DEF DrainInv
  <1>3. ASSUME Over' PROVE /\ \A s \in Requests : req'[s].op \notin JoinOps
                           /\ Drained' \/ Draining'
    BY <1>1, <1>3 DEF DrainInv, Over, Draining, At
  <1> QED
    BY <1>1, <1>2, <1>3 DEF DrainInv

\* A step that leaves the requests alone and does not end the queue.
LEMMA DrainOther ==
    ASSUME DrainInv, UNCHANGED req, Settling, Over' => Over,
           sweeper.pc \in {"delKeys", "entries"} =>
              Drained' \/ sweeper'.pc \in {"delKeys", "entries"}
    PROVE  DrainInv'
  <1>1. /\ \A e \in Entries : status'[e] \in TerminalStatus => e \in finished'
        /\ Drained => Drained'
    BY SettlingKeeps
  <1>2. ASSUME Over' PROVE Drained' \/ Draining'
    BY <1>1, <1>2 DEF DrainInv, Draining, At
  <1> QED
    BY <1>1, <1>2 DEF DrainInv

\* In a new queue.
LEMMA DrainInit == Init => DrainInv
  BY DEF Init, DrainInv, Over, IdleRequest, TerminalStatus

\* A request begins: a join not in a queue that is over, and a termination with
\* whom it has to skip.
LEMMA DrainStart ==
    ASSUME IInv, DrainInv, ~CommandsMayFail, NEW r \in Requests, Start(r)
    PROVE  DrainInv'
  <1>0. req \in [Requests -> RequestType] /\ TypeOK
    BY DEF IInv, TypeOK
  <1>1. ASSUME NEW o, NEW e, NEW l, Begin(r, o, e, l), l \notin {"close", "skipAll"},
               o \in JoinOps => ~Over, Settling, UNCHANGED <<qStatus, sweeper>>
        PROVE  DrainInv'
    <2>1. /\ \A s \in Requests \ {r} : req'[s] = req[s]
          /\ req'[r].op = o /\ req'[r].pc = l /\ ~At(r, "skipAll")
      BY <1>0, <1>1 DEF Begin, IdleRequest, At
    <2> QED
      BY <1>1, <2>1, DrainStep
  <1>2. ASSUME UNCHANGED <<status, finished>> PROVE Settling
    BY <1>2 DEF Settling
  <1>3. CASE StartStatus(r) \/ StartCallNext(r)
    BY <1>1, <1>2, <1>3 DEF StartStatus, StartCallNext, mongo, JoinOps
  <1>4. CASE StartTerminate(r)
    <2>1. PICK live \in OrFailed(QueueLive, FALSE), ids \in OrFailed(Unserved, {}) :
             req' = [req EXCEPT ![r] = [IdleRequest EXCEPT !.op = "terminate",
                       !.pc = "close", !.ids = ids, !.live = live]]
      BY <1>4 DEF StartTerminate
    <2>2. ids = Unserved
      BY DEF OrFailed
    <2>3. /\ \A s \in Requests \ {r} : req'[s] = req[s]
          /\ req'[r].op = "terminate" /\ req'[r].ids = ids
      BY <1>0, <2>1 DEF IdleRequest
    <2>4. UNCHANGED <<mongo, sweeper>> /\ ~At(r, "skipAll")
      BY <1>4 DEF StartTerminate, At
    <2>5. req'[r].ids = {} => Drained
      BY <2>2, <2>3 DEF Drained
    <2> QED
      BY <1>2, <2>3, <2>4, <2>5, DrainStep DEF mongo, JoinOps
  <1>5. ASSUME NEW e \in Entries, StartJoin(r, e) \/ StartAddEntry(r, e) PROVE DrainInv'
    BY <1>1, <1>2, <1>5 DEF StartJoin, StartAddEntry, mongo, QueueLive, Over
  <1>6. ASSUME NEW e \in Entries, StartArrived(r, e) \/ StartConfirm(r, e) PROVE DrainInv'
    <2>1. Settling
      BY <1>0, <1>6, SettlingStatus DEF StartArrived, StartConfirm, LiveStatus, TerminalStatus
    <2> QED
      BY <1>1, <1>6, <2>1 DEF StartArrived, StartConfirm, JoinOps
  <1>7. ASSUME NEW e \in Entries, NEW o \in {"serve", "skip", "leave"},
               FinishUserSession(r, e, o)
        PROVE  DrainInv'
    <2>1. SetStatus(e, FinalStatus[o]) /\ FinalStatus[o] \in TerminalStatus
      BY <1>7 DEF FinishUserSession, FinalStatus, TerminalStatus
    <2>2. Settling
      BY <1>0, <1>7, <2>1, SettlingStatus DEF FinishUserSession
    <2> QED
      BY <1>1, <1>7, <2>2 DEF FinishUserSession, JoinOps
  <1> QED
    BY <1>3, <1>4, <1>5, <1>6, <1>7 DEF Start

\* A command of a handler: the insert of a join does not meet the end of the
\* queue, and the update of a termination skips all who are left.
LEMMA DrainContinue ==
    ASSUME IInv, IInv', DrainInv, ClosesAlone, NEW r \in Requests, Continue(r)
    PROVE  DrainInv'
  <1>0. /\ req \in [Requests -> RequestType] /\ TypeOK
        /\ Coherent(req[r]) /\ Coherent(req'[r])
    BY RequestFields DEF IInv, TypeOK, CoherentRequest
  <1>1. /\ \A s \in Requests \ {r} : req'[s] = req[s]
        /\ req'[r].op \in {req[r].op, "none", "status"}
    BY Onward
  <1>2. ASSUME Settling, UNCHANGED <<qStatus, sweeper>>, req[r].op # "terminate"
        PROVE  DrainInv'
    <2>1. req'[r].op # "terminate"
      BY <1>1, <1>2
    <2>2. req'[r].pc \notin {"close", "skipAll"} /\ ~At(r, "skipAll")
      BY <1>0, <1>2, <2>1 DEF Coherent, At
    <2>3. req'[r].op \in JoinOps => req[r].op \in JoinOps
      BY <1>1 DEF JoinOps
    <2> QED
      BY <1>1, <1>2, <2>2, <2>3, DrainStep
  <1>3. ASSUME UNCHANGED <<status, finished>> PROVE Settling
    BY <1>3 DEF Settling
  <1>4. ASSUME UNCHANGED <<mongo, sweeper>>, req[r].op # "terminate" PROVE DrainInv'
    BY <1>2, <1>3, <1>4 DEF mongo
  <1>5. CASE \/ Count(r) \/ RehydrateSentinel(r) \/ RehydrateFind(r) \/ RehydrateAdd(r)
             \/ Admit(r) \/ HasCounter(r) \/ ReadLastTicket(r) \/ SetTicketCounter(r)
             \/ NextTicket(r) \/ AddToQueue(r)
    <2>1. req[r].op # "terminate"
      BY <1>0, <1>5 DEF Count, RehydrateSentinel, RehydrateFind, RehydrateAdd, Admit, HasCounter,
                        ReadLastTicket, SetTicketCounter, NextTicket, AddToQueue, At, Coherent,
                        JoinPCs, ReadPCs
    <2>2. UNCHANGED <<mongo, sweeper>>
      BY <1>5 DEF Count, RehydrateSentinel, RehydrateFind, RehydrateAdd, Admit, HasCounter,
                  ReadLastTicket, SetTicketCounter, NextTicket, AddToQueue
    <2> QED
      BY <1>4, <2>1, <2>2
  <1>6. CASE \/ CheckStrict(r) \/ ReadPositions(r) \/ PickWaiting(r)
             \/ StartIdleTimer(r) \/ ReleaseLock(r)
             \/ RemoveFromQueue(r) \/ ClearIdleTimer(r) \/ ClearGraceTimer(r)
    <2>1. req[r].op # "terminate"
      BY <1>0, <1>6 DEF CheckStrict, ReadPositions, PickWaiting, StartIdleTimer, ReleaseLock,
                        RemoveFromQueue, ClearIdleTimer, ClearGraceTimer, At, Coherent, CallPCs
    <2>2. UNCHANGED <<mongo, sweeper>>
      BY <1>6 DEF CheckStrict, ReadPositions, PickWaiting, StartIdleTimer, ReleaseLock,
                  RemoveFromQueue, ClearIdleTimer, ClearGraceTimer
    <2> QED
      BY <1>4, <2>1, <2>2
  <1>7. CASE TallyServed(r)
    BY <1>0, <1>2, <1>3, <1>7 DEF TallyServed, At, Coherent
  <1>8. CASE MarkCalled(r)
    <2>1. Settling
      BY <1>0, <1>8, SettlingStatus DEF MarkCalled, LiveStatus, TerminalStatus
    <2>2. req[r].op # "terminate"
      BY <1>0, <1>8 DEF MarkCalled, At, Coherent, CallPCs
    <2> QED
      BY <1>2, <1>8, <2>1, <2>2 DEF MarkCalled
  <1>9. CASE InsertEntry(r)
    <2>1. /\ req[r].op \in JoinOps /\ UNCHANGED <<qStatus, finished, sweeper>>
          /\ status' = [status EXCEPT ![req[r].e] = "WAITING"]
      BY <1>0, <1>9 DEF InsertEntry, At, Coherent, JoinPCs, JoinOps
    <2>2. /\ sweeper.pc = "idle" /\ ~Over
          /\ \A s \in Requests : req[s].op # "terminate"
      BY <2>1 DEF ClosesAlone, DrainInv
    <2>3. ASSUME NEW s \in Requests PROVE req'[s].pc \notin {"close", "skipAll"}
      <3>1. req'[s].op # "terminate"
        BY <1>1, <2>2
      <3>2. Coherent(req'[s])
        BY DEF IInv, CoherentRequest
      <3> QED
        BY <3>1, <3>2 DEF Coherent
    <2>4. \A e \in Entries : status'[e] \in TerminalStatus => e \in finished'
      BY <1>0, <2>1 DEF DrainInv, TypeOK, TerminalStatus
    <2>5. ~Over'
      BY <2>1, <2>2 DEF Over
    <2> QED
      BY <2>3, <2>4, <2>5 DEF DrainInv
  <1>10. CASE CloseQueue(r)
    <2>1. /\ req'[r].ids = req[r].ids /\ req'[r].pc = "skipAll"
          /\ req[r].op = "terminate" /\ req[r].pc = "close"
          /\ UNCHANGED <<status, finished, sweeper>>
      BY <1>0, <1>10 DEF CloseQueue, Goto, At, Coherent, RequestType
    <2>2. \A s \in Requests : req[s].op \notin JoinOps
      BY <2>1 DEF ClosesAlone
    <2>3. \A s \in Requests : req'[s].op \notin JoinOps
      BY <1>1, <2>2 DEF JoinOps
    <2>4. Drained' <=> Drained
      BY <2>1 DEF Drained, Unserved
    <2>5. Drained' \/ Draining'
      BY <2>1, <2>4 DEF DrainInv, Draining, At
    <2>6. ASSUME NEW s \in Requests, req'[s].pc \in {"close", "skipAll"}, req'[s].ids = {}
          PROVE  Drained'
      BY <1>1, <2>1, <2>4, <2>6 DEF DrainInv
    <2> QED
      BY <2>1, <2>3, <2>5, <2>6 DEF DrainInv
  <1>11. CASE SkipEntries(r)
    <2>1. req'[r].pc \notin {"close", "skipAll"} /\ req[r].op = "terminate"
      BY <1>0, <1>11 DEF SkipEntries, AfterSkip, Done, IdleRequest, At, Coherent, RequestType
    <2>2. Settling /\ (req[r].ids # {} => Drained')
      BY <1>0, <1>3, <1>11, SettlingBulk DEF SkipEntries
    <2>3. req'[r].op \notin JoinOps
      BY <1>1, <2>1 DEF JoinOps
    <2> QED
      BY <1>1, <1>11, <2>1, <2>2, <2>3, DrainStep DEF SkipEntries
  <1>12. CASE TerminateDeleteKeys(r)
    <2>1. req'[r].pc = "idle" /\ req'[r].op = "none" /\ ~At(r, "skipAll")
      BY <1>0, <1>12 DEF TerminateDeleteKeys, Done, IdleRequest, At
    <2> QED
      BY <1>1, <1>3, <1>12, <2>1, DrainStep DEF TerminateDeleteKeys, mongo, JoinOps
  <1> QED
    BY <1>5, <1>6, <1>7, <1>8, <1>9, <1>10, <1>11, <1>12 DEF Continue

\* The steps that are no command of a request.
LEMMA DrainRest ==
    ASSUME IInv, DrainInv, ClosesAlone,
           \/ \E e \in Entries : CallEntry(e)
           \/ PauseQueue \/ ResumeQueue \/ Listener \/ Sweeper \/ Environment
    PROVE  DrainInv'
  <1>0. TypeOK
    BY DEF IInv
  <1>1. ASSUME UNCHANGED <<status, finished>> PROVE Settling
    BY <1>1 DEF Settling
  <1>2. ASSUME NEW e \in Entries, CallEntry(e) PROVE DrainInv'
    <2>1. Settling
      BY <1>0, <1>2, SettlingStatus DEF CallEntry, LiveStatus, TerminalStatus
    <2> QED
      BY <1>2, <2>1, DrainOther DEF CallEntry, Over
  <1>3. CASE PauseQueue \/ ResumeQueue
    <2>1. ~Over' /\ UNCHANGED <<status, finished, req, sweeper>>
      BY <1>3 DEF PauseQueue, ResumeQueue, SetQueueStatus, Over
    <2> QED
      BY <1>1, <2>1, DrainOther
  <1>4. CASE HandleIdleExpiry \/ HandleGraceExpiry
    <2>1. Settling
      BY <1>0, <1>4, SettlingStatus
      DEF HandleIdleExpiry, HandleGraceExpiry, LiveStatus, TerminalStatus
    <2> QED
      BY <1>4, <2>1, DrainOther DEF HandleIdleExpiry, HandleGraceExpiry, Over
  <1>5. CASE StartGraceTimer \/ SweepFind \/ ExpireRead
    BY <1>1, <1>5, DrainOther DEF StartGraceTimer, SweepFind, ExpireRead, mongo, Over
  <1>6. CASE ExpireMark
    <2>1. /\ UNCHANGED <<req, status, finished>> /\ sweeper.pc # "idle"
          /\ sweeper'.pc = "delKeys"
      BY <1>6 DEF ExpireMark, IInv, TypeOK
    <2>2. \A s \in Requests : req[s].op \notin JoinOps
      BY <2>1 DEF ClosesAlone
    <2>3. Draining'
      BY <2>1 DEF Draining
    <2>4. Drained' <=> Drained
      BY <2>1 DEF Drained, Unserved
    <2> QED
      BY <2>1, <2>2, <2>3, <2>4 DEF DrainInv
  <1>7. CASE ExpireDeleteKeys
    BY <1>0, <1>1, <1>7, DrainOther DEF ExpireDeleteKeys, mongo, Over, TypeOK
  <1>8. CASE ExpireEntries \/ ExpireDrop
    <2>1. SkipUnserved \/ DeleteEntries
      BY <1>8 DEF ExpireEntries, ExpireDrop
    <2>2. Settling /\ Drained'
      BY <1>0, <2>1, SettlingBulk
    <2>3. UNCHANGED req /\ (Over' => Over)
      BY <1>8 DEF ExpireEntries, ExpireDrop, Over
    <2> QED
      BY <2>2, <2>3, DrainOther
  <1>9. CASE QueueTimePasses \/ QueueTtl \/ TimerFires
    BY <1>1, <1>9, DrainOther
    DEF QueueTimePasses, QueueTtl, TimerFires, IdleTimerFires, GraceTimerFires, mongo, Over
  <1>10. CASE PositionsExpire \/ CounterExpires \/ SentinelExpires \/ LockExpires \/ RedisLoss
    BY <1>1, <1>10, DrainOther
    DEF PositionsExpire, CounterExpires, SentinelExpires, LockExpires, RedisLoss, mongo, Over
  <1> QED
    BY <1>2, <1>3, <1>4, <1>5, <1>6, <1>7, <1>8, <1>9, <1>10 DEF Listener, Sweeper, Environment

\* Terminating or expiring a queue takes several commands, between which guests
\* are served, leave, are called or lose their timers, the host may reopen the
\* queue or terminate it twice, and Redis may lose its data.  Unless a command
\* fails or somebody joins meanwhile, nobody is left unfinished when it is over.
THEOREM EndedQueueIsDrained ==
    ~CommandsMayFail => (Spec => EndedQueueDrained)
  <1> SUFFICES ASSUME ~CommandsMayFail
               PROVE  Spec => EndedQueueDrained
    OBVIOUS
  <1>1. IInv /\ DrainInv /\ ClosesAlone /\ [Next]_vars => DrainInv'
    <2> SUFFICES ASSUME IInv, DrainInv, ClosesAlone, [Next]_vars PROVE DrainInv'
      OBVIOUS
    <2>0. IInv'
      BY NextInv
    <2>1. CASE UNCHANGED vars
      <3>1. UNCHANGED <<req, status, finished, qStatus, sweeper>>
        BY <2>1 DEF vars, mongo
      <3> QED
        BY <3>1, DrainOther DEF Settling, Over
    <2>2. ASSUME NEW r \in Requests, Start(r) \/ Continue(r) PROVE DrainInv'
      BY <2>0, <2>2, DrainStart, DrainContinue
    <2>3. ~ListenerFails /\ ~SweeperFails /\ \A r \in Requests : ~CommandFails(r)
      BY DEF ListenerFails, SweeperFails, CommandFails
    <2> QED
      BY <2>1, <2>2, <2>3, DrainRest DEF Next
  <1>2. DrainInv => EndedQueueLeavesNobody
    <2> SUFFICES ASSUME DrainInv, Over, Quiet PROVE Drained
      BY DEF EndedQueueLeavesNobody, Over, Drained
    <2>1. ~Draining
      BY DEF Draining, Quiet, At
    <2> QED
      BY <2>1 DEF DrainInv
  <1> QED
    BY <1>1, <1>2, DrainInit, Invariance, PTL DEF Spec, EndedQueueDrained
=============================================================================
