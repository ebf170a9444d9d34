------------------------ MODULE QueueSession_proofs ------------------------
(***************************************************************************)
(* Proofs about QueueSession, for every number of guests and of concurrent *)
(* requests.                                                               *)
(*                                                                         *)
(* TypeOK is not inductive: AddToQueue adds the entry of the request to    *)
(* the sorted set, and only the path of the handler says that the request  *)
(* has one.  IInv adds which handler executes which command.               *)
(***************************************************************************)
EXTENDS QueueSession, FiniteSetTheorems, TLAPS

GuestOps == {"join", "addEntry", "serve", "skip", "leave", "arrived", "confirm"}
JoinPCs == {"admit", "hasCounter", "maxTicket", "setCounter", "incr", "insert", "zadd"}
CallPCs == {"strict", "zrange", "pick", "mark", "timer", "release"}
ReadPCs == {"sentinel", "find", "zaddAll"}

\* The command a request is at belongs to its operation, and an operation on a
\* guest has one.
Coherent(q) ==
    /\ q.op \in GuestOps \/ q.pc \in {"mark", "timer"} => q.e \in Entries
    /\ q.pc \in JoinPCs => q.op \in {"join", "addEntry"}
    /\ q.pc \in CallPCs => q.op = "callNext"
    /\ q.pc = "count" => q.op \in {"status", "join", "addEntry"}
    /\ q.pc \in ReadPCs => q.op \in {"status", "join", "addEntry", "callNext"}
    /\ q.pc \in {"zrem", "tally"} => q.op \in {"serve", "skip", "leave"}
    /\ q.pc \in {"clearIdle", "clearGrace"} => q.op \in {"arrived", "confirm"}
    /\ q.pc \in {"close", "skipAll", "delKeys"} => q.op = "terminate"

CoherentRequest == {q \in RequestType : Coherent(q)}

IInv == TypeOK /\ req \in [Requests -> CoherentRequest]
-----------------------------------------------------------------------------
(* How the helpers change the request of a slot *)

\* The fields of a coherent request.
LEMMA RequestFields ==
    ASSUME IInv, NEW r \in Requests
    PROVE  /\ req[r] \in RequestType /\ Coherent(req[r])
           /\ req[r].e \in Entries \cup {NoEntry} /\ req[r].ids \in SUBSET Entries
           /\ req[r].n \in Nat
           /\ req[r].pc \in {"insert", "zadd", "mark", "timer", "zrem", "clearIdle",
                             "clearGrace"} => req[r].e \in Entries
  <1>1. req[r] \in RequestType /\ Coherent(req[r])
    BY DEF IInv, CoherentRequest
  <1> QED
    BY <1>1 DEF RequestType, Coherent, JoinPCs, GuestOps

\* A slot with a coherent request keeps the whole array coherent.
LEMMA SlotCoherent ==
    ASSUME IInv, NEW r \in Requests, NEW q \in RequestType, Coherent(q),
           req' = [req EXCEPT ![r] = q]
    PROVE  req' \in [Requests -> CoherentRequest]
  BY DEF IInv, CoherentRequest

\* A free slot is a coherent request.
LEMMA IdleCoherent == IdleRequest \in RequestType /\ Coherent(IdleRequest)
  BY DEF IdleRequest, RequestType, PCs, Coherent, GuestOps, JoinPCs, CallPCs, ReadPCs

\* Done frees the slot.
LEMMA DoneCoherent ==
    ASSUME IInv, NEW r \in Requests, Done(r)
    PROVE  req' \in [Requests -> CoherentRequest]
  BY IdleCoherent, SlotCoherent DEF Done

\* Goto leads to a command of the same operation.
LEMMA GotoCoherent ==
    ASSUME IInv, NEW r \in Requests, NEW l \in PCs,
           Coherent([req[r] EXCEPT !.pc = l]), Goto(r, l)
    PROVE  req' \in [Requests -> CoherentRequest]
  <1>1. [req[r] EXCEPT !.pc = l] \in RequestType
    BY RequestFields DEF RequestType
  <1>2. req' = [req EXCEPT ![r] = [req[r] EXCEPT !.pc = l]]
    BY DEF Goto
  <1> QED
    BY <1>1, <1>2, SlotCoherent

\* Begin fills a free slot.
LEMMA BeginCoherent ==
    ASSUME IInv, NEW r \in Requests, NEW o, NEW e \in Entries \cup {NoEntry},
           NEW l \in PCs, Coherent([IdleRequest EXCEPT !.op = o, !.e = e, !.pc = l]),
           Begin(r, o, e, l)
    PROVE  req' \in [Requests -> CoherentRequest]
  <1>1. o \in AllOps
    BY SessionAssumption DEF Begin
  <1>2. [IdleRequest EXCEPT !.op = o, !.e = e, !.pc = l] \in RequestType
    BY <1>1, IdleCoherent DEF RequestType
  <1> QED
    BY <1>2, SlotCoherent DEF Begin

\* A count that a request remembers is a natural number.
LEMMA CountType ==
    ASSUME NEW S \in SUBSET Entries
    PROVE  Cardinality(S) \in Nat
  BY SessionAssumption, FS_Subset, FS_CardinalityType

\* AfterCount ends a read, or hands the count to the capacity check of a join.
LEMMA AfterCountCoherent ==
    ASSUME IInv, NEW r \in Requests, NEW n \in Nat,
           req[r].op \in {"status", "join", "addEntry"}, AfterCount(r, n)
    PROVE  req' \in [Requests -> CoherentRequest]
  <1>1. CASE req[r].op = "status"
    BY <1>1, DoneCoherent DEF AfterCount
  <1>2. CASE req[r].op # "status"
    <2> DEFINE q == [req[r] EXCEPT !.n = n, !.pc = "admit"]
    <2>1. q \in RequestType
      BY RequestFields DEF RequestType, PCs
    <2>2. Coherent(q)
      BY <1>2, RequestFields
      DEF RequestType, Coherent, GuestOps, JoinPCs, CallPCs, ReadPCs
    <2>3. req' = [req EXCEPT ![r] = q]
      BY <1>2 DEF AfterCount
    <2> HIDE DEF q
    <2> QED
      BY <2>1, <2>2, <2>3, SlotCoherent
  <1> QED
    BY <1>1, <1>2

\* AfterRehydrate hands the entries found to call-next, or their number to a read.
LEMMA AfterRehydrateCoherent ==
    ASSUME IInv, NEW r \in Requests, NEW ids \in SUBSET Entries,
           req[r].pc \in ReadPCs, AfterRehydrate(r, ids)
    PROVE  req' \in [Requests -> CoherentRequest]
  <1>1. CASE req[r].op = "callNext"
    <2> DEFINE q == [req[r] EXCEPT !.ids = ids,
                                   !.pc = IF ids = {} THEN "release" ELSE "pick"]
    <2>1. q \in RequestType
      BY RequestFields DEF RequestType, PCs
    <2>2. Coherent(q)
      BY <1>1, RequestFields
      DEF RequestType, Coherent, GuestOps, JoinPCs, CallPCs, ReadPCs
    <2>3. req' = [req EXCEPT ![r] = q]
      BY <1>1 DEF AfterRehydrate
    <2> HIDE DEF q
    <2> QED
      BY <2>1, <2>2, <2>3, SlotCoherent
  <1>2. CASE req[r].op # "callNext"
    <2>1. req[r].op \in {"status", "join", "addEntry"}
      BY <1>2, RequestFields DEF Coherent
    <2> QED
      BY <1>2, <2>1, CountType, AfterCountCoherent DEF AfterRehydrate
  <1> QED
    BY <1>1, <1>2

\* SetStatus writes a status of a stored entry.
LEMMA SetStatusType ==
    ASSUME TypeOK, NEW e, NEW s \in LiveStatus \cup TerminalStatus, SetStatus(e, s)
    PROVE  status' \in [Entries -> LiveStatus \cup TerminalStatus \cup {"ABSENT", "GONE"}]
  BY DEF SetStatus, TypeOK, Stored

\* A command that only reads changes nothing but its request.
LEMMA ReadOnly ==
    ASSUME IInv, req' \in [Requests -> CoherentRequest],
           UNCHANGED <<mongo, redis, listener, sweeper>>
    PROVE  IInv'
  BY DEF IInv, TypeOK, mongo, redis, timers, CoherentRequest
-----------------------------------------------------------------------------
(* One step per action *)

\* The initial state satisfies the inductive invariant.
LEMMA InitInv == Init => IInv
  <1> SUFFICES ASSUME Init PROVE IInv
    OBVIOUS
  <1>1. req \in [Requests -> CoherentRequest] /\ req \in [Requests -> RequestType]
    BY IdleCoherent DEF Init, CoherentRequest
  <1>2. losses \in 0..MaxLosses /\ events \in Seq({"idle", "grace"} \X Entries)
    BY SessionAssumption DEF Init
  <1> QED
    BY <1>1, <1>2 DEF Init, IdleSweeper, IInv, TypeOK

\* A request that begins is coherent.
LEMMA StartInv ==
    ASSUME IInv, NEW r \in Requests, Start(r)
    PROVE  IInv'
  <1> USE DEF PCs, Coherent, IdleRequest, GuestOps, JoinPCs, CallPCs, ReadPCs
  <1>1. CASE StartStatus(r)
    <2>1. req' \in [Requests -> CoherentRequest]
      BY <1>1, BeginCoherent DEF StartStatus
    <2> QED
      BY <1>1, <2>1, ReadOnly DEF StartStatus
  <1>2. CASE StartCallNext(r)
    <2>1. req' \in [Requests -> CoherentRequest]
      BY <1>2, BeginCoherent DEF StartCallNext
    <2> QED
      BY <1>2, <2>1 DEF StartCallNext, IInv, TypeOK, mongo, timers, CoherentRequest
  <1>3. CASE StartTerminate(r)
    <2>0. PICK live \in OrFailed(QueueLive, FALSE), ids \in OrFailed(Unserved, {}) :
            req' = [req EXCEPT ![r] = [IdleRequest EXCEPT !.op = "terminate",
                      !.pc = "close", !.ids = ids, !.live = live]]
      BY <1>3 DEF StartTerminate
    <2> DEFINE q == [IdleRequest EXCEPT !.op = "terminate", !.pc = "close",
                                        !.ids = ids, !.live = live]
    <2>1. live \in BOOLEAN /\ ids \in SUBSET Entries
      BY DEF OrFailed, Unserved, QueueLive, IInv, TypeOK
    <2>2. q \in RequestType
      BY <2>1, IdleCoherent DEF RequestType, AllOps
    <2>3. Coherent(q)
      OBVIOUS
    <2> HIDE DEF q
    <2>4. req' \in [Requests -> CoherentRequest]
      BY <2>0, <2>2, <2>3, SlotCoherent DEF q
    <2> QED
      BY <1>3, <2>4, ReadOnly DEF StartTerminate
  <1>4. ASSUME NEW e \in Entries, StartJoin(r, e) PROVE IInv'
    <2>1. req' \in [Requests -> CoherentRequest]
      BY <1>4, BeginCoherent DEF StartJoin
    <2> QED
      BY <1>4, <2>1, ReadOnly DEF StartJoin
  <1>5. ASSUME NEW e \in Entries, StartAddEntry(r, e) PROVE IInv'
    <2>1. req' \in [Requests -> CoherentRequest]
      BY <1>5, BeginCoherent DEF StartAddEntry
    <2> QED
      BY <1>5, <2>1, ReadOnly DEF StartAddEntry
  <1>6. ASSUME NEW e \in Entries, StartArrived(r, e) PROVE IInv'
    <2>1. req' \in [Requests -> CoherentRequest]
      BY <1>6, BeginCoherent DEF StartArrived
    <2>2. status' \in [Entries -> LiveStatus \cup TerminalStatus \cup {"ABSENT", "GONE"}]
      BY <1>6, SetStatusType DEF StartArrived, LiveStatus, IInv
    <2> QED
      BY <1>6, <2>1, <2>2
      DEF StartArrived, IInv, TypeOK, redis, timers, CoherentRequest
  <1>7. ASSUME NEW e \in Entries, StartConfirm(r, e) PROVE IInv'
    <2>1. req' \in [Requests -> CoherentRequest]
      BY <1>7, BeginCoherent DEF StartConfirm
    <2>2. status' \in [Entries -> LiveStatus \cup TerminalStatus \cup {"ABSENT", "GONE"}]
      BY <1>7, SetStatusType DEF StartConfirm, LiveStatus, IInv
    <2> QED
      BY <1>7, <2>1, <2>2
      DEF StartConfirm, IInv, TypeOK, redis, timers, CoherentRequest
  <1>8. ASSUME NEW e \in Entries, NEW o \in {"serve", "skip", "leave"},
               FinishUserSession(r, e, o)
        PROVE  IInv'
    <2>1. req' \in [Requests -> CoherentRequest]
      BY <1>8, BeginCoherent DEF FinishUserSession
    <2>2. FinalStatus[o] \in TerminalStatus
      BY DEF FinalStatus, TerminalStatus
    <2>3. status' \in [Entries -> LiveStatus \cup TerminalStatus \cup {"ABSENT", "GONE"}]
      BY <1>8, <2>2, SetStatusType DEF FinishUserSession, IInv
    <2> QED
      BY <1>8, <2>1, <2>3
      DEF FinishUserSession, IInv, TypeOK, redis, timers, CoherentRequest
  <1> QED
    BY <1>1, <1>2, <1>3, <1>4, <1>5, <1>6, <1>7, <1>8 DEF Start

\* Counting the line and rebuilding it keep the invariant.
LEMMA ReadInv ==
    ASSUME IInv, NEW r \in Requests,
           Count(r) \/ RehydrateSentinel(r) \/ RehydrateFind(r) \/ RehydrateAdd(r)
    PROVE  IInv'
  <1>1. CASE Count(r)
    <2>1. req[r].op \in {"status", "join", "addEntry"}
      BY <1>1, RequestFields DEF Count, At, Coherent
    <2>2. Cardinality(positions) \in Nat
      BY CountType DEF IInv, TypeOK
    <2>3. Coherent([req[r] EXCEPT !.pc = "sentinel"])
      BY <2>1, RequestFields
      DEF RequestType, Coherent, GuestOps, JoinPCs, CallPCs, ReadPCs
    <2>4. \/ AfterCount(r, 0) \/ AfterCount(r, Cardinality(positions))
          \/ Goto(r, "sentinel")
      BY <1>1 DEF Count
    <2>5. req' \in [Requests -> CoherentRequest]
      BY <2>1, <2>2, <2>3, <2>4, AfterCountCoherent, GotoCoherent DEF PCs
    <2> QED
      BY <1>1, <2>5, ReadOnly DEF Count
  <1>2. CASE RehydrateSentinel(r)
    <2>1. Coherent([req[r] EXCEPT !.pc = "find"])
      BY <1>2, RequestFields
      DEF RehydrateSentinel, At, RequestType, Coherent, GuestOps, JoinPCs, CallPCs, ReadPCs
    <2>2. req' \in [Requests -> CoherentRequest]
      BY <1>2, <2>1, GotoCoherent DEF RehydrateSentinel, PCs
    <2> QED
      BY <1>2, <2>2 DEF RehydrateSentinel, IInv, TypeOK, mongo, timers, CoherentRequest
  <1>3. CASE RehydrateFind(r)
    <2>1. req[r].pc \in ReadPCs
      BY <1>3 DEF RehydrateFind, At, ReadPCs
    <2>2. Rehydratable \in SUBSET Entries
      BY DEF Rehydratable
    <2>3. CASE Rehydratable = {}
      <3>1. req' \in [Requests -> CoherentRequest]
        BY <1>3, <2>1, <2>3, AfterRehydrateCoherent DEF RehydrateFind
      <3> QED
        BY <1>3, <3>1, ReadOnly DEF RehydrateFind
    <2>4. CASE Rehydratable # {}
      <3> DEFINE q == [req[r] EXCEPT !.ids = Rehydratable, !.pc = "zaddAll"]
      <3>1. q \in RequestType
        BY <2>2, RequestFields DEF RequestType, PCs
      <3>2. Coherent(q)
        BY <2>1, RequestFields
        DEF RequestType, Coherent, GuestOps, JoinPCs, CallPCs, ReadPCs
      <3>3. req' = [req EXCEPT ![r] = q]
        BY <1>3, <2>4 DEF RehydrateFind
      <3> HIDE DEF q
      <3>4. req' \in [Requests -> CoherentRequest]
        BY <3>1, <3>2, <3>3, SlotCoherent
      <3> QED
        BY <1>3, <3>4, ReadOnly DEF RehydrateFind
    <2> QED
      BY <2>3, <2>4
  <1>4. CASE RehydrateAdd(r)
    <2>1. req[r].pc \in ReadPCs /\ req[r].ids \in SUBSET Entries
      BY <1>4, RequestFields DEF RehydrateAdd, At, ReadPCs
    <2>2. req' \in [Requests -> CoherentRequest]
      BY <1>4, <2>1, AfterRehydrateCoherent DEF RehydrateAdd
    <2> QED
      BY <1>4, <2>1, <2>2 DEF RehydrateAdd, IInv, TypeOK, mongo, timers, CoherentRequest
  <1> QED
    BY <1>1, <1>2, <1>3, <1>4

\* What is read of a ticket is a number, and of a ticket of up to four digits the
\* ticket.
LEMMA ReadableType ==
    ASSUME IInv
    PROVE  /\ Readable \subseteq Nat
           /\ \A t \in Tickets : t <= 9999 => t \in Readable
  <1>1. Tickets \subseteq Nat
    BY DEF Tickets, Stored, IInv, TypeOK
  <1>2. ASSUME NEW t \in Tickets PROVE Beginnings(t) \subseteq Nat /\ t \in Beginnings(t)
    <2>1. t \in Nat
      BY <1>1
    <2> QED
      BY <2>1 DEF Beginnings
  <1> QED
    BY <1>2 DEF Readable

\* So do the commands of a join: check, counter, insert and position.
LEMMA JoinInv ==
    ASSUME IInv, NEW r \in Requests,
           \/ Admit(r) \/ HasCounter(r) \/ ReadLastTicket(r) \/ SetTicketCounter(r)
           \/ NextTicket(r) \/ InsertEntry(r) \/ AddToQueue(r)
    PROVE  IInv'
  <1> USE DEF At, PCs
  <1>0. ASSUME NEW l \in JoinPCs, req[r].pc \in JoinPCs
        PROVE  /\ Coherent([req[r] EXCEPT !.pc = l])
               /\ \A n \in Nat : /\ [req[r] EXCEPT !.n = n, !.pc = l] \in RequestType
                                 /\ Coherent([req[r] EXCEPT !.n = n, !.pc = l])
    <2>1. Coherent([req[r] EXCEPT !.pc = l])
      BY <1>0, RequestFields
      DEF RequestType, Coherent, GuestOps, JoinPCs, CallPCs, ReadPCs
    <2>2. ASSUME NEW n \in Nat
          PROVE  /\ [req[r] EXCEPT !.n = n, !.pc = l] \in RequestType
                 /\ Coherent([req[r] EXCEPT !.n = n, !.pc = l])
      <3>1. [req[r] EXCEPT !.n = n, !.pc = l] \in RequestType
        BY RequestFields DEF RequestType, JoinPCs
      <3>2. Coherent([req[r] EXCEPT !.n = n, !.pc = l])
        BY <1>0, RequestFields
        DEF RequestType, Coherent, GuestOps, JoinPCs, CallPCs, ReadPCs
      <3> QED
        BY <3>1, <3>2
    <2> QED
      BY <2>1, <2>2
  <1>1. CASE Admit(r)
    <2>1. req' \in [Requests -> CoherentRequest]
      BY <1>0, <1>1, DoneCoherent, GotoCoherent DEF Admit, JoinPCs
    <2> QED
      BY <1>1, <2>1, ReadOnly DEF Admit
  <1>2. CASE HasCounter(r)
    <2>1. req' \in [Requests -> CoherentRequest]
      BY <1>0, <1>2, GotoCoherent DEF HasCounter, JoinPCs
    <2> QED
      BY <1>2, <2>1, ReadOnly DEF HasCounter
  <1>3. CASE ReadLastTicket(r)
    <2>1. Readable \subseteq Nat
      BY ReadableType
    <2>2. PICK n \in Nat : req' = [req EXCEPT ![r].n = n, ![r].pc = "setCounter"]
      BY <1>3, <2>1 DEF ReadLastTicket
    <2>3. req' = [req EXCEPT ![r] = [req[r] EXCEPT !.n = n, !.pc = "setCounter"]]
      BY <2>2
    <2>4. req[r].pc \in JoinPCs /\ "setCounter" \in JoinPCs
      BY <1>3 DEF ReadLastTicket, JoinPCs
    <2>5. req' \in [Requests -> CoherentRequest]
      BY <1>0, <2>3, <2>4, SlotCoherent
    <2> QED
      BY <1>3, <2>5, ReadOnly DEF ReadLastTicket
  <1>4. CASE SetTicketCounter(r)
    <2>1. req' \in [Requests -> CoherentRequest]
      BY <1>0, <1>4, GotoCoherent DEF SetTicketCounter, JoinPCs
    <2> QED
      BY <1>4, <2>1, RequestFields
      DEF SetTicketCounter, IInv, TypeOK, mongo, timers, CoherentRequest
  <1>5. CASE NextTicket(r)
    <2>1. counter + 1 \in Nat
      BY DEF IInv, TypeOK
    <2>2. req' = [req EXCEPT ![r] = [req[r] EXCEPT !.n = counter + 1, !.pc = "insert"]]
      BY <1>5 DEF NextTicket
    <2>3. req[r].pc \in JoinPCs /\ "insert" \in JoinPCs
      BY <1>5 DEF NextTicket, JoinPCs
    <2>4. req' \in [Requests -> CoherentRequest]
      BY <1>0, <2>1, <2>2, <2>3, SlotCoherent
    <2> QED
      BY <1>5, <2>1, <2>4 DEF NextTicket, IInv, TypeOK, mongo, timers, CoherentRequest
  <1>6. CASE InsertEntry(r)
    <2> DEFINE now == 1 + Cardinality({f \in Entries : stamp[f] > 0})
    <2>1. now \in Nat
      BY CountType
    <2>2. /\ status' = [status EXCEPT ![req[r].e] = "WAITING"]
          /\ ticket' = [ticket EXCEPT ![req[r].e] = req[r].n]
          /\ stamp' = [stamp EXCEPT ![req[r].e] = now]
      BY <1>6 DEF InsertEntry
    <2> HIDE DEF now
    <2>3. /\ status' \in [Entries -> LiveStatus \cup TerminalStatus \cup {"ABSENT", "GONE"}]
          /\ ticket' \in [Entries -> Nat] /\ stamp' \in [Entries -> Nat]
      BY <2>1, <2>2, RequestFields DEF IInv, TypeOK, LiveStatus
    <2>4. req' \in [Requests -> CoherentRequest]
      BY <1>0, <1>6, GotoCoherent DEF InsertEntry, JoinPCs
    <2>5. UNCHANGED <<qStatus, pastExpiry, finished, served, redis, listener, sweeper>>
      BY <1>6 DEF InsertEntry
    <2> QED
      BY <2>3, <2>4, <2>5 DEF IInv, TypeOK, redis, timers, CoherentRequest
  <1>7. CASE AddToQueue(r)
    <2> DEFINE q == [IdleRequest EXCEPT !.op = "status", !.pc = "count"]
    <2>1. q \in RequestType
      BY IdleCoherent DEF RequestType, AllOps
    <2>2. Coherent(q)
      BY DEF IdleRequest, Coherent, GuestOps, JoinPCs, CallPCs, ReadPCs
    <2>3. req' = [req EXCEPT ![r] = q]
      BY <1>7 DEF AddToQueue
    <2> HIDE DEF q
    <2>4. req' \in [Requests -> CoherentRequest]
      BY <2>1, <2>2, <2>3, SlotCoherent
    <2>5. req[r].e \in Entries
      BY <1>7, RequestFields DEF AddToQueue
    <2> QED
      BY <1>7, <2>4, <2>5 DEF AddToQueue, IInv, TypeOK, mongo, timers, CoherentRequest
  <1> QED
    BY <1>1, <1>2, <1>3, <1>4, <1>5, <1>6, <1>7

\* The loop of call-next goes on with fewer candidates.
LEMMA NextCandidateCoherent ==
    ASSUME IInv, NEW r \in Requests, At(r, "pick"), NEW e, NextCandidate(r, e)
    PROVE  req' \in [Requests -> CoherentRequest]
  <1> DEFINE rest == req[r].ids \ {e}
             q == [req[r] EXCEPT !.ids = rest,
                                 !.pc = IF rest = {} THEN "release" ELSE "pick"]
  <1>1. rest \in SUBSET Entries
    BY RequestFields
  <1>2. req' = [req EXCEPT ![r] = q]
    BY DEF NextCandidate
  <1> HIDE DEF rest
  <1>3. q \in RequestType
    BY <1>1, RequestFields DEF RequestType, PCs
  <1>4. Coherent(q)
    BY RequestFields DEF At, RequestType, Coherent, GuestOps, JoinPCs, CallPCs, ReadPCs
  <1> HIDE DEF q
  <1> QED
    BY <1>2, <1>3, <1>4, SlotCoherent

\* So do the commands of call-next, from the strict check to the release.
LEMMA CallInv ==
    ASSUME IInv, NEW r \in Requests,
           \/ CheckStrict(r) \/ ReadPositions(r) \/ PickWaiting(r) \/ MarkCalled(r)
           \/ StartIdleTimer(r) \/ ReleaseLock(r)
    PROVE  IInv'
  <1> USE DEF At, PCs
  <1>0. ASSUME req[r].pc \in CallPCs
        PROVE  /\ \A l \in {"zrange", "release"} : Coherent([req[r] EXCEPT !.pc = l])
               /\ req[r].pc = "mark" => Coherent([req[r] EXCEPT !.pc = "timer"])
    BY <1>0, RequestFields
    DEF RequestType, Coherent, GuestOps, JoinPCs, CallPCs, ReadPCs
  <1>1. CASE CheckStrict(r)
    <2>1. req' \in [Requests -> CoherentRequest]
      BY <1>0, <1>1, GotoCoherent DEF CheckStrict, CallPCs
    <2> QED
      BY <1>1, <2>1, ReadOnly DEF CheckStrict
  <1>2. CASE ReadPositions(r)
    <2> DEFINE q == [req[r] EXCEPT !.ids = positions,
                                   !.pc = IF positions = {} THEN "sentinel" ELSE "pick"]
    <2>1. q \in RequestType
      <3>1. req[r] \in RequestType /\ positions \subseteq Entries
        BY RequestFields DEF IInv, TypeOK
      <3> DEFINE pc == IF positions = {} THEN "sentinel" ELSE "pick"
      <3>2. pc \in {"sentinel", "pick"}
        OBVIOUS
      <3> HIDE DEF pc
      <3> QED
        BY <3>1, <3>2 DEF RequestType
    <2>2. Coherent(q)
      BY <1>2, RequestFields
      DEF ReadPositions, RequestType, Coherent, GuestOps, JoinPCs, CallPCs, ReadPCs
    <2>3. req' = [req EXCEPT ![r] = q]
      BY <1>2 DEF ReadPositions
    <2> HIDE DEF q
    <2>4. req' \in [Requests -> CoherentRequest]
      BY <2>1, <2>2, <2>3, SlotCoherent
    <2> QED
      BY <1>2, <2>4, ReadOnly DEF ReadPositions
  <1>3. CASE PickWaiting(r)
    <2>1. PICK e \in Oldest(req[r].ids) :
             IF status[e] = "WAITING"
             THEN req' = [req EXCEPT ![r].e = e, ![r].ids = {}, ![r].pc = "mark"]
             ELSE NextCandidate(r, e)
      BY <1>3 DEF PickWaiting
    <2>2. e \in Entries
      BY RequestFields DEF Oldest
    <2>3. CASE status[e] = "WAITING"
      <3> DEFINE q == [req[r] EXCEPT !.e = e, !.ids = {}, !.pc = "mark"]
      <3>1. q \in RequestType
        BY <2>2, RequestFields DEF RequestType
      <3>2. Coherent(q)
        BY <1>3, <2>2, RequestFields
        DEF PickWaiting, RequestType, Coherent, GuestOps, JoinPCs, CallPCs, ReadPCs
      <3>3. req' = [req EXCEPT ![r] = q]
        BY <2>1, <2>3
      <3> HIDE DEF q
      <3>4. req' \in [Requests -> CoherentRequest]
        BY <3>1, <3>2, <3>3, SlotCoherent
      <3> QED
        BY <1>3, <3>4, ReadOnly DEF PickWaiting
    <2>4. CASE status[e] # "WAITING"
      <3>1. req' \in [Requests -> CoherentRequest]
        BY <1>3, <2>1, <2>4, NextCandidateCoherent DEF PickWaiting
      <3> QED
        BY <1>3, <3>1, ReadOnly DEF PickWaiting
    <2> QED
      BY <2>3, <2>4
  <1>4. CASE MarkCalled(r)
    <2>1. req' \in [Requests -> CoherentRequest]
      BY <1>0, <1>4, GotoCoherent DEF MarkCalled, CallPCs
    <2>2. status' \in [Entries -> LiveStatus \cup TerminalStatus \cup {"ABSENT", "GONE"}]
      BY <1>4, SetStatusType DEF MarkCalled, LiveStatus, IInv
    <2>3. UNCHANGED <<qStatus, pastExpiry, finished, ticket, stamp, served, redis,
                      listener, sweeper>>
      BY <1>4 DEF MarkCalled
    <2> QED
      BY <2>1, <2>2, <2>3 DEF IInv, TypeOK, redis, timers, CoherentRequest
  <1>5. CASE StartIdleTimer(r)
    <2>1. req' \in [Requests -> CoherentRequest]
      BY <1>0, <1>5, GotoCoherent DEF StartIdleTimer, CallPCs
    <2>2. req[r].e \in Entries
      BY <1>5, RequestFields DEF StartIdleTimer
    <2> QED
      BY <1>5, <2>1, <2>2 DEF StartIdleTimer, IInv, TypeOK, mongo, CoherentRequest
  <1>6. CASE ReleaseLock(r)
    <2>1. req' \in [Requests -> CoherentRequest]
      BY <1>6, DoneCoherent DEF ReleaseLock
    <2> QED
      BY <1>6, <2>1 DEF ReleaseLock, IInv, TypeOK, mongo, timers, CoherentRequest
  <1> QED
    BY <1>1, <1>2, <1>3, <1>4, <1>5, <1>6

\* A removal ends the request, or goes on to the host's metrics.
LEMMA AfterRemoveCoherent ==
    ASSUME IInv, NEW r \in Requests, At(r, "zrem"), AfterRemove(r)
    PROVE  req' \in [Requests -> CoherentRequest]
  <1>1. Coherent([req[r] EXCEPT !.pc = "tally"])
    BY RequestFields DEF At, RequestType, Coherent, GuestOps, JoinPCs, CallPCs, ReadPCs
  <1> QED
    BY <1>1, GotoCoherent, DoneCoherent DEF AfterRemove, PCs

\* Skipping the guests ends the request, or goes on to the queue's keys.
LEMMA AfterSkipCoherent ==
    ASSUME IInv, NEW r \in Requests, At(r, "skipAll"), AfterSkip(r)
    PROVE  req' \in [Requests -> CoherentRequest]
  <1> DEFINE q == [req[r] EXCEPT !.pc = "delKeys", !.ids = {}]
  <1>1. q \in RequestType
    BY RequestFields DEF RequestType, PCs
  <1>2. Coherent(q)
    BY RequestFields DEF At, RequestType, Coherent, GuestOps, JoinPCs, CallPCs, ReadPCs
  <1>3. Done(r) \/ req' = [req EXCEPT ![r] = q]
    BY DEF AfterSkip
  <1> HIDE DEF q
  <1> QED
    BY <1>1, <1>2, <1>3, SlotCoherent, DoneCoherent

\* UpdateMany of the unserved entries writes statuses.
LEMMA SkipUnservedType ==
    ASSUME TypeOK, SkipUnserved
    PROVE  /\ status' \in [Entries -> LiveStatus \cup TerminalStatus \cup {"ABSENT", "GONE"}]
           /\ finished' \subseteq Entries
  BY DEF SkipUnserved, Unserved, TypeOK, TerminalStatus

\* DeleteMany of the entries leaves them GONE.
LEMMA DeleteEntriesType ==
    ASSUME TypeOK, DeleteEntries
    PROVE  /\ status' \in [Entries -> LiveStatus \cup TerminalStatus \cup {"ABSENT", "GONE"}]
           /\ finished' \subseteq Entries
  BY DEF DeleteEntries, TypeOK

\* So do the commands that end a visit, confirm presence or close the queue.
LEMMA FinishInv ==
    ASSUME IInv, NEW r \in Requests,
           \/ RemoveFromQueue(r) \/ TallyServed(r)
           \/ ClearIdleTimer(r) \/ ClearGraceTimer(r)
           \/ CloseQueue(r) \/ SkipEntries(r) \/ TerminateDeleteKeys(r)
    PROVE  IInv'
  <1>1. CASE RemoveFromQueue(r)
    <2>1. req' \in [Requests -> CoherentRequest]
      BY <1>1, AfterRemoveCoherent DEF RemoveFromQueue
    <2> QED
      BY <1>1, <2>1 DEF RemoveFromQueue, IInv, TypeOK, mongo, timers, CoherentRequest
  <1>2. CASE TallyServed(r)
    <2>1. req' \in [Requests -> CoherentRequest]
      BY <1>2, DoneCoherent DEF TallyServed
    <2>2. served' \in Nat
      BY <1>2 DEF TallyServed, IInv, TypeOK
    <2>3. UNCHANGED <<qStatus, pastExpiry, status, finished, ticket, stamp, redis,
                      listener, sweeper>>
      BY <1>2 DEF TallyServed
    <2> QED
      BY <2>1, <2>2, <2>3 DEF IInv, TypeOK, redis, timers, CoherentRequest
  <1>3. CASE ClearIdleTimer(r)
    <2>1. Coherent([req[r] EXCEPT !.pc = "clearGrace"])
      BY <1>3, RequestFields
      DEF ClearIdleTimer, At, RequestType, Coherent, GuestOps, JoinPCs, CallPCs, ReadPCs
    <2>2. req' \in [Requests -> CoherentRequest]
      BY <1>3, <2>1, GotoCoherent DEF ClearIdleTimer, PCs
    <2> QED
      BY <1>3, <2>2 DEF ClearIdleTimer, IInv, TypeOK, mongo, CoherentRequest
  <1>4. CASE ClearGraceTimer(r)
    <2>1. req' \in [Requests -> CoherentRequest]
      BY <1>4, DoneCoherent DEF ClearGraceTimer
    <2> QED
      BY <1>4, <2>1 DEF ClearGraceTimer, IInv, TypeOK, mongo, CoherentRequest
  <1>5. CASE CloseQueue(r)
    <2>1. Coherent([req[r] EXCEPT !.pc = "skipAll"])
      BY <1>5, RequestFields
      DEF CloseQueue, At, RequestType, Coherent, GuestOps, JoinPCs, CallPCs, ReadPCs
    <2>2. req' \in [Requests -> CoherentRequest]
      BY <1>5, <2>1, GotoCoherent DEF CloseQueue, PCs
    <2> QED
      BY <1>5, <2>2 DEF CloseQueue, IInv, TypeOK, redis, timers, CoherentRequest
  <1>6. CASE SkipEntries(r)
    <2>1. req' \in [Requests -> CoherentRequest]
      BY <1>6, AfterSkipCoherent DEF SkipEntries
    <2>2. /\ status' \in [Entries -> LiveStatus \cup TerminalStatus \cup {"ABSENT", "GONE"}]
          /\ finished' \subseteq Entries
      BY <1>6, SkipUnservedType DEF SkipEntries, IInv, TypeOK
    <2>3. UNCHANGED <<qStatus, pastExpiry, ticket, stamp, served, redis, listener, sweeper>>
      BY <1>6 DEF SkipEntries
    <2> QED
      BY <2>1, <2>2, <2>3 DEF IInv, TypeOK, redis, timers, CoherentRequest
  <1>7. CASE TerminateDeleteKeys(r)
    <2>1. req' \in [Requests -> CoherentRequest]
      BY <1>7, DoneCoherent DEF TerminateDeleteKeys
    <2> QED
      BY <1>7, <2>1
      DEF TerminateDeleteKeys, DeleteQueueKeys, IInv, TypeOK, mongo, timers, CoherentRequest
  <1> QED
    BY <1>1, <1>2, <1>3, <1>4, <1>5, <1>6, <1>7

\* FindOne of expireQueue only reads.
LEMMA ExpireReadStep ==
    ASSUME ExpireRead
    PROVE  /\ UNCHANGED <<qStatus, pastExpiry, status, finished, ticket, stamp, served>>
           /\ UNCHANGED <<positions, counter, counterSet, sentinel, lock, losses>>
           /\ UNCHANGED <<idleTimer, graceTimer, events, req, listener>>
           /\ \E h \in BOOLEAN : sweeper' = [pc |-> "mark", hostless |-> h]
  <1>1. OrFailed(Plan = "anonymous" \/ qStatus = "GONE", TRUE) \subseteq BOOLEAN
    BY Zenon DEF OrFailed
  <1>2. \E h \in OrFailed(Plan = "anonymous" \/ qStatus = "GONE", TRUE) :
           sweeper' = [pc |-> "mark", hostless |-> h]
    BY Zenon DEF ExpireRead
  <1>3. UNCHANGED <<mongo, redis, req, listener>>
    BY Zenon DEF ExpireRead
  <1>4. \E h \in BOOLEAN : sweeper' = [pc |-> "mark", hostless |-> h]
    BY Zenon, <1>1, <1>2
  <1> QED
    BY <1>3, <1>4 DEF mongo, redis, timers

\* So do the listener and the sweeper, whether their commands fail or not.
LEMMA JobsInv ==
    ASSUME IInv, Listener \/ Sweeper \/ ListenerFails \/ SweeperFails
    PROVE  IInv'
  <1>1. CASE HandleIdleExpiry
    <2>1. Head(events)[2] \in Entries /\ Tail(events) \in Seq({"idle", "grace"} \X Entries)
      BY <1>1 DEF HandleIdleExpiry, IInv, TypeOK
    <2>2. status' \in [Entries -> LiveStatus \cup TerminalStatus \cup {"ABSENT", "GONE"}]
      BY <1>1, SetStatusType DEF HandleIdleExpiry, LiveStatus, IInv
    <2> QED
      BY <1>1, <2>1, <2>2 DEF HandleIdleExpiry, IInv, TypeOK
  <1>2. CASE StartGraceTimer
    BY <1>2 DEF StartGraceTimer, IInv, TypeOK, mongo
  <1>3. CASE HandleGraceExpiry
    <2>1. Head(events)[2] \in Entries /\ Tail(events) \in Seq({"idle", "grace"} \X Entries)
      BY <1>3 DEF HandleGraceExpiry, IInv, TypeOK
    <2>2. status' \in [Entries -> LiveStatus \cup TerminalStatus \cup {"ABSENT", "GONE"}]
      BY <1>3, SetStatusType DEF HandleGraceExpiry, LiveStatus, IInv
    <2> QED
      BY <1>3, <2>1, <2>2 DEF HandleGraceExpiry, IInv, TypeOK
  <1>4. CASE SweepFind
    BY <1>4 DEF SweepFind, IInv, TypeOK, mongo, redis, timers
  <1>11. CASE ExpireRead
    BY <1>11, ExpireReadStep DEF IInv, TypeOK
  <1>5. CASE ExpireMark
    BY <1>5 DEF ExpireMark, IInv, TypeOK, redis, timers
  <1>6. CASE ExpireDeleteKeys
    BY <1>6 DEF ExpireDeleteKeys, DeleteQueueKeys, IInv, TypeOK, mongo, timers
  <1>7. CASE ExpireEntries
    <2>1. /\ status' \in [Entries -> LiveStatus \cup TerminalStatus \cup {"ABSENT", "GONE"}]
          /\ finished' \subseteq Entries
      BY <1>7, SkipUnservedType, DeleteEntriesType DEF ExpireEntries, IInv
    <2>2. UNCHANGED <<qStatus, pastExpiry, ticket, stamp, served, redis, req, listener>>
      BY <1>7 DEF ExpireEntries
    <2>3. sweeper' \in [pc : {"drop", "idle"}, hostless : BOOLEAN]
      BY <1>7 DEF ExpireEntries, AfterEntries, IdleSweeper, IInv, TypeOK
    <2> QED
      BY <2>1, <2>2, <2>3 DEF IInv, TypeOK, redis, timers
  <1>8. CASE ExpireDrop
    <2>1. /\ status' \in [Entries -> LiveStatus \cup TerminalStatus \cup {"ABSENT", "GONE"}]
          /\ finished' \subseteq Entries
      BY <1>8, DeleteEntriesType DEF ExpireDrop, IInv
    <2>2. /\ UNCHANGED <<pastExpiry, ticket, stamp, served, redis, req, listener>>
          /\ qStatus' = "GONE" /\ sweeper' = [pc |-> "idle", hostless |-> FALSE]
      BY <1>8 DEF ExpireDrop, IdleSweeper
    <2> QED
      BY <2>1, <2>2 DEF IInv, TypeOK, redis, timers
  <1>9. CASE ListenerFails
    <2>1. events' \in Seq({"idle", "grace"} \X Entries)
      <3>1. CASE events' = events
        BY <3>1 DEF IInv, TypeOK
      <3>2. CASE events # <<>> /\ events' = Tail(events)
        BY <3>2 DEF IInv, TypeOK
      <3> QED
        BY <1>9, <3>1, <3>2 DEF ListenerFails
    <2>2. /\ UNCHANGED <<mongo, positions, counter, counterSet, sentinel, idleTimer,
                         graceTimer, lock, losses, req, sweeper>>
          /\ listener' = NoEntry
      BY <1>9 DEF ListenerFails
    <2> QED
      BY <2>1, <2>2 DEF IInv, TypeOK, mongo
  <1>10. CASE SweeperFails
    <2>1. UNCHANGED <<mongo, redis, req, listener>>
      BY Zenon, <1>10 DEF SweeperFails
    <2>2. \/ sweeper' = [sweeper EXCEPT !.pc = "delKeys"]
          \/ sweeper' = [sweeper EXCEPT !.pc = "entries"]
          \/ sweeper' = [sweeper EXCEPT !.pc = "drop"]
          \/ sweeper' = [pc |-> "idle", hostless |-> FALSE]
      BY <1>10 DEF SweeperFails, AfterEntries, IdleSweeper
    <2>3. sweeper' \in [pc : {"idle", "read", "mark", "delKeys", "entries", "drop"},
                       hostless : BOOLEAN]
      <3>1. ASSUME NEW l \in {"delKeys", "entries", "drop"},
                   sweeper' = [sweeper EXCEPT !.pc = l]
            PROVE  sweeper' \in [pc : {"idle", "read", "mark", "delKeys", "entries", "drop"},
                                hostless : BOOLEAN]
        BY <3>1 DEF IInv, TypeOK
      <3>2. CASE sweeper' = [pc |-> "idle", hostless |-> FALSE]
        BY <3>2
      <3> QED
        BY <2>2, <3>1, <3>2
    <2> QED
      BY <2>1, <2>3 DEF IInv, TypeOK, mongo, redis, timers
  <1> QED
    BY <1>1, <1>2, <1>3, <1>4, <1>5, <1>6, <1>7, <1>8, <1>9, <1>10, <1>11 DEF Listener, Sweeper

\* A failed command leaves a coherent request behind.
LEMMA FailInv ==
    ASSUME IInv, NEW r \in Requests, CommandFails(r)
    PROVE  IInv'
  <1> DEFINE Result == req' \in [Requests -> CoherentRequest]
  <1>1. ASSUME Done(r) PROVE Result
    BY <1>1, DoneCoherent
  <1>2. ASSUME At(r, "count"), AfterCount(r, 0) PROVE Result
    BY <1>2, RequestFields, AfterCountCoherent DEF At, Coherent
  <1>3. ASSUME At(r, "find"), AfterRehydrate(r, {}) PROVE Result
    BY <1>3, AfterRehydrateCoherent DEF At, ReadPCs
  <1>4. ASSUME At(r, "zaddAll"), AfterRehydrate(r, req[r].ids) PROVE Result
    BY <1>4, RequestFields, AfterRehydrateCoherent DEF At, ReadPCs
  <1>5. ASSUME At(r, "maxTicket"), req' = [req EXCEPT ![r].n = 0, ![r].pc = "setCounter"]
        PROVE  Result
    <2>1. [req[r] EXCEPT !.n = 0, !.pc = "setCounter"] \in RequestType
      BY RequestFields DEF RequestType, PCs
    <2>2. Coherent([req[r] EXCEPT !.n = 0, !.pc = "setCounter"])
      BY <1>5, RequestFields
      DEF At, RequestType, Coherent, GuestOps, JoinPCs, CallPCs, ReadPCs
    <2>3. req' = [req EXCEPT ![r] = [req[r] EXCEPT !.n = 0, !.pc = "setCounter"]]
      BY <1>5
    <2> QED
      BY <2>1, <2>2, <2>3, SlotCoherent
  <1>6. ASSUME NEW l \in PCs, Goto(r, l),
               \/ At(r, "count") /\ l = "sentinel"
               \/ At(r, "sentinel") /\ l = "find"
               \/ At(r, "strict") /\ l = "zrange"
               \/ req[r].pc \in {"zrange", "mark", "timer"} /\ l = "release"
               \/ At(r, "clearIdle") /\ l = "clearGrace"
        PROVE  Result
    <2>1. Coherent([req[r] EXCEPT !.pc = l])
      BY <1>6, RequestFields
      DEF At, RequestType, Coherent, GuestOps, JoinPCs, CallPCs, ReadPCs
    <2> QED
      BY <1>6, <2>1, GotoCoherent
  <1>7. ASSUME At(r, "pick"), NEW e, NextCandidate(r, e) PROVE Result
    BY <1>7, NextCandidateCoherent
  <1>8. ASSUME At(r, "zrem"), AfterRemove(r) PROVE Result
    BY <1>8, AfterRemoveCoherent
  <1>9. ASSUME At(r, "skipAll"), AfterSkip(r) PROVE Result
    BY <1>9, AfterSkipCoherent
  <1>10. Result
    <2> HIDE DEF Result
    <2>1. {"sentinel", "find", "zrange", "release", "clearGrace"} \subseteq PCs
      BY DEF PCs
    <2> QED
      BY <2>1, <1>1, <1>2, <1>3, <1>4, <1>5, <1>6, <1>7, <1>8, <1>9 DEF CommandFails
  <1> QED
    BY <1>10, ReadOnly DEF CommandFails

\* The host's calls of one command keep the invariant.
LEMMA HostInv ==
    ASSUME IInv, (\E e \in Entries : CallEntry(e)) \/ PauseQueue \/ ResumeQueue
    PROVE  IInv'
  <1>1. ASSUME NEW e \in Entries, CallEntry(e) PROVE IInv'
    <2>1. status' \in [Entries -> LiveStatus \cup TerminalStatus \cup {"ABSENT", "GONE"}]
      BY <1>1, SetStatusType DEF CallEntry, LiveStatus, IInv
    <2>2. UNCHANGED <<qStatus, pastExpiry, finished, ticket, stamp, served, redis,
                      req, listener, sweeper>>
      BY <1>1 DEF CallEntry
    <2> QED
      BY <2>1, <2>2 DEF IInv, TypeOK, redis, timers
  <1>2. CASE PauseQueue \/ ResumeQueue
    BY <1>2 DEF PauseQueue, ResumeQueue, SetQueueStatus, IInv, TypeOK, redis, timers
  <1> QED
    BY <1>1, <1>2

\* So do time, timers and a wipe of Redis.
LEMMA EnvironmentInv ==
    ASSUME IInv, Environment
    PROVE  IInv'
  <1>1. CASE QueueTimePasses \/ QueueTtl
    BY <1>1 DEF QueueTimePasses, QueueTtl, IInv, TypeOK, redis, timers
  <1>2. ASSUME NEW e \in Entries, IdleTimerFires(e) PROVE IInv'
    BY <1>2 DEF IdleTimerFires, IInv, TypeOK, mongo
  <1>3. ASSUME NEW e \in Entries, GraceTimerFires(e) PROVE IInv'
    BY <1>3 DEF GraceTimerFires, IInv, TypeOK, mongo
  <1>4. CASE PositionsExpire
    BY <1>4 DEF PositionsExpire, IInv, TypeOK, mongo, timers
  <1>5. CASE CounterExpires
    BY <1>5 DEF CounterExpires, IInv, TypeOK, mongo, timers
  <1>6. CASE SentinelExpires
    BY <1>6 DEF SentinelExpires, IInv, TypeOK, mongo, timers
  <1>7. CASE LockExpires
    BY <1>7 DEF LockExpires, IInv, TypeOK, mongo, timers
  <1>8. CASE RedisLoss
    <2>1. losses' \in 0..MaxLosses
      BY <1>8, SessionAssumption DEF RedisLoss, IInv, TypeOK
    <2>2. events' \in Seq({"idle", "grace"} \X Entries)
      BY <1>8 DEF RedisLoss
    <2>3. /\ positions' = {} /\ counter' = 0 /\ counterSet' = FALSE
          /\ sentinel' = FALSE /\ idleTimer' = {} /\ graceTimer' = {}
          /\ lock' = NoRequest
          /\ UNCHANGED <<mongo, req, listener, sweeper>>
      BY <1>8 DEF RedisLoss
    <2> QED
      BY <2>1, <2>2, <2>3 DEF IInv, TypeOK, mongo
  <1> QED
    BY <1>1, <1>2, <1>3, <1>4, <1>5, <1>6, <1>7, <1>8 DEF Environment, TimerFires

\* IInv is inductive.
LEMMA NextInv == IInv /\ [Next]_vars => IInv'
  <1> SUFFICES ASSUME IInv, [Next]_vars PROVE IInv'
    OBVIOUS
  <1>1. CASE UNCHANGED vars
    BY <1>1 DEF vars, mongo, redis, timers, IInv, TypeOK
  <1>2. ASSUME NEW r \in Requests, Start(r) \/ Continue(r) \/ CommandFails(r)
        PROVE  IInv'
    BY <1>2, StartInv, ReadInv, JoinInv, CallInv, FinishInv, FailInv DEF Continue
  <1>3. CASE (\E e \in Entries : CallEntry(e)) \/ PauseQueue \/ ResumeQueue
    BY <1>3, HostInv
  <1>4. CASE Listener \/ Sweeper \/ ListenerFails \/ SweeperFails
    BY <1>4, JobsInv
  <1>5. CASE Environment
    BY <1>5, EnvironmentInv
  <1> QED
    BY <1>1, <1>2, <1>3, <1>4, <1>5 DEF Next

\* The inductive invariant holds in every reachable state.
THEOREM Invariance == Spec => []IInv
  BY InitInv, NextInv, PTL DEF Spec

\* Every handler, job and fault keeps the documents, keys and requests well
\* formed; in particular what enters the sorted set is always an entry.
THEOREM TypeCorrect == Spec => []TypeOK
  BY Invariance, PTL DEF IInv
-----------------------------------------------------------------------------
(* A request never takes the lock of another one *)

\* The operation of a slot changes only when a request ends, and becomes a read
\* of the position after a join.
LEMMA Onward ==
    ASSUME IInv, NEW r \in Requests, Continue(r) \/ CommandFails(r)
    PROVE  /\ \A s \in Requests \ {r} : req'[s] = req[s]
           /\ req'[r].op \in {req[r].op, "none", "status"}
  <1> USE DEF At, Goto, Done, IdleRequest
  <1>0. req \in [Requests -> RequestType]
    BY DEF IInv, TypeOK
  <1> DEFINE Own == /\ \A s \in Requests \ {r} : req'[s] = req[s]
                    /\ req'[r].op \in {req[r].op, "none", "status"}
  <1>1. ASSUME NEW l, Goto(r, l) PROVE Own
    BY <1>0, <1>1 DEF RequestType
  <1>2. ASSUME Done(r) PROVE Own
    BY <1>0, <1>2
  <1>3. ASSUME NEW n, AfterCount(r, n) PROVE Own
    BY <1>0, <1>3 DEF AfterCount, RequestType
  <1>4. ASSUME NEW ids, AfterRehydrate(r, ids) PROVE Own
    <2>1. CASE req[r].op = "callNext"
      BY <1>0, <1>4, <2>1 DEF AfterRehydrate, RequestType
    <2> QED
      BY <1>3, <1>4, <2>1 DEF AfterRehydrate
  <1>5. ASSUME NEW e, NextCandidate(r, e) PROVE Own
    BY <1>0, <1>5 DEF NextCandidate, RequestType
  <1>6. ASSUME AfterSkip(r) PROVE Own
    BY <1>0, <1>6 DEF AfterSkip, RequestType
  <1>7. ASSUME AfterRemove(r) PROVE Own
    BY <1>1, <1>2, <1>7 DEF AfterRemove
  <1>8. ASSUME NEW n, NEW l, req' = [req EXCEPT ![r].n = n, ![r].pc = l] PROVE Own
    BY <1>0, <1>8 DEF RequestType
  <1>9. ASSUME NEW ids, NEW l, req' = [req EXCEPT ![r].ids = ids, ![r].pc = l] PROVE Own
    BY <1>0, <1>9 DEF RequestType
  <1>11. CASE Count(r) \/ RehydrateSentinel(r)
    BY <1>1, <1>3, <1>11 DEF Count, RehydrateSentinel
  <1>12. CASE RehydrateFind(r) \/ RehydrateAdd(r)
    BY <1>4, <1>9, <1>12 DEF RehydrateFind, RehydrateAdd
  <1>13. CASE Admit(r) \/ HasCounter(r) \/ SetTicketCounter(r) \/ InsertEntry(r)
    BY <1>1, <1>2, <1>13 DEF Admit, HasCounter, SetTicketCounter, InsertEntry
  <1>14. CASE ReadLastTicket(r) \/ NextTicket(r)
    BY <1>8, <1>14 DEF ReadLastTicket, NextTicket
  <1>15. CASE AddToQueue(r)
    BY <1>0, <1>15 DEF AddToQueue
  <1>16. CASE CheckStrict(r) \/ MarkCalled(r) \/ StartIdleTimer(r) \/ ReleaseLock(r)
    BY <1>1, <1>2, <1>16 DEF CheckStrict, MarkCalled, StartIdleTimer, ReleaseLock
  <1>17. CASE ReadPositions(r)
    BY <1>9, <1>17 DEF ReadPositions
  <1>18. CASE PickWaiting(r)
    <2>1. PICK e \in Oldest(req[r].ids) :
             IF status[e] = "WAITING"
             THEN req' = [req EXCEPT ![r].e = e, ![r].ids = {}, ![r].pc = "mark"]
             ELSE NextCandidate(r, e)
      BY <1>18 DEF PickWaiting
    <2>2. CASE status[e] = "WAITING"
      BY <1>0, <2>1, <2>2 DEF RequestType
    <2> QED
      BY <1>5, <2>1, <2>2
  <1>19. CASE RemoveFromQueue(r) \/ TallyServed(r) \/ ClearIdleTimer(r) \/ ClearGraceTimer(r)
    BY <1>1, <1>2, <1>7, <1>19
    DEF RemoveFromQueue, TallyServed, ClearIdleTimer, ClearGraceTimer
  <1>20. CASE CloseQueue(r) \/ SkipEntries(r) \/ TerminateDeleteKeys(r)
    BY <1>1, <1>2, <1>6, <1>20 DEF CloseQueue, SkipEntries, TerminateDeleteKeys
  <1>21. CASE CommandFails(r)
    <2>1. ASSUME req' = [req EXCEPT ![r].n = 0, ![r].pc = "setCounter"] PROVE Own
      BY <1>8, <2>1
    <2> HIDE DEF Own, At, Goto, Done
    <2>2. Own
      BY <1>1, <1>2, <1>3, <1>4, <1>5, <1>6, <1>7, <1>21, <2>1 DEF CommandFails
    <2> QED
      BY <2>2 DEF Own
  <1> QED
    BY <1>11, <1>12, <1>13, <1>14, <1>15, <1>16, <1>17, <1>18, <1>19, <1>20, <1>21
    DEF Continue
\* Of all commands of a handler only the release of the lock writes it, and only
\* while the request owns it.
LEMMA LockKept ==
    ASSUME NEW r \in Requests, Continue(r), lock # r \/ ~ReleaseLock(r)
    PROVE  lock' = lock
  <1>1. CASE Count(r) \/ RehydrateSentinel(r) \/ RehydrateFind(r) \/ RehydrateAdd(r)
    BY <1>1 DEF Count, RehydrateSentinel, RehydrateFind, RehydrateAdd, redis
  <1>2. CASE Admit(r) \/ HasCounter(r) \/ ReadLastTicket(r) \/ SetTicketCounter(r)
    BY <1>2 DEF Admit, HasCounter, ReadLastTicket, SetTicketCounter, redis
  <1>3. CASE NextTicket(r) \/ InsertEntry(r) \/ AddToQueue(r)
    BY <1>3 DEF NextTicket, InsertEntry, AddToQueue, redis
  <1>4. CASE CheckStrict(r) \/ ReadPositions(r) \/ PickWaiting(r) \/ MarkCalled(r)
    BY <1>4 DEF CheckStrict, ReadPositions, PickWaiting, MarkCalled, redis
  <1>5. CASE StartIdleTimer(r) \/ ReleaseLock(r)
    BY <1>5 DEF StartIdleTimer, ReleaseLock
  <1>6. CASE RemoveFromQueue(r) \/ TallyServed(r) \/ ClearIdleTimer(r) \/ ClearGraceTimer(r)
    BY <1>6 DEF RemoveFromQueue, TallyServed, ClearIdleTimer, ClearGraceTimer, redis
  <1>7. CASE CloseQueue(r) \/ SkipEntries(r) \/ TerminateDeleteKeys(r)
    BY <1>7 DEF CloseQueue, SkipEntries, TerminateDeleteKeys, DeleteQueueKeys, redis
  <1> QED
    BY <1>1, <1>2, <1>3, <1>4, <1>5, <1>6, <1>7 DEF Continue

\* Release compares the owner, and no other command of a handler writes the
\* lock: a call-next that returns after its lock has expired leaves the lock of
\* its successor alone.
THEOREM LockOwnership == Spec => LockTakenOnlyByOwner
  <1>1. [Next]_vars => [\A r \in Requests : Continue(r) /\ lock # r => lock' = lock]_vars
    BY LockKept
  <1> QED
    BY <1>1, PTL DEF Spec, LockTakenOnlyByOwner
-----------------------------------------------------------------------------
(* Nobody drops out of line *)

\* Redis keeps its data and commands succeed.
Reliable == ~CommandsMayFail /\ MaxLosses = 0

\* The host does not pause or resume a queue that has been closed.
NotReopened == QueueLive' => QueueLive

InLine(e) == e \in positions \/ Joining(e)

\* Who may be removed has finished, keys are deleted only after the queue has
\* ended, and until then every guest whose visit goes on is in line, whatever
\* the presence of the guest.
LineInv ==
    /\ \A r \in Requests : req[r].pc = "zrem" => req[r].e \in finished
    /\ \A r \in Requests : req[r].pc \in {"skipAll", "delKeys"} => ~QueueLive
    /\ sweeper.pc \in {"delKeys", "entries", "drop"} => ~QueueLive
    /\ \A e \in Entries : status[e] \in TerminalStatus => e \in finished
    /\ QueueLive => \A e \in Entries \ finished : status[e] \in LiveStatus => InLine(e)

\* What a step of one request must satisfy to keep LineInv.
LEMMA LineStep ==
    ASSUME LineInv, NEW r \in Requests,
           \A s \in Requests \ {r} : req'[s] = req[s],
           req[r].pc = "zadd" => req[r].e \in positions',
           req'[r].pc = "zrem" => req'[r].e \in finished',
           req'[r].pc \in {"skipAll", "delKeys"} => ~QueueLive',
           QueueLive' => QueueLive,
           sweeper' = sweeper, finished \subseteq finished',
           QueueLive' => positions \subseteq positions' \cup finished,
           \A e \in Entries \ finished' :
              /\ status'[e] \notin TerminalStatus
              /\ status'[e] \in LiveStatus =>
                    \/ status[e] \in LiveStatus
                    \/ req'[r].pc = "zadd" /\ req'[r].e = e
    PROVE  LineInv'
  <1>1. ASSUME NEW s \in Requests PROVE req'[s].pc = "zrem" => req'[s].e \in finished'
    BY <1>1 DEF LineInv
  <1>2. ASSUME NEW s \in Requests PROVE req'[s].pc \in {"skipAll", "delKeys"} => ~QueueLive'
    BY <1>2 DEF LineInv
  <1>3. sweeper'.pc \in {"delKeys", "entries", "drop"} => ~QueueLive'
    BY DEF LineInv
  <1>4. ASSUME QueueLive', NEW e \in Entries \ finished', status'[e] \in LiveStatus
        PROVE  InLine(e)'
    <2>1. CASE req'[r].pc = "zadd" /\ req'[r].e = e
      BY <2>1 DEF InLine, Joining, At
    <2>2. CASE status[e] \in LiveStatus
      <3>1. InLine(e)
        BY <1>4, <2>2 DEF LineInv
      <3>2. CASE e \in positions
        BY <1>4, <3>2 DEF InLine
      <3>3. CASE Joining(e)
        BY <3>3 DEF InLine, Joining, At
      <3> QED
        BY <3>1, <3>2, <3>3 DEF InLine
    <2> QED
      BY <1>4, <2>1, <2>2
  <1> QED
    BY <1>1, <1>2, <1>3, <1>4 DEF LineInv

\* A step of a request that reads, or writes only its own progress.
LEMMA LineRead ==
    ASSUME LineInv, NEW r \in Requests,
           \A s \in Requests \ {r} : req'[s] = req[s],
           req[r].pc # "zadd", req'[r].pc \notin {"zrem", "skipAll", "delKeys"},
           UNCHANGED <<qStatus, pastExpiry, status, finished, sweeper>>,
           positions \subseteq positions'
    PROVE  LineInv'
  BY LineStep DEF LineInv, QueueLive

\* A presence change: only a guest whose visit goes on becomes live.
LEMMA LineStatus ==
    ASSUME LineInv, TypeOK, NEW f, NEW s \in LiveStatus, SetStatus(f, s),
           NEW e \in Entries \ finished
    PROVE  /\ status'[e] \notin TerminalStatus
           /\ status'[e] \in LiveStatus => status[e] \in LiveStatus
  <1>1. LiveStatus \cap TerminalStatus = {}
    BY DEF LiveStatus, TerminalStatus
  <1>2. CASE f \in Stored /\ e = f
    BY <1>1, <1>2 DEF SetStatus, LineInv, TypeOK, Stored
  <1>3. CASE ~(f \in Stored /\ e = f)
    BY <1>3 DEF SetStatus, LineInv, TypeOK
  <1> QED
    BY <1>2, <1>3

\* Nobody is forgotten in an empty queue.
LEMMA LineInit == Init => LineInv
  BY DEF Init, LineInv, IdleRequest, IdleSweeper, TerminalStatus, LiveStatus

\* No request forgets a guest by its first command.
LEMMA LineStart ==
    ASSUME IInv, LineInv, NEW r \in Requests, Start(r)
    PROVE  LineInv'
  <1> USE DEF Begin, IdleRequest
  <1>0. req \in [Requests -> RequestType]
    BY DEF IInv, TypeOK
  <1>1. CASE StartStatus(r)
    BY <1>0, <1>1, LineRead DEF StartStatus, mongo, redis
  <1>2. CASE StartCallNext(r)
    BY <1>0, <1>2, LineRead DEF StartCallNext, mongo
  <1>3. CASE StartTerminate(r)
    BY <1>0, <1>3, LineRead DEF StartTerminate, At, mongo, redis
  <1>4. ASSUME NEW e \in Entries, StartJoin(r, e) PROVE LineInv'
    BY <1>0, <1>4, LineRead DEF StartJoin, mongo, redis
  <1>5. ASSUME NEW e \in Entries, StartAddEntry(r, e) PROVE LineInv'
    BY <1>0, <1>5, LineRead DEF StartAddEntry, mongo, redis
  <1>6. ASSUME NEW e \in Entries, StartArrived(r, e) \/ StartConfirm(r, e)
        PROVE  LineInv'
    <2>1. /\ SetStatus(e, "ARRIVED") \/ SetStatus(e, "WAITING")
          /\ UNCHANGED <<qStatus, pastExpiry, finished, positions, sweeper>>
          /\ req[r].pc = "idle"
          /\ \A s \in Requests \ {r} : req'[s] = req[s]
          /\ req'[r].pc \in {"clearIdle", "clearGrace"}
      BY <1>0, <1>6 DEF StartArrived, StartConfirm, redis
    <2>2. \A f \in Entries \ finished :
             /\ status'[f] \notin TerminalStatus
             /\ status'[f] \in LiveStatus => status[f] \in LiveStatus
      BY <2>1, LineStatus DEF IInv, LiveStatus
    <2> QED
      BY <2>1, <2>2, LineStep DEF QueueLive
  <1>7. ASSUME NEW e \in Entries, NEW o \in {"serve", "skip", "leave"},
               FinishUserSession(r, e, o)
        PROVE  LineInv'
    <2>1. /\ status' = [status EXCEPT ![e] = FinalStatus[o]]
          /\ finished' = finished \cup {e}
          /\ UNCHANGED <<qStatus, pastExpiry, positions, sweeper>>
          /\ req[r].pc = "idle"
          /\ \A s \in Requests \ {r} : req'[s] = req[s]
          /\ req'[r].pc = "zrem" /\ req'[r].e = e
      BY <1>0, <1>7 DEF FinishUserSession, SetStatus, redis
    <2>2. \A f \in Entries \ finished' : status'[f] = status[f]
      BY <2>1 DEF IInv, TypeOK
    <2>3. \A f \in Entries \ finished' : status'[f] \notin TerminalStatus
      BY <2>1, <2>2 DEF LineInv
    <2> QED
      BY <2>1, <2>2, <2>3, LineStep DEF QueueLive
  <1> QED
    BY <1>1, <1>2, <1>3, <1>4, <1>5, <1>6, <1>7 DEF Start

\* The commands that write neither the line nor a status forget nobody.
LEMMA LineReads ==
    ASSUME IInv, LineInv, NEW r \in Requests,
           \/ Count(r) \/ RehydrateSentinel(r) \/ RehydrateFind(r) \/ RehydrateAdd(r)
           \/ Admit(r) \/ HasCounter(r) \/ ReadLastTicket(r) \/ SetTicketCounter(r)
           \/ NextTicket(r) \/ CheckStrict(r) \/ ReadPositions(r) \/ PickWaiting(r)
           \/ StartIdleTimer(r) \/ ReleaseLock(r) \/ TallyServed(r)
           \/ ClearIdleTimer(r) \/ ClearGraceTimer(r)
    PROVE  LineInv'
  <1> USE DEF At, Goto, Done, IdleRequest
  <1>0. req \in [Requests -> RequestType]
    BY DEF IInv, TypeOK
  <1> DEFINE Own == /\ \A s \in Requests \ {r} : req'[s] = req[s]
                    /\ req'[r].pc \notin {"zrem", "skipAll", "delKeys"}
  <1>1. ASSUME NEW n, AfterCount(r, n) PROVE Own
    BY <1>0, <1>1 DEF AfterCount, RequestType
  <1>2. ASSUME NEW ids, AfterRehydrate(r, ids) PROVE Own
    <2>1. CASE req[r].op = "callNext"
      BY <1>0, <1>2, <2>1 DEF AfterRehydrate, RequestType
    <2> QED
      BY <1>1, <1>2, <2>1 DEF AfterRehydrate
  <1>3. ASSUME NEW l, Goto(r, l), l \notin {"zrem", "skipAll", "delKeys"} PROVE Own
    BY <1>0, <1>3 DEF RequestType
  <1>4. ASSUME Done(r) PROVE Own
    BY <1>0, <1>4
  <1>5. CASE Count(r)
    <2>1. Own
      BY <1>1, <1>3, <1>5 DEF Count
    <2> QED
      BY <1>5, <2>1, LineRead DEF Count, mongo, redis
  <1>6. CASE RehydrateSentinel(r) \/ SetTicketCounter(r) \/ StartIdleTimer(r) \/ ClearIdleTimer(r)
    <2>1. Own
      BY <1>3, <1>6 DEF RehydrateSentinel, SetTicketCounter, StartIdleTimer, ClearIdleTimer
    <2> QED
      BY <1>6, <2>1, LineRead
      DEF RehydrateSentinel, SetTicketCounter, StartIdleTimer, ClearIdleTimer, mongo
  <1>7. CASE RehydrateFind(r)
    <2>1. Own
      <3>1. CASE Rehydratable = {}
        BY <1>2, <1>7, <3>1 DEF RehydrateFind
      <3>2. CASE Rehydratable # {}
        BY <1>0, <1>7, <3>2 DEF RehydrateFind, RequestType
      <3> QED
        BY <3>1, <3>2
    <2> QED
      BY <1>7, <2>1, LineRead DEF RehydrateFind, mongo, redis
  <1>8. CASE RehydrateAdd(r)
    <2>1. Own
      BY <1>2, <1>8 DEF RehydrateAdd
    <2> QED
      BY <1>8, <2>1, LineRead DEF RehydrateAdd, mongo
  <1>9. CASE Admit(r) \/ HasCounter(r) \/ CheckStrict(r)
    <2>1. Own
      BY <1>3, <1>4, <1>9 DEF Admit, HasCounter, CheckStrict
    <2> QED
      BY <1>9, <2>1, LineRead DEF Admit, HasCounter, CheckStrict, mongo, redis
  <1>10. CASE ReadLastTicket(r) \/ ReadPositions(r)
    <2>1. Own
      BY <1>0, <1>10 DEF ReadLastTicket, ReadPositions, RequestType
    <2> QED
      BY <1>10, <2>1, LineRead DEF ReadLastTicket, ReadPositions, mongo, redis
  <1>11. CASE NextTicket(r)
    <2>1. Own
      BY <1>0, <1>11 DEF NextTicket, RequestType
    <2> QED
      BY <1>11, <2>1, LineRead DEF NextTicket, mongo
  <1>12. CASE PickWaiting(r)
    <2>1. Own
      <3>0. req[r] \in RequestType
        BY <1>0
      <3>1. PICK e \in Entries :
              IF status[e] = "WAITING"
              THEN req' = [req EXCEPT ![r].e = e, ![r].ids = {}, ![r].pc = "mark"]
              ELSE NextCandidate(r, e)
        BY <1>12, <3>0 DEF PickWaiting, Oldest, RequestType
      <3>2. CASE status[e] = "WAITING"
        BY <1>0, <3>1, <3>2 DEF RequestType
      <3>3. CASE status[e] # "WAITING"
        BY <1>0, <3>1, <3>3 DEF NextCandidate, RequestType
      <3> QED
        BY <3>2, <3>3
    <2> QED
      BY <1>12, <2>1, LineRead DEF PickWaiting, mongo, redis
  <1>13. CASE ReleaseLock(r) \/ ClearGraceTimer(r)
    BY <1>4, <1>13, LineRead DEF ReleaseLock, ClearGraceTimer, mongo
  <1>14. CASE TallyServed(r)
    BY <1>4, <1>14, LineRead DEF TallyServed, redis
  <1> QED
    BY <1>5, <1>6, <1>7, <1>8, <1>9, <1>10, <1>11, <1>12, <1>13, <1>14

\* The commands that write the line or a status forget nobody.
LEMMA LineWrites ==
    ASSUME IInv, LineInv, NEW r \in Requests,
           \/ InsertEntry(r) \/ AddToQueue(r) \/ MarkCalled(r) \/ RemoveFromQueue(r)
           \/ CloseQueue(r) \/ SkipEntries(r) \/ TerminateDeleteKeys(r)
    PROVE  LineInv'
  <1> USE DEF At, Goto, Done, IdleRequest
  <1>0. req \in [Requests -> RequestType]
    BY DEF IInv, TypeOK
  <1>1. CASE InsertEntry(r)
    <2>1. /\ status' = [status EXCEPT ![req[r].e] = "WAITING"]
          /\ UNCHANGED <<qStatus, pastExpiry, finished, positions, sweeper>>
          /\ req[r].pc = "insert"
          /\ \A s \in Requests \ {r} : req'[s] = req[s]
          /\ req'[r].pc = "zadd" /\ req'[r].e = req[r].e
      BY <1>0, <1>1 DEF InsertEntry, RequestType, redis
    <2>2. \A f \in Entries \ finished :
             /\ status'[f] \notin TerminalStatus
             /\ status'[f] = status[f] \/ f = req[r].e
      BY <2>1 DEF LineInv, IInv, TypeOK, TerminalStatus
    <2> QED
      BY <2>1, <2>2, LineStep DEF QueueLive
  <1>2. CASE AddToQueue(r)
    <2>1. /\ UNCHANGED <<qStatus, pastExpiry, status, finished, sweeper>>
          /\ positions' = positions \cup {req[r].e}
          /\ \A s \in Requests \ {r} : req'[s] = req[s]
          /\ req'[r].pc = "count"
      BY <1>0, <1>2 DEF AddToQueue, mongo
    <2> QED
      BY <2>1, LineStep DEF LineInv, QueueLive
  <1>3. CASE MarkCalled(r)
    <2>1. /\ SetStatus(req[r].e, "CALLED")
          /\ UNCHANGED <<qStatus, pastExpiry, finished, positions, sweeper>>
          /\ req[r].pc = "mark"
          /\ \A s \in Requests \ {r} : req'[s] = req[s]
          /\ req'[r].pc = "timer"
      BY <1>0, <1>3 DEF MarkCalled, RequestType, redis
    <2>2. \A f \in Entries \ finished :
             /\ status'[f] \notin TerminalStatus
             /\ status'[f] \in LiveStatus => status[f] \in LiveStatus
      BY <2>1, LineStatus DEF IInv, LiveStatus
    <2> QED
      BY <2>1, <2>2, LineStep DEF QueueLive
  <1>4. CASE RemoveFromQueue(r)
    <2>1. /\ UNCHANGED <<qStatus, pastExpiry, status, finished, sweeper>>
          /\ positions' = positions \ {req[r].e} /\ req[r].e \in finished
          /\ req[r].pc = "zrem"
          /\ \A s \in Requests \ {r} : req'[s] = req[s]
          /\ req'[r].pc \in {"tally", "idle"}
      BY <1>0, <1>4 DEF RemoveFromQueue, AfterRemove, RequestType, mongo, LineInv
    <2> QED
      BY <2>1, LineStep DEF LineInv, QueueLive
  <1>5. CASE CloseQueue(r)
    <2>1. /\ UNCHANGED <<pastExpiry, status, finished, positions, sweeper>>
          /\ qStatus' \in {"GONE", "CLOSED"}
          /\ req[r].pc = "close"
          /\ \A s \in Requests \ {r} : req'[s] = req[s]
          /\ req'[r].pc = "skipAll"
      BY <1>0, <1>5 DEF CloseQueue, RequestType, redis
    <2> QED
      BY <2>1, LineStep DEF LineInv, QueueLive
  <1>6. CASE SkipEntries(r)
    <2>1. /\ UNCHANGED <<qStatus, pastExpiry, positions, sweeper>>
          /\ req[r].pc = "skipAll" /\ ~QueueLive
          /\ \A s \in Requests \ {r} : req'[s] = req[s]
          /\ req'[r].pc \in {"delKeys", "idle"}
      BY <1>0, <1>6 DEF SkipEntries, AfterSkip, RequestType, redis, LineInv
    <2>2. /\ finished \subseteq finished'
          /\ \A f \in Entries \ finished' : status'[f] = status[f]
      BY <1>6 DEF SkipEntries, SkipUnserved, IInv, TypeOK
    <2>3. \A f \in Entries \ finished' : status'[f] \notin TerminalStatus
      BY <2>2 DEF LineInv
    <2> QED
      BY <2>1, <2>2, <2>3, LineStep DEF QueueLive
  <1>7. CASE TerminateDeleteKeys(r)
    <2>1. /\ UNCHANGED <<qStatus, pastExpiry, status, finished, sweeper>>
          /\ req[r].pc = "delKeys" /\ ~QueueLive
          /\ \A s \in Requests \ {r} : req'[s] = req[s]
          /\ req'[r].pc = "idle"
      BY <1>0, <1>7 DEF TerminateDeleteKeys, DeleteQueueKeys, mongo, LineInv
    <2> QED
      BY <2>1, LineStep DEF LineInv, QueueLive
  <1> QED
    BY <1>1, <1>2, <1>3, <1>4, <1>5, <1>6, <1>7

\* The same for a step that leaves every request alone.
LEMMA LineOther ==
    ASSUME LineInv, UNCHANGED req, QueueLive' => QueueLive,
           sweeper'.pc \in {"delKeys", "entries", "drop"} => ~QueueLive',
           finished \subseteq finished',
           QueueLive' => positions \subseteq positions',
           \A e \in Entries \ finished' :
              /\ status'[e] \notin TerminalStatus
              /\ status'[e] \in LiveStatus => status[e] \in LiveStatus
    PROVE  LineInv'
  <1>1. ASSUME QueueLive', NEW e \in Entries \ finished', status'[e] \in LiveStatus
        PROVE  InLine(e)'
    <2>1. InLine(e)
      BY <1>1 DEF LineInv
    <2> QED
      BY <1>1, <2>1 DEF InLine, Joining, At
  <1> QED
    BY <1>1 DEF LineInv

\* The listener and the sweeper forget nobody of an open queue.
LEMMA LineJobs ==
    ASSUME IInv, LineInv, Listener \/ Sweeper
    PROVE  LineInv'
  <1>1. CASE HandleIdleExpiry \/ HandleGraceExpiry
    <2>1. /\ SetStatus(Head(events)[2], "IDLE") \/ SetStatus(Head(events)[2], "WAITING")
          /\ UNCHANGED <<qStatus, pastExpiry, finished, positions, req, sweeper>>
      BY <1>1 DEF HandleIdleExpiry, HandleGraceExpiry
    <2>2. \A f \in Entries \ finished :
             /\ status'[f] \notin TerminalStatus
             /\ status'[f] \in LiveStatus => status[f] \in LiveStatus
      BY <2>1, LineStatus DEF IInv, LiveStatus
    <2>3. sweeper'.pc \in {"delKeys", "entries", "drop"} => ~QueueLive'
      BY <2>1 DEF LineInv, QueueLive
    <2> QED
      BY <2>1, <2>2, <2>3, LineOther DEF QueueLive
  <1>2. CASE StartGraceTimer
    <2>1. UNCHANGED <<qStatus, pastExpiry, status, finished, positions, req, sweeper>>
      BY <1>2 DEF StartGraceTimer, mongo
    <2> QED
      BY <2>1, LineOther DEF LineInv, QueueLive
  <1>3. CASE SweepFind \/ ExpireRead
    <2>1. /\ UNCHANGED <<qStatus, pastExpiry, status, finished, positions, req>>
          /\ sweeper'.pc \in {"read", "mark"}
      BY <1>3, ExpireReadStep DEF SweepFind, mongo, redis, IInv, TypeOK
    <2> QED
      BY <2>1, LineOther DEF LineInv, QueueLive
  <1>4. CASE ExpireMark
    <2>1. /\ UNCHANGED <<pastExpiry, status, finished, positions, req>>
          /\ qStatus' \in {"EXPIRED", "GONE"}
      BY <1>4 DEF ExpireMark, redis
    <2> QED
      BY <2>1, LineOther DEF LineInv, QueueLive
  <1>5. CASE ExpireDeleteKeys
    <2>1. UNCHANGED <<qStatus, pastExpiry, status, finished, req>> /\ ~QueueLive
      BY <1>5 DEF ExpireDeleteKeys, mongo, LineInv
    <2> QED
      BY <2>1, LineOther DEF LineInv, QueueLive
  <1>6. CASE ExpireEntries \/ ExpireDrop
    <2>1. /\ UNCHANGED <<pastExpiry, positions, req>> /\ ~QueueLive /\ ~QueueLive'
          /\ SkipUnserved \/ DeleteEntries
      BY <1>6 DEF ExpireEntries, ExpireDrop, redis, LineInv, QueueLive
    <2>2. finished \subseteq finished'
      BY <2>1 DEF SkipUnserved, DeleteEntries
    <2>3. ASSUME NEW f \in Entries \ finished'
          PROVE  status'[f] = status[f] \/ status'[f] = "GONE"
      BY <2>1, <2>3 DEF SkipUnserved, DeleteEntries, IInv, TypeOK
    <2>4. ASSUME NEW f \in Entries \ finished'
          PROVE  /\ status'[f] \notin TerminalStatus
                 /\ status'[f] \in LiveStatus => status[f] \in LiveStatus
      BY <2>2, <2>3, <2>4 DEF LineInv, LiveStatus, TerminalStatus
    <2> QED
      BY <2>1, <2>2, <2>4, LineOther DEF QueueLive
  <1> QED
    BY <1>1, <1>2, <1>3, <1>4, <1>5, <1>6 DEF Listener, Sweeper

\* Neither do time and timers, while Redis keeps its data.
LEMMA LineEnvironment ==
    ASSUME IInv, LineInv, MaxLosses = 0,
           Environment \/ \E e \in Entries : CallEntry(e)
    PROVE  LineInv'
  <1>1. ASSUME NEW e \in Entries, CallEntry(e) PROVE LineInv'
    <2>1. /\ SetStatus(e, "CALLED")
          /\ UNCHANGED <<qStatus, pastExpiry, finished, positions, req, sweeper>>
      BY <1>1 DEF CallEntry, redis
    <2>2. \A f \in Entries \ finished :
             /\ status'[f] \notin TerminalStatus
             /\ status'[f] \in LiveStatus => status[f] \in LiveStatus
      BY <2>1, LineStatus DEF IInv, LiveStatus
    <2>3. sweeper'.pc \in {"delKeys", "entries", "drop"} => ~QueueLive'
      BY <2>1 DEF LineInv, QueueLive
    <2> QED
      BY <2>1, <2>2, <2>3, LineOther DEF QueueLive
  <1>2. CASE QueueTimePasses \/ QueueTtl \/ PositionsExpire
    <2>1. /\ UNCHANGED <<status, finished, req, sweeper>> /\ ~QueueLive'
      BY <1>2 DEF QueueTimePasses, QueueTtl, PositionsExpire, mongo, QueueLive
    <2> QED
      BY <2>1, LineOther DEF LineInv, QueueLive
  <1>3. CASE TimerFires \/ CounterExpires \/ SentinelExpires \/ LockExpires
    <2>1. UNCHANGED <<qStatus, pastExpiry, status, finished, positions, req, sweeper>>
      BY <1>3 DEF TimerFires, IdleTimerFires, GraceTimerFires, CounterExpires,
                  SentinelExpires, LockExpires, mongo
    <2> QED
      BY <2>1, LineOther DEF LineInv, QueueLive
  <1>4. ~RedisLoss
    BY DEF RedisLoss, IInv, TypeOK
  <1> QED
    BY <1>1, <1>2, <1>3, <1>4 DEF Environment

\* LineInv is inductive while Redis and the commands are reliable.
LEMMA LineNext == Reliable /\ NotReopened /\ IInv /\ LineInv /\ [Next]_vars => LineInv'
  <1> SUFFICES ASSUME Reliable, NotReopened, IInv, LineInv, [Next]_vars PROVE LineInv'
    OBVIOUS
  <1>1. CASE UNCHANGED vars
    <2>1. UNCHANGED <<qStatus, pastExpiry, status, finished, positions, req, sweeper>>
      BY <1>1 DEF vars, mongo, redis
    <2> QED
      BY <2>1, LineOther DEF LineInv, QueueLive
  <1>2. ASSUME NEW r \in Requests, Start(r) \/ Continue(r) PROVE LineInv'
    BY <1>2, LineStart, LineReads, LineWrites DEF Continue
  <1>3. CASE Listener \/ Sweeper
    BY <1>3, LineJobs
  <1>4. CASE Environment \/ \E e \in Entries : CallEntry(e)
    BY <1>4, LineEnvironment DEF Reliable
  <1>5. CASE PauseQueue \/ ResumeQueue
    <2>1. UNCHANGED <<status, finished, positions, req, sweeper>>
      BY <1>5 DEF PauseQueue, ResumeQueue, SetQueueStatus, redis
    <2> QED
      BY <2>1, LineOther DEF LineInv, NotReopened
  <1>6. ~ListenerFails /\ ~SweeperFails /\ \A r \in Requests : ~CommandFails(r)
    BY DEF Reliable, ListenerFails, SweeperFails, CommandFails
  <1> QED
    BY <1>1, <1>2, <1>3, <1>4, <1>5, <1>6 DEF Next

\* While Redis keeps its data and commands succeed, no interleaving of joins, calls,
\* timers, presence checks, departures, the host's pause, resume and terminate
\* and the sweeper makes a waiting guest of an open queue drop out of the line
\* that call-next reads, unless a queue whose keys were deleted is opened again.
THEOREM NobodyForgotten ==
    Reliable => (Spec /\ [][NotReopened]_vars => []NoGuestForgotten)
  <1> SUFFICES ASSUME Reliable
               PROVE  Spec /\ [][NotReopened]_vars => []NoGuestForgotten
    OBVIOUS
  <1>1. LineInv => NoGuestForgotten
    BY DEF LineInv, NoGuestForgotten, InLine, LiveStatus
  <1>2. IInv /\ LineInv /\ [Next]_vars /\ [NotReopened]_vars => LineInv'
    <2>1. UNCHANGED vars => NotReopened
      BY DEF vars, mongo, NotReopened, QueueLive
    <2> QED
      BY <2>1, LineNext
  <1> QED
    BY <1>1, <1>2, LineInit, Invariance, PTL DEF Spec
-----------------------------------------------------------------------------
(* One call-next at a time, and one called guest in strict mode *)

\* The lock outlives the handler.
LockHolds == ~LockMayExpire /\ MaxLosses = 0

\* Every call is checked: no command fails and guests are called by call-next only.
CallsChecked == LockHolds /\ ~CommandsMayFail /\ "callEntry" \notin Ops

\* The lock names the one call-next.
CallsLocked == \A r \in Requests : InCallNext(r) => lock = r

\* The commands of call-next between its check and its update.
Checked(r) ==
    /\ req[r].op = "callNext"
    /\ req[r].pc \in {"zrange", "sentinel", "find", "zaddAll", "pick", "mark"}

\* What the one call-next has checked stays true until its update.
StrictInv ==
    /\ CallsLocked
    /\ Strict /\ QueueLive =>
          /\ \A e, f \in Called : e = f
          /\ \A r \in Requests : Checked(r) => Called = {}

\* A step of one request that calls nobody and starts no call-next.
LEMMA StrictStep ==
    ASSUME StrictInv, NEW r \in Requests,
           \A s \in Requests \ {r} : req'[s] = req[s],
           InCallNext(r)' => InCallNext(r), Checked(r)' => Checked(r),
           lock' = lock, QueueLive' => QueueLive, Called' \subseteq Called
    PROVE  StrictInv'
  <1>1. ASSUME NEW s \in Requests
        PROVE  (InCallNext(s)' => InCallNext(s)) /\ (Checked(s)' => Checked(s))
    BY DEF InCallNext, Checked
  <1> QED
    BY <1>1 DEF StrictInv, CallsLocked

\* A step that leaves every request alone.
LEMMA StrictOther ==
    ASSUME StrictInv, UNCHANGED <<req, lock>>,
           QueueLive' => QueueLive, Called' \subseteq Called
    PROVE  StrictInv'
  BY DEF StrictInv, CallsLocked, InCallNext, Checked

\* No other status than CALLED makes a guest called.
LEMMA NotCalled ==
    ASSUME TypeOK, NEW e, NEW s, s # "CALLED", SetStatus(e, s)
    PROVE  Called' \subseteq Called
  BY DEF SetStatus, Called, TypeOK, Stored

\* An empty queue has nobody called.
LEMMA StrictInit == Init => StrictInv
  BY DEF Init, StrictInv, CallsLocked, InCallNext, Checked, IdleRequest, Called

\* A call-next that begins finds the lock free, so no other is under way.
LEMMA StrictStart ==
    ASSUME IInv, StrictInv, NEW r \in Requests, Start(r)
    PROVE  StrictInv'
  <1> USE DEF Begin, IdleRequest
  <1>0. req \in [Requests -> RequestType]
    BY DEF IInv, TypeOK
  <1>1. CASE StartCallNext(r)
    <2>1. /\ lock = NoRequest /\ lock' = r
          /\ \A s \in Requests \ {r} : req'[s] = req[s]
          /\ req'[r].pc = "strict"
          /\ UNCHANGED <<qStatus, pastExpiry, status>>
      BY <1>0, <1>1 DEF StartCallNext, mongo
    <2>2. \A s \in Requests : ~InCallNext(s)
      BY <2>1, SessionAssumption DEF StrictInv, CallsLocked
    <2>3. \A s \in Requests : (InCallNext(s)' => s = r) /\ (Checked(s)' => Checked(s))
      BY <2>1, <2>2 DEF InCallNext, Checked
    <2> QED
      BY <2>1, <2>3 DEF StrictInv, CallsLocked, QueueLive, Called
  <1>2. ASSUME UNCHANGED <<qStatus, pastExpiry, lock>>, Called' \subseteq Called,
               \A s \in Requests \ {r} : req'[s] = req[s], req'[r].op # "callNext"
        PROVE  StrictInv'
    BY <1>2, StrictStep DEF InCallNext, Checked, QueueLive
  <1>3. CASE StartStatus(r)
    BY <1>0, <1>2, <1>3 DEF StartStatus, mongo, redis, Called
  <1>4. CASE StartTerminate(r)
    BY <1>0, <1>2, <1>4 DEF StartTerminate, mongo, redis, Called
  <1>5. ASSUME NEW e \in Entries, StartJoin(r, e) \/ StartAddEntry(r, e) PROVE StrictInv'
    BY <1>0, <1>2, <1>5 DEF StartJoin, StartAddEntry, mongo, redis, Called
  <1>6. ASSUME NEW e \in Entries, StartArrived(r, e) \/ StartConfirm(r, e) PROVE StrictInv'
    <2>1. Called' \subseteq Called
      BY <1>6, NotCalled DEF StartArrived, StartConfirm, IInv
    <2> QED
      BY <1>0, <1>2, <1>6, <2>1 DEF StartArrived, StartConfirm, redis
  <1>7. ASSUME NEW e \in Entries, NEW o \in {"serve", "skip", "leave"},
               FinishUserSession(r, e, o)
        PROVE  StrictInv'
    <2>1. Called' \subseteq Called
      BY <1>7, NotCalled DEF FinishUserSession, FinalStatus, IInv
    <2> QED
      BY <1>0, <1>2, <1>7, <2>1 DEF FinishUserSession, redis
  <1> QED
    BY <1>1, <1>3, <1>4, <1>5, <1>6, <1>7 DEF Start

\* The commands of reads and joins, which call-next shares when it rebuilds the line.
LEMMA StrictReads ==
    ASSUME IInv, StrictInv, NEW r \in Requests,
           \/ Count(r) \/ RehydrateSentinel(r) \/ RehydrateFind(r) \/ RehydrateAdd(r)
           \/ Admit(r) \/ HasCounter(r) \/ ReadLastTicket(r) \/ SetTicketCounter(r)
           \/ NextTicket(r) \/ InsertEntry(r) \/ AddToQueue(r)
    PROVE  StrictInv'
  <1> USE DEF At, Goto, Done, IdleRequest
  <1>0. req \in [Requests -> RequestType]
    BY DEF IInv, TypeOK
  <1> DEFINE Own == /\ \A s \in Requests \ {r} : req'[s] = req[s]
                    /\ InCallNext(r)' => InCallNext(r)
                    /\ Checked(r)' => Checked(r)
             Data == /\ UNCHANGED <<qStatus, pastExpiry, lock>>
                     /\ Called' \subseteq Called
  <1>1. ASSUME Own, Data PROVE StrictInv'
    BY <1>1, StrictStep DEF QueueLive
  <1>2. ASSUME NEW n, AfterCount(r, n) PROVE Own
    BY <1>0, <1>2 DEF AfterCount, RequestType, InCallNext, Checked
  <1>3. ASSUME NEW ids, req[r].pc \in {"find", "zaddAll"}, AfterRehydrate(r, ids) PROVE Own
    <2>1. CASE req[r].op = "callNext"
      BY <1>0, <1>3, <2>1 DEF AfterRehydrate, RequestType, InCallNext, Checked
    <2> QED
      BY <1>2, <1>3, <2>1 DEF AfterRehydrate
  <1>4. CASE Count(r)
    <2>1. req[r].op # "callNext"
      BY <1>4, RequestFields DEF Count, Coherent
    <2>2. Own
      <3>1. CASE Goto(r, "sentinel")
        BY <1>0, <2>1, <3>1 DEF RequestType, InCallNext, Checked
      <3> QED
        BY <1>2, <1>4, <3>1 DEF Count
    <2>3. Data
      BY <1>4 DEF Count, mongo, redis, Called
    <2> QED
      BY <1>1, <2>2, <2>3
  <1>5. CASE RehydrateSentinel(r)
    <2>1. Own
      BY <1>0, <1>5 DEF RehydrateSentinel, RequestType, InCallNext, Checked
    <2>2. Data
      BY <1>5 DEF RehydrateSentinel, mongo, Called
    <2> QED
      BY <1>1, <2>1, <2>2
  <1>6. CASE RehydrateFind(r)
    <2>1. Own
      <3>1. CASE Rehydratable = {}
        BY <1>3, <1>6, <3>1 DEF RehydrateFind
      <3>2. CASE Rehydratable # {}
        BY <1>0, <1>6, <3>2 DEF RehydrateFind, RequestType, InCallNext, Checked
      <3> QED
        BY <3>1, <3>2
    <2>2. Data
      BY <1>6 DEF RehydrateFind, mongo, redis, Called
    <2> QED
      BY <1>1, <2>1, <2>2
  <1>7. CASE RehydrateAdd(r)
    <2>1. Own
      BY <1>3, <1>7 DEF RehydrateAdd
    <2>2. Data
      BY <1>7 DEF RehydrateAdd, mongo, Called
    <2> QED
      BY <1>1, <2>1, <2>2
  <1>8. CASE Admit(r) \/ HasCounter(r) \/ ReadLastTicket(r)
    <2>1. Own
      <3>1. CASE Admit(r)
        BY <1>0, <1>8, <3>1 DEF Admit, RequestType, InCallNext, Checked
      <3>2. CASE HasCounter(r)
        BY <1>0, <1>8, <3>2 DEF HasCounter, RequestType, InCallNext, Checked
      <3>3. CASE ReadLastTicket(r)
        <4>1. PICK n \in Readable : req' = [req EXCEPT ![r].n = n, ![r].pc = "setCounter"]
          BY <3>3 DEF ReadLastTicket
        <4>2. /\ \A s \in Requests \ {r} : req'[s] = req[s]
              /\ req'[r].op = req[r].op /\ req'[r].pc = "setCounter"
          BY <1>0, <4>1 DEF RequestType
        <4> QED
          BY <4>2 DEF InCallNext, Checked
      <3> QED
        BY <1>8, <3>1, <3>2, <3>3
    <2>2. Data
      BY <1>8 DEF Admit, HasCounter, ReadLastTicket, mongo, redis, Called
    <2> QED
      BY <1>1, <2>1, <2>2
  <1>9. CASE SetTicketCounter(r) \/ NextTicket(r) \/ AddToQueue(r)
    <2>1. Own
      <3>1. CASE SetTicketCounter(r)
        BY <1>0, <1>9, <3>1 DEF SetTicketCounter, RequestType, InCallNext, Checked
      <3>2. CASE NextTicket(r)
        BY <1>0, <1>9, <3>2 DEF NextTicket, RequestType, InCallNext, Checked
      <3>3. CASE AddToQueue(r)
        BY <1>0, <1>9, <3>3 DEF AddToQueue, RequestType, InCallNext, Checked
      <3> QED
        BY <1>9, <3>1, <3>2, <3>3
    <2>2. Data
      BY <1>9 DEF SetTicketCounter, NextTicket, AddToQueue, mongo, Called
    <2> QED
      BY <1>1, <2>1, <2>2
  <1>10. CASE InsertEntry(r)
    <2>1. Own
      BY <1>0, <1>10 DEF InsertEntry, RequestType, InCallNext, Checked
    <2>2. status' = [status EXCEPT ![req[r].e] = "WAITING"]
      BY <1>10 DEF InsertEntry
    <2>3. Called' \subseteq Called
      BY <2>2 DEF Called, IInv, TypeOK
    <2>4. Data
      BY <1>10, <2>3 DEF InsertEntry, redis
    <2> QED
      BY <1>1, <2>1, <2>4
  <1> QED
    BY <1>4, <1>5, <1>6, <1>7, <1>8, <1>9, <1>10

\* A call-next that has passed the check calls the only guest.
LEMMA StrictCall ==
    ASSUME IInv, StrictInv, NEW r \in Requests,
           \/ CheckStrict(r) \/ ReadPositions(r) \/ PickWaiting(r) \/ MarkCalled(r)
           \/ StartIdleTimer(r) \/ ReleaseLock(r)
    PROVE  StrictInv'
  <1> USE DEF At, Goto, Done, IdleRequest
  <1>0. req \in [Requests -> RequestType]
    BY DEF IInv, TypeOK
  <1>1. /\ InCallNext(r) /\ lock = r
        /\ \A s \in Requests \ {r} : ~InCallNext(s) /\ ~Checked(s)
    <2>1. InCallNext(r)
      BY RequestFields
      DEF CheckStrict, ReadPositions, PickWaiting, MarkCalled, StartIdleTimer,
          ReleaseLock, InCallNext, Coherent, CallPCs
    <2> QED
      BY <2>1 DEF StrictInv, CallsLocked, InCallNext, Checked
  <1>2. CASE CheckStrict(r)
    <2>1. /\ \A s \in Requests \ {r} : req'[s] = req[s]
          /\ UNCHANGED <<qStatus, pastExpiry, status, lock>>
          /\ req'[r].pc = "release" \/ ~(QueueLive /\ Strict /\ Called # {})
      BY <1>0, <1>2 DEF CheckStrict, RequestType, mongo, redis
    <2>2. \A s \in Requests : (InCallNext(s)' => s = r)
                              /\ (Checked(s)' => s = r /\ req'[r].pc # "release")
      BY <1>1, <2>1 DEF InCallNext, Checked
    <2> QED
      BY <1>1, <2>1, <2>2 DEF StrictInv, CallsLocked, QueueLive, Called
  <1>3. CASE ReadPositions(r)
    <2>1. /\ \A s \in Requests \ {r} : req'[s] = req[s]
          /\ Checked(r)
      BY <1>0, <1>1, <1>3 DEF ReadPositions, RequestType, InCallNext, Checked
    <2>2. UNCHANGED <<qStatus, pastExpiry, status, lock>>
      BY <1>3 DEF ReadPositions, mongo, redis
    <2> QED
      BY <1>1, <2>1, <2>2, StrictStep DEF QueueLive, Called
  <1>4. CASE PickWaiting(r)
    <2>1. /\ \A s \in Requests \ {r} : req'[s] = req[s]
          /\ Checked(r)
      BY <1>0, <1>1, <1>4 DEF PickWaiting, NextCandidate, RequestType, InCallNext, Checked
    <2>2. UNCHANGED <<qStatus, pastExpiry, status, lock>>
      BY <1>4 DEF PickWaiting, mongo, redis
    <2> QED
      BY <1>1, <2>1, <2>2, StrictStep DEF QueueLive, Called
  <1>5. CASE MarkCalled(r)
    <2>1. /\ \A s \in Requests \ {r} : req'[s] = req[s]
          /\ Checked(r) /\ req'[r].pc = "timer"
          /\ UNCHANGED <<qStatus, pastExpiry, lock>>
          /\ SetStatus(req[r].e, "CALLED")
      BY <1>0, <1>1, <1>5 DEF MarkCalled, RequestType, InCallNext, Checked, redis
    <2>2. Strict /\ QueueLive => Called = {}
      BY <2>1 DEF StrictInv, CallsLocked
    <2>3. Called' \subseteq Called \cup {req[r].e}
      BY <2>1 DEF SetStatus, Called, IInv, TypeOK
    <2>4. \A s \in Requests : (InCallNext(s)' => s = r) /\ ~Checked(s)'
      BY <1>1, <2>1 DEF InCallNext, Checked
    <2> QED
      BY <1>1, <2>1, <2>2, <2>3, <2>4 DEF StrictInv, CallsLocked, QueueLive
  <1>6. CASE StartIdleTimer(r)
    <2>1. /\ \A s \in Requests \ {r} : req'[s] = req[s]
          /\ req'[r].pc = "release"
      BY <1>0, <1>6 DEF StartIdleTimer, RequestType
    <2>2. UNCHANGED <<qStatus, pastExpiry, status, lock>>
      BY <1>6 DEF StartIdleTimer, mongo
    <2> QED
      BY <1>1, <2>1, <2>2, StrictStep DEF Checked, QueueLive, Called
  <1>7. CASE ReleaseLock(r)
    <2>1. /\ \A s \in Requests \ {r} : req'[s] = req[s]
          /\ req'[r].op = "none"
          /\ UNCHANGED <<qStatus, pastExpiry, status>>
      BY <1>0, <1>7 DEF ReleaseLock, mongo
    <2>2. \A s \in Requests : ~InCallNext(s)' /\ ~Checked(s)'
      BY <1>1, <2>1 DEF InCallNext, Checked
    <2> QED
      BY <2>1, <2>2 DEF StrictInv, CallsLocked, QueueLive, Called
  <1> QED
    BY <1>2, <1>3, <1>4, <1>5, <1>6, <1>7

\* Ending a visit, confirming presence and closing call nobody.
LEMMA StrictFinish ==
    ASSUME IInv, StrictInv, NEW r \in Requests,
           \/ RemoveFromQueue(r) \/ TallyServed(r)
           \/ ClearIdleTimer(r) \/ ClearGraceTimer(r)
           \/ CloseQueue(r) \/ SkipEntries(r) \/ TerminateDeleteKeys(r)
    PROVE  StrictInv'
  <1> USE DEF At, Goto, Done, IdleRequest
  <1>0. req \in [Requests -> RequestType]
    BY DEF IInv, TypeOK
  <1>1. /\ \A s \in Requests \ {r} : req'[s] = req[s]
        /\ req'[r].op = req[r].op \/ req'[r].op = "none"
        /\ req'[r].pc \in {"tally", "idle", "clearGrace", "skipAll", "delKeys"}
    <2>1. CASE RemoveFromQueue(r) \/ TallyServed(r) \/ ClearIdleTimer(r) \/ ClearGraceTimer(r)
      BY <1>0, <2>1 DEF RemoveFromQueue, AfterRemove, TallyServed, ClearIdleTimer,
                        ClearGraceTimer, RequestType
    <2>2. CASE CloseQueue(r) \/ SkipEntries(r) \/ TerminateDeleteKeys(r)
      BY <1>0, <2>2 DEF CloseQueue, SkipEntries, AfterSkip, TerminateDeleteKeys, RequestType
    <2> QED
      BY <2>1, <2>2
  <1>2. UNCHANGED <<pastExpiry, lock>> /\ (QueueLive' => QueueLive)
    <2>1. CASE CloseQueue(r)
      BY <2>1 DEF CloseQueue, redis, QueueLive
    <2>2. CASE TallyServed(r) \/ SkipEntries(r)
      BY <2>2 DEF TallyServed, SkipEntries, redis, QueueLive
    <2>3. CASE RemoveFromQueue(r) \/ ClearIdleTimer(r) \/ ClearGraceTimer(r)
               \/ TerminateDeleteKeys(r)
      BY <2>3 DEF RemoveFromQueue, ClearIdleTimer, ClearGraceTimer,
                  TerminateDeleteKeys, DeleteQueueKeys, mongo, QueueLive
    <2> QED
      BY <2>1, <2>2, <2>3
  <1>3. Called' \subseteq Called
    <2>1. CASE SkipEntries(r)
      BY <2>1 DEF SkipEntries, SkipUnserved, Called, IInv, TypeOK
    <2>2. CASE UNCHANGED status
      BY <2>2 DEF Called
    <2> QED
      BY <2>1, <2>2 DEF RemoveFromQueue, TallyServed, ClearIdleTimer, ClearGraceTimer,
                        CloseQueue, TerminateDeleteKeys, mongo
  <1> QED
    BY <1>1, <1>2, <1>3, StrictStep DEF InCallNext, Checked

\* The listener and the sweeper call nobody.
LEMMA StrictJobs ==
    ASSUME IInv, StrictInv, Listener \/ Sweeper
    PROVE  StrictInv'
  <1>1. UNCHANGED <<req, lock>> /\ (QueueLive' => QueueLive)
    <2>1. CASE Listener
      BY <2>1 DEF Listener, HandleIdleExpiry, StartGraceTimer, HandleGraceExpiry,
                  mongo, QueueLive
    <2>2. CASE SweepFind \/ ExpireRead \/ ExpireMark \/ ExpireDeleteKeys
      BY <2>2, ExpireReadStep DEF SweepFind, ExpireMark, ExpireDeleteKeys, DeleteQueueKeys,
                  mongo, redis, QueueLive
    <2>3. CASE ExpireEntries \/ ExpireDrop
      BY <2>3 DEF ExpireEntries, ExpireDrop, redis, QueueLive
    <2> QED
      BY <2>1, <2>2, <2>3 DEF Sweeper
  <1>2. Called' \subseteq Called
    <2>1. CASE HandleIdleExpiry \/ HandleGraceExpiry
      BY <2>1, NotCalled DEF HandleIdleExpiry, HandleGraceExpiry, IInv
    <2>2. CASE ExpireEntries \/ ExpireDrop
      <3>1. CASE SkipUnserved
        BY <3>1 DEF SkipUnserved, Called, IInv, TypeOK
      <3>2. CASE DeleteEntries
        BY <3>2 DEF DeleteEntries, Called, IInv, TypeOK
      <3> QED
        BY <2>2, <3>1, <3>2 DEF ExpireEntries, ExpireDrop
    <2>3. CASE StartGraceTimer \/ SweepFind \/ ExpireRead \/ ExpireMark \/ ExpireDeleteKeys
      BY <2>3 DEF StartGraceTimer, SweepFind, ExpireRead, ExpireMark, ExpireDeleteKeys,
                  mongo, Called
    <2> QED
      BY <2>1, <2>2, <2>3 DEF Listener, Sweeper
  <1> QED
    BY <1>1, <1>2, StrictOther

\* Time and timers leave the lock and the statuses alone.
LEMMA StrictEnvironment ==
    ASSUME IInv, StrictInv, LockHolds, Environment
    PROVE  StrictInv'
  <1>1. ~RedisLoss /\ ~LockExpires
    BY DEF RedisLoss, LockExpires, LockHolds, IInv, TypeOK
  <1>2. UNCHANGED <<req, lock, status>> /\ (QueueLive' => QueueLive)
    <2>1. CASE TimerFires
      BY <2>1 DEF TimerFires, IdleTimerFires, GraceTimerFires, mongo, QueueLive
    <2>2. CASE QueueTimePasses \/ QueueTtl
      BY <2>2 DEF QueueTimePasses, QueueTtl, redis, QueueLive
    <2>3. CASE PositionsExpire \/ CounterExpires \/ SentinelExpires
      BY <2>3 DEF PositionsExpire, CounterExpires, SentinelExpires, mongo, QueueLive
    <2> QED
      BY <1>1, <2>1, <2>2, <2>3 DEF Environment
  <1> QED
    BY <1>2, StrictOther DEF Called

\* StrictInv is inductive while every call is checked and the queue is not reopened.
LEMMA StrictNext ==
    CallsChecked /\ NotReopened /\ IInv /\ StrictInv /\ [Next]_vars => StrictInv'
  <1> SUFFICES ASSUME CallsChecked, NotReopened, IInv, StrictInv, [Next]_vars
               PROVE  StrictInv'
    OBVIOUS
  <1>1. CASE UNCHANGED vars
    BY <1>1, StrictOther DEF vars, mongo, redis, QueueLive, Called
  <1>2. ASSUME NEW r \in Requests, Start(r) \/ Continue(r) PROVE StrictInv'
    BY <1>2, StrictStart, StrictReads, StrictCall, StrictFinish DEF Continue
  <1>3. CASE Listener \/ Sweeper
    BY <1>3, StrictJobs
  <1>4. CASE Environment
    BY <1>4, StrictEnvironment DEF CallsChecked
  <1>5. CASE PauseQueue \/ ResumeQueue
    BY <1>5, StrictOther
    DEF PauseQueue, ResumeQueue, SetQueueStatus, redis, NotReopened, Called
  <1>6. \A e \in Entries : ~CallEntry(e)
    BY DEF CallsChecked, CallEntry
  <1>7. ~ListenerFails /\ ~SweeperFails /\ \A r \in Requests : ~CommandFails(r)
    BY DEF CallsChecked, ListenerFails, SweeperFails, CommandFails
  <1> QED
    BY <1>1, <1>2, <1>3, <1>4, <1>5, <1>6, <1>7 DEF Next

\* CallsLocked is inductive while the lock holds, whichever command fails.
LEMMA LockedNext == LockHolds /\ IInv /\ CallsLocked /\ [Next]_vars => CallsLocked'
  <1> SUFFICES ASSUME LockHolds, IInv, CallsLocked, [Next]_vars PROVE CallsLocked'
    OBVIOUS
  <1>0. req \in [Requests -> RequestType]
    BY DEF IInv, TypeOK
  <1>1. CASE UNCHANGED <<req, lock>>
    BY <1>1 DEF CallsLocked, InCallNext
  <1>2. ASSUME NEW r \in Requests, StartCallNext(r) PROVE CallsLocked'
    <2>1. lock = NoRequest /\ lock' = r /\ \A s \in Requests \ {r} : req'[s] = req[s]
      BY <1>0, <1>2 DEF StartCallNext, Begin
    <2> QED
      BY <2>1, SessionAssumption DEF CallsLocked, InCallNext
  <1>3. ASSUME NEW r \in Requests, lock' = lock, \A s \in Requests \ {r} : req'[s] = req[s],
               InCallNext(r)' => InCallNext(r)
        PROVE  CallsLocked'
    BY <1>3 DEF CallsLocked, InCallNext
  <1>4. ASSUME NEW r \in Requests, Start(r), ~StartCallNext(r) PROVE CallsLocked'
    <2>1. ASSUME NEW o, NEW e, NEW l, Begin(r, o, e, l), lock' = lock, o # "callNext"
          PROVE  CallsLocked'
      BY <1>0, <1>3, <2>1 DEF Begin, IdleRequest, InCallNext
    <2>2. CASE StartStatus(r)
      BY <2>1, <2>2 DEF StartStatus, redis
    <2>3. CASE StartTerminate(r)
      BY <1>0, <1>3, <2>3 DEF StartTerminate, redis, IdleRequest, InCallNext
    <2>4. ASSUME NEW e \in Entries,
                 StartJoin(r, e) \/ StartAddEntry(r, e) \/ StartArrived(r, e) \/ StartConfirm(r, e)
          PROVE  CallsLocked'
      BY <2>1, <2>4 DEF StartJoin, StartAddEntry, StartArrived, StartConfirm, redis
    <2>5. ASSUME NEW e \in Entries, NEW o \in {"serve", "skip", "leave"},
                 FinishUserSession(r, e, o)
          PROVE  CallsLocked'
      BY <2>1, <2>5 DEF FinishUserSession, redis
    <2> QED
      BY <1>4, <2>2, <2>3, <2>4, <2>5 DEF Start
  <1>5. ASSUME NEW r \in Requests, Continue(r) \/ CommandFails(r) PROVE CallsLocked'
    <2>1. /\ \A s \in Requests \ {r} : req'[s] = req[s]
          /\ InCallNext(r)' => InCallNext(r)
      BY <1>5, Onward DEF InCallNext
    <2>2. CASE lock' = lock
      BY <1>3, <2>1, <2>2
    <2>3. CASE lock' # lock
      <3>1. lock = r /\ ReleaseLock(r)
        BY <1>5, <2>3, LockKept DEF CommandFails, redis
      <3>2. ~InCallNext(r)'
        BY <1>0, <3>1 DEF ReleaseLock, Done, IdleRequest, InCallNext
      <3> QED
        BY <2>1, <3>1, <3>2 DEF CallsLocked, InCallNext
    <2> QED
      BY <2>2, <2>3
  <1>6. CASE Environment
    <2>1. ~RedisLoss /\ ~LockExpires
      BY DEF RedisLoss, LockExpires, LockHolds, IInv, TypeOK
    <2> QED
      BY <1>1, <1>6, <2>1
      DEF Environment, QueueTimePasses, QueueTtl, TimerFires, IdleTimerFires,
          GraceTimerFires, PositionsExpire, CounterExpires, SentinelExpires, redis
  <1>7. CASE Sweeper \/ SweeperFails \/ Listener \/ ListenerFails
    BY <1>1, <1>7
    DEF Sweeper, SweepFind, ExpireRead, ExpireMark, ExpireDeleteKeys, DeleteQueueKeys,
        ExpireEntries, ExpireDrop, SweeperFails, Listener, HandleIdleExpiry, StartGraceTimer,
        HandleGraceExpiry, ListenerFails, redis
  <1>8. CASE PauseQueue \/ ResumeQueue \/ \E e \in Entries : CallEntry(e)
    BY <1>1, <1>8 DEF PauseQueue, ResumeQueue, SetQueueStatus, CallEntry, redis
  <1> QED
    BY <1>1, <1>2, <1>4, <1>5, <1>6, <1>7, <1>8 DEF Next, vars, redis

\* While the lock outlives the handler, call-next runs alone from SET NX to its
\* release, also when commands fail and others call, pause or end the queue.
THEOREM CallNextAlone == LockHolds => (Spec => []CallNextExclusive)
  <1> SUFFICES ASSUME LockHolds PROVE Spec => []CallNextExclusive
    OBVIOUS
  <1>1. Init => CallsLocked
    BY StrictInit DEF StrictInv
  <1>2. CallsLocked => CallNextExclusive
    BY DEF CallsLocked, CallNextExclusive
  <1>3. IInv /\ CallsLocked /\ [Next]_vars => CallsLocked'
    BY LockedNext
  <1> QED
    BY <1>1, <1>2, <1>3, Invariance, PTL DEF Spec

\* While the lock outlives the handler and guests are called by call-next only,
\* strict mode keeps its promise although the check and the update are separate
\* commands: an open queue never has two called guests, unless one that was
\* closed is opened again.
THEOREM StrictModeHolds ==
    CallsChecked => (Spec /\ [][NotReopened]_vars => []StrictOneCalled)
  <1> SUFFICES ASSUME CallsChecked
               PROVE  Spec /\ [][NotReopened]_vars => []StrictOneCalled
    OBVIOUS
  <1>1. StrictInv => StrictOneCalled
    BY DEF StrictInv, StrictOneCalled
  <1>2. IInv /\ StrictInv /\ [Next]_vars /\ [NotReopened]_vars => StrictInv'
    <2>1. UNCHANGED vars => NotReopened
      BY DEF vars, mongo, NotReopened, QueueLive
    <2> QED
      BY <2>1, StrictNext
  <1> QED
    BY <1>1, <1>2, StrictInit, Invariance, PTL DEF Spec
-----------------------------------------------------------------------------
(* Nobody is in line without an entry *)

Known == {e \in Entries : status[e] # "ABSENT"}

\* What is in line, what a request is about to put there, and what it has read
\* from there has been inserted before.
KnownInv ==
    /\ positions \subseteq Known
    /\ \A r \in Requests :
          /\ req[r].ids \subseteq Known
          /\ req[r].pc = "zadd" => req[r].e \in Known

\* A step of one request.
LEMMA KnownStep ==
    ASSUME KnownInv, NEW r \in Requests,
           \A s \in Requests \ {r} : req'[s] = req[s],
           Known \subseteq Known', positions' \subseteq Known',
           req'[r].ids \subseteq Known', req'[r].pc = "zadd" => req'[r].e \in Known'
    PROVE  KnownInv'
  <1>1. ASSUME NEW s \in Requests
        PROVE  /\ req'[s].ids \subseteq Known'
               /\ req'[s].pc = "zadd" => req'[s].e \in Known'
    BY DEF KnownInv
  <1> QED
    BY <1>1 DEF KnownInv

\* A step that leaves every request alone.
LEMMA KnownOther ==
    ASSUME KnownInv, UNCHANGED req, Known \subseteq Known', positions' \subseteq positions
    PROVE  KnownInv'
  BY DEF KnownInv

\* An update writes no status of an entry that is not stored.
LEMMA KnownSetStatus ==
    ASSUME TypeOK, NEW e, NEW s, s # "ABSENT", SetStatus(e, s)
    PROVE  Known \subseteq Known'
  BY DEF SetStatus, Known, TypeOK

\* Skipping and deleting entries leave a trace of each.
LEMMA KnownBulk ==
    ASSUME TypeOK, SkipUnserved \/ DeleteEntries
    PROVE  Known \subseteq Known'
  <1>1. CASE SkipUnserved
    BY <1>1 DEF SkipUnserved, Known, TypeOK
  <1>2. CASE DeleteEntries
    BY <1>2 DEF DeleteEntries, Known, TypeOK
  <1> QED
    BY <1>1, <1>2

\* The empty line has no unknown member.
LEMMA KnownInit == Init => KnownInv
  BY DEF Init, KnownInv, IdleRequest

\* A request remembers only stored entries from its first command on.
LEMMA KnownStart ==
    ASSUME IInv, KnownInv, NEW r \in Requests, Start(r)
    PROVE  KnownInv'
  <1> USE DEF Begin, IdleRequest
  <1>0. req \in [Requests -> RequestType]
    BY DEF IInv, TypeOK
  <1>1. ASSUME UNCHANGED positions, Known \subseteq Known',
               \A s \in Requests \ {r} : req'[s] = req[s],
               req'[r].pc # "zadd", req'[r].ids \subseteq Known
        PROVE  KnownInv'
    BY <1>1, KnownStep DEF KnownInv
  <1>2. CASE StartStatus(r)
    BY <1>0, <1>1, <1>2 DEF StartStatus, mongo, redis, Known
  <1>3. CASE StartCallNext(r)
    BY <1>0, <1>1, <1>3 DEF StartCallNext, mongo, Known
  <1>4. CASE StartTerminate(r)
    <2>1. \A ids \in OrFailed(Unserved, {}) : ids \subseteq Known
      BY DEF OrFailed, Unserved, Known, LiveStatus
    <2> QED
      BY <1>0, <1>1, <1>4, <2>1 DEF StartTerminate, mongo, redis, Known
  <1>5. ASSUME NEW e \in Entries, StartJoin(r, e) \/ StartAddEntry(r, e) PROVE KnownInv'
    BY <1>0, <1>1, <1>5 DEF StartJoin, StartAddEntry, mongo, redis, Known
  <1>6. ASSUME NEW e \in Entries, StartArrived(r, e) \/ StartConfirm(r, e) PROVE KnownInv'
    <2>1. Known \subseteq Known'
      BY <1>6, KnownSetStatus DEF StartArrived, StartConfirm, IInv
    <2> QED
      BY <1>0, <1>1, <1>6, <2>1 DEF StartArrived, StartConfirm, redis
  <1>7. ASSUME NEW e \in Entries, NEW o \in {"serve", "skip", "leave"},
               FinishUserSession(r, e, o)
        PROVE  KnownInv'
    <2>1. Known \subseteq Known'
      BY <1>7, KnownSetStatus DEF FinishUserSession, FinalStatus, IInv
    <2> QED
      BY <1>0, <1>1, <1>7, <2>1 DEF FinishUserSession, redis
  <1> QED
    BY <1>2, <1>3, <1>4, <1>5, <1>6, <1>7 DEF Start

\* The commands that decide what enters the line.
LEMMA KnownWrites ==
    ASSUME IInv, KnownInv, NEW r \in Requests,
           RehydrateFind(r) \/ RehydrateAdd(r) \/ InsertEntry(r) \/ AddToQueue(r)
    PROVE  KnownInv'
  <1> USE DEF At, Goto, Done, IdleRequest
  <1>0. req \in [Requests -> RequestType]
    BY DEF IInv, TypeOK
  <1>1. ASSUME NEW ids \in SUBSET Known, req[r].pc # "zadd", AfterRehydrate(r, ids)
        PROVE  /\ \A s \in Requests \ {r} : req'[s] = req[s]
               /\ req'[r].ids \subseteq Known /\ req'[r].pc # "zadd"
    <2>1. CASE req[r].op = "callNext"
      BY <1>0, <1>1, <2>1 DEF AfterRehydrate, RequestType
    <2>2. CASE req[r].op # "callNext"
      BY <1>0, <1>1, <2>2 DEF AfterRehydrate, AfterCount, RequestType, KnownInv
    <2> QED
      BY <2>1, <2>2
  <1>2. CASE RehydrateFind(r)
    <2>1. Rehydratable \subseteq Known /\ {} \subseteq Known
      BY DEF Rehydratable, Known
    <2>2. UNCHANGED <<status, positions>> /\ req[r].pc # "zadd"
      BY <1>2 DEF RehydrateFind, mongo, redis
    <2>3. /\ \A s \in Requests \ {r} : req'[s] = req[s]
          /\ req'[r].ids \subseteq Known /\ req'[r].pc # "zadd"
      <3>1. CASE Rehydratable = {}
        BY <1>1, <1>2, <2>1, <2>2, <3>1 DEF RehydrateFind
      <3>2. CASE Rehydratable # {}
        BY <1>0, <1>2, <2>1, <3>2 DEF RehydrateFind, RequestType
      <3> QED
        BY <3>1, <3>2
    <2> QED
      BY <2>2, <2>3, KnownStep DEF KnownInv, Known
  <1>3. CASE RehydrateAdd(r)
    <2>1. req[r].ids \in SUBSET Known
      BY DEF KnownInv
    <2>2. /\ UNCHANGED status /\ req[r].pc # "zadd"
          /\ positions' = positions \cup req[r].ids
          /\ AfterRehydrate(r, req[r].ids)
      BY <1>3 DEF RehydrateAdd, mongo
    <2>3. /\ \A s \in Requests \ {r} : req'[s] = req[s]
          /\ req'[r].ids \subseteq Known /\ req'[r].pc # "zadd"
      BY <1>1, <2>1, <2>2
    <2>4. Known' = Known
      BY <2>2 DEF Known
    <2> QED
      BY <2>1, <2>2, <2>3, <2>4, KnownStep DEF KnownInv
  <1>4. CASE InsertEntry(r)
    <2>1. /\ status' = [status EXCEPT ![req[r].e] = "WAITING"]
          /\ UNCHANGED positions
          /\ \A s \in Requests \ {r} : req'[s] = req[s]
          /\ req'[r].e = req[r].e /\ req'[r].ids = req[r].ids
      BY <1>0, <1>4 DEF InsertEntry, RequestType, redis
    <2>2. req[r].e \in Entries
      BY <1>4, RequestFields DEF InsertEntry
    <2>3. Known \subseteq Known' /\ req[r].e \in Known'
      BY <2>1, <2>2 DEF Known, IInv, TypeOK
    <2> QED
      BY <2>1, <2>3, KnownStep DEF KnownInv
  <1>5. CASE AddToQueue(r)
    <2>1. /\ UNCHANGED status
          /\ positions' = positions \cup {req[r].e} /\ req[r].e \in Known
          /\ \A s \in Requests \ {r} : req'[s] = req[s]
          /\ req'[r].pc = "count" /\ req'[r].ids = {}
      BY <1>0, <1>5 DEF AddToQueue, mongo, KnownInv
    <2> QED
      BY <2>1, KnownStep DEF KnownInv, Known
  <1> QED
    BY <1>2, <1>3, <1>4, <1>5

\* Every other command of a handler, and every command that fails.
LEMMA KnownReads ==
    ASSUME IInv, KnownInv, NEW r \in Requests,
           \/ Count(r) \/ RehydrateSentinel(r)
           \/ Admit(r) \/ HasCounter(r) \/ ReadLastTicket(r) \/ SetTicketCounter(r)
           \/ NextTicket(r) \/ CheckStrict(r) \/ ReadPositions(r) \/ PickWaiting(r)
           \/ MarkCalled(r) \/ StartIdleTimer(r) \/ ReleaseLock(r)
           \/ RemoveFromQueue(r) \/ TallyServed(r)
           \/ ClearIdleTimer(r) \/ ClearGraceTimer(r)
           \/ CloseQueue(r) \/ SkipEntries(r) \/ TerminateDeleteKeys(r)
           \/ CommandFails(r)
    PROVE  KnownInv'
  <1> USE DEF At, Goto, Done, IdleRequest
  <1>0. req \in [Requests -> RequestType] /\ req[r].ids \subseteq Known
    BY DEF IInv, TypeOK, KnownInv
  <1> DEFINE Own == /\ \A s \in Requests \ {r} : req'[s] = req[s]
                    /\ req'[r].ids \subseteq Known /\ req'[r].pc # "zadd"
             Data == Known \subseteq Known' /\ positions' \subseteq positions
  <1>1. ASSUME Own, Data PROVE KnownInv'
    BY <1>1, KnownStep DEF KnownInv
  <1>2. ASSUME NEW l, l # "zadd", Goto(r, l) PROVE Own
    BY <1>0, <1>2 DEF RequestType
  <1>3. ASSUME Done(r) PROVE Own
    BY <1>0, <1>3
  <1>4. ASSUME NEW n, AfterCount(r, n) PROVE Own
    BY <1>0, <1>4 DEF AfterCount, RequestType
  <1>5. ASSUME NEW ids \in SUBSET Known, AfterRehydrate(r, ids) PROVE Own
    <2>1. CASE req[r].op = "callNext"
      BY <1>0, <1>5, <2>1 DEF AfterRehydrate, RequestType
    <2> QED
      BY <1>4, <1>5, <2>1 DEF AfterRehydrate
  <1>6. ASSUME NEW e, NextCandidate(r, e) PROVE Own
    BY <1>0, <1>6 DEF NextCandidate, RequestType
  <1>7. ASSUME AfterSkip(r) PROVE Own
    BY <1>0, <1>7 DEF AfterSkip, RequestType
  <1>8. ASSUME UNCHANGED <<mongo, positions>> PROVE Data
    BY <1>8 DEF mongo, Known
  <1>9. CASE Count(r) \/ RehydrateSentinel(r)
    <2>1. Own
      BY <1>2, <1>4, <1>9 DEF Count, RehydrateSentinel
    <2> QED
      BY <1>1, <1>8, <1>9, <2>1 DEF Count, RehydrateSentinel, redis
  <1>10. CASE Admit(r) \/ HasCounter(r) \/ SetTicketCounter(r) \/ CheckStrict(r)
    <2>1. Own
      BY <1>2, <1>3, <1>10 DEF Admit, HasCounter, SetTicketCounter, CheckStrict
    <2> QED
      BY <1>1, <1>8, <1>10, <2>1 DEF Admit, HasCounter, SetTicketCounter, CheckStrict, redis
  <1>11. CASE ReadLastTicket(r) \/ NextTicket(r)
    <2>1. Own
      BY <1>0, <1>11 DEF ReadLastTicket, NextTicket, RequestType
    <2> QED
      BY <1>1, <1>8, <1>11, <2>1 DEF ReadLastTicket, NextTicket, redis
  <1>12. CASE ReadPositions(r)
    <2>1. Own
      BY <1>0, <1>12 DEF ReadPositions, RequestType, KnownInv
    <2> QED
      BY <1>1, <1>8, <1>12, <2>1 DEF ReadPositions, redis
  <1>13. CASE PickWaiting(r)
    <2>1. Own
      <3>1. PICK e \in Oldest(req[r].ids) :
               IF status[e] = "WAITING"
               THEN req' = [req EXCEPT ![r].e = e, ![r].ids = {}, ![r].pc = "mark"]
               ELSE NextCandidate(r, e)
        BY <1>13 DEF PickWaiting
      <3>2. CASE status[e] = "WAITING"
        BY <1>0, <3>1, <3>2 DEF RequestType
      <3> QED
        BY <1>6, <3>1, <3>2
    <2> QED
      BY <1>1, <1>8, <1>13, <2>1 DEF PickWaiting, redis
  <1>14. CASE MarkCalled(r)
    <2>1. Own
      BY <1>2, <1>14 DEF MarkCalled
    <2>2. Data
      BY <1>14, KnownSetStatus DEF MarkCalled, redis, IInv
    <2> QED
      BY <1>1, <2>1, <2>2
  <1>15. CASE StartIdleTimer(r) \/ ReleaseLock(r) \/ ClearIdleTimer(r) \/ ClearGraceTimer(r)
    <2>1. Own
      BY <1>2, <1>3, <1>15 DEF StartIdleTimer, ReleaseLock, ClearIdleTimer, ClearGraceTimer
    <2> QED
      BY <1>1, <1>8, <1>15, <2>1
      DEF StartIdleTimer, ReleaseLock, ClearIdleTimer, ClearGraceTimer
  <1>16. CASE RemoveFromQueue(r)
    <2>1. Own
      BY <1>2, <1>3, <1>16 DEF RemoveFromQueue, AfterRemove
    <2>2. Data
      BY <1>16 DEF RemoveFromQueue, mongo, Known
    <2> QED
      BY <1>1, <2>1, <2>2
  <1>17. CASE TallyServed(r) \/ CloseQueue(r)
    <2>1. Own
      BY <1>2, <1>3, <1>17 DEF TallyServed, CloseQueue
    <2>2. Data
      BY <1>17 DEF TallyServed, CloseQueue, redis, Known
    <2> QED
      BY <1>1, <2>1, <2>2
  <1>18. CASE SkipEntries(r)
    <2>1. Own
      BY <1>7, <1>18 DEF SkipEntries
    <2>2. Known \subseteq Known'
      BY <1>18, KnownBulk DEF SkipEntries, IInv, Known
    <2>3. Data
      BY <1>18, <2>2 DEF SkipEntries, redis
    <2> QED
      BY <1>1, <2>1, <2>3
  <1>19. CASE TerminateDeleteKeys(r)
    <2>1. Own
      BY <1>3, <1>19 DEF TerminateDeleteKeys
    <2>2. Data
      BY <1>19 DEF TerminateDeleteKeys, DeleteQueueKeys, mongo, Known
    <2> QED
      BY <1>1, <2>1, <2>2
  <1>20. CASE CommandFails(r)
    <2>1. Own
      <3>1. ASSUME req' = [req EXCEPT ![r].n = 0, ![r].pc = "setCounter"] PROVE Own
        BY <1>0, <3>1 DEF RequestType
      <3>2. ASSUME AfterRemove(r) PROVE Own
        BY <1>2, <1>3, <3>2 DEF AfterRemove
      <3>3. {} \in SUBSET Known /\ req[r].ids \in SUBSET Known
        BY <1>0
      <3> HIDE DEF Own, Goto, Done
      <3> QED
        BY <1>2, <1>3, <1>4, <1>5, <1>6, <1>7, <1>20, <3>1, <3>2, <3>3 DEF CommandFails
    <2> QED
      BY <1>1, <1>8, <1>20, <2>1 DEF CommandFails, redis
  <1> QED
    BY <1>9, <1>10, <1>11, <1>12, <1>13, <1>14, <1>15, <1>16, <1>17, <1>18, <1>19, <1>20

\* The steps that are no command of a handler add nobody to the line.
LEMMA KnownRest ==
    ASSUME IInv, KnownInv,
           \/ \E e \in Entries : CallEntry(e)
           \/ PauseQueue \/ ResumeQueue
           \/ Listener \/ Sweeper \/ ListenerFails \/ SweeperFails \/ Environment
    PROVE  KnownInv'
  <1>1. ASSUME UNCHANGED <<mongo, positions, req>> PROVE KnownInv'
    BY <1>1, KnownOther DEF mongo, Known
  <1>2. ASSUME NEW e \in Entries, CallEntry(e) PROVE KnownInv'
    BY <1>2, KnownSetStatus, KnownOther DEF CallEntry, redis, IInv
  <1>3. CASE PauseQueue \/ ResumeQueue \/ QueueTimePasses \/ QueueTtl \/ ExpireMark
    <2>1. UNCHANGED <<status, positions, req>>
      BY <1>3 DEF PauseQueue, ResumeQueue, SetQueueStatus, QueueTimePasses, QueueTtl,
                  ExpireMark, redis
    <2> QED
      BY <2>1, KnownOther DEF Known
  <1>4. CASE HandleIdleExpiry \/ HandleGraceExpiry
    BY <1>4, KnownSetStatus, KnownOther DEF HandleIdleExpiry, HandleGraceExpiry, IInv
  <1>5. CASE ExpireEntries \/ ExpireDrop
    BY <1>5, KnownBulk, KnownOther DEF ExpireEntries, ExpireDrop, redis, IInv
  <1>6. CASE StartGraceTimer \/ ListenerFails
    BY <1>1, <1>6 DEF StartGraceTimer, ListenerFails
  <1>7. CASE SweepFind \/ ExpireRead \/ SweeperFails
    BY <1>1, <1>7 DEF SweepFind, ExpireRead, SweeperFails, redis
  <1>8. CASE ExpireDeleteKeys \/ PositionsExpire \/ RedisLoss
    <2>1. UNCHANGED <<status, req>> /\ positions' = {}
      BY <1>8 DEF ExpireDeleteKeys, DeleteQueueKeys, PositionsExpire, RedisLoss, mongo
    <2> QED
      BY <2>1, KnownOther DEF Known
  <1>9. CASE TimerFires
    BY <1>1, <1>9 DEF TimerFires, IdleTimerFires, GraceTimerFires
  <1>10. CASE CounterExpires \/ SentinelExpires \/ LockExpires
    BY <1>1, <1>10 DEF CounterExpires, SentinelExpires, LockExpires
  <1> QED
    BY <1>2, <1>3, <1>4, <1>5, <1>6, <1>7, <1>8, <1>9, <1>10
    DEF Listener, Sweeper, Environment

\* KnownInv is inductive.
LEMMA KnownNext == IInv /\ KnownInv /\ [Next]_vars => KnownInv'
  <1> SUFFICES ASSUME IInv, KnownInv, [Next]_vars PROVE KnownInv'
    OBVIOUS
  <1>1. CASE UNCHANGED vars
    BY <1>1, KnownOther DEF vars, mongo, redis, Known
  <1>2. ASSUME NEW r \in Requests, Start(r) \/ Continue(r) \/ CommandFails(r)
        PROVE  KnownInv'
    BY <1>2, KnownStart, KnownReads, KnownWrites DEF Continue
  <1> QED
    BY <1>1, <1>2, KnownRest DEF Next

\* Whatever Redis loses, whatever expires and whichever command fails, nobody
\* gets a position before the entry is stored.
THEOREM LineKnown == Spec => []NoUnknownInLine
  <1>1. KnownInv => NoUnknownInLine
    BY DEF KnownInv, Known, NoUnknownInLine
  <1> QED
    BY <1>1, KnownInit, KnownNext, Invariance, PTL DEF Spec
=============================================================================
