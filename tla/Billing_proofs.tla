--------------------------- MODULE Billing_proofs ---------------------------
(***************************************************************************)
(* Proofs about Billing, for every number of plans, slots, webhooks and    *)
(* turns.                                                                  *)
(*                                                                         *)
(* TypeOK is not inductive: SyncDetails stores the status that the         *)
(* provider has given, and only the history of what was sold says that it  *)
(* has given one.  BilledOnce rests on the key of a webhook being taken    *)
(* before its record is made, RemindedOnce on who may be between reading   *)
(* and writing the document.  IInv joins these.                            *)
(*                                                                         *)
(* SettledAgrees speaks of what is left when all events are processed.     *)
(* SettleInv says at every moment which of them the document has, and that *)
(* it is in the phase which the provider had after them.                   *)
(***************************************************************************)
EXTENDS Billing, TLAPS

\* The commands of a webhook, and those of a request; `drop' and `downgrade'
\* belong to both.
WebhookPCs == {"invalidate", "bill", "upsert", "tier", "extend", "grace", "state",
               "metadata", "cancel"}
RequestPCs == {"find", "expire", "fill", "details", "sync", "cancelAtProvider",
               "markAtEnd", "lookup", "session", "unlock"}

\* The command a slot is at belongs to a webhook or to a request, and has the
\* plan or the status that it needs.
Coherent(q) ==
    /\ q.pc \in WebhookPCs => q.op = "webhook"
    /\ q.pc \in RequestPCs => q.op # "webhook"
    /\ q.pc \in {"details", "cancelAtProvider", "lookup", "session", "unlock"}
         => q.plan \in Plans
    /\ q.pc = "sync" => q.status # "none"

SlotsCoherent == \A r \in Slots : Coherent(req[r])

\* What the provider reports, and what is stored, it has sold.
EventsSold == \A w \in DOMAIN sent : psub[sent[w].plan] # "none"
DocumentSold ==
    Stored => sub.plan \in Plans /\ sub.of \in Plans /\ psub[sub.of] # "none"

\* A request that goes on with a document has read one.
RequestsSold ==
    \A r \in Slots :
      /\ req[r].pc \in {"details", "cancelAtProvider"} => psub[req[r].plan] # "none"
      /\ req[r].pc \in {"expire", "details", "sync"} => Stored

\* A webhook that is processed has its key, and is processed in one slot.
WebhooksKeyed ==
    /\ \A r \in Slots : Webhook(r) => req[r].w \in answered
    /\ \A r, s \in Slots : Webhook(r) /\ Webhook(s) /\ req[r].w = req[s].w => r = s

\* A webhook is billed after it has taken its key, and before the upsert.
BilledByKey ==
    /\ \A w \in Ids : billed[w] <= 1 /\ (billed[w] > 0 => w \in answered)
    /\ \A r \in Slots : req[r].pc \in {"invalidate", "bill"} => billed[req[r].w] = 0

\* While nothing was disturbed: the job sends what was not sent, marks what it has
\* sent, and nobody who has read the document can uncancel it.
RemindersMarked ==
    /\ job # "idle" => Stored
    /\ ~disturbed =>
         /\ reminders <= 1
         /\ job = "send" => reminders = 0
         /\ job = "idle" /\ reminders > 0 => sub.reminded \/ sub.cancelled
         /\ \A r \in Slots : req[r].pc \in {"details", "sync"} => ~sub.cancelled

\* The inductive invariant.
IInv == /\ TypeOK
        /\ SlotsCoherent /\ EventsSold /\ DocumentSold /\ RequestsSold
        /\ WebhooksKeyed /\ BilledByKey /\ RemindersMarked
-----------------------------------------------------------------------------
(* What the steps of one slot have in common *)

\* The slot r goes on with its request or webhook, or is freed: what it knows it
\* has read in the state before.
Advance(r) ==
    /\ req' \in [Slots -> RequestType]
    /\ \A s \in Slots : s # r => req'[s] = req[s]
    /\ Coherent(req'[r])
    /\ req'[r].op = "webhook" => req[r].op = "webhook" /\ req'[r].w = req[r].w
    /\ req'[r].pc \in {"invalidate", "bill"} => req[r].pc = "invalidate"
    /\ req'[r].pc \in {"details", "cancelAtProvider"} => psub[req'[r].plan] # "none"
    /\ req'[r].pc \in {"expire", "details", "sync"} => Stored
    /\ req'[r].pc \in {"details", "sync"} /\ ~disturbed => ~sub.cancelled

\* The commands that ask nothing of what was read.
PlainPCs == PCs \ {"invalidate", "bill", "details", "cancelAtProvider", "expire", "sync"}

\* The slots keep their invariants when one of them advances, and the provider's
\* subscriptions, the document, the keys and the records stay or grow.
LEMMA AdvanceInv ==
    ASSUME IInv, NEW r \in Slots, Advance(r), billed' = billed, answered' = answered,
           \A p \in Plans : psub[p] # "none" => psub'[p] # "none",
           Stored => Stored'
    PROVE  SlotsCoherent' /\ RequestsSold' /\ WebhooksKeyed' /\ BilledByKey'
  <1> USE DEF IInv, Advance
  <1>1. SlotsCoherent'
    BY DEF SlotsCoherent, Coherent
  <1>2. RequestsSold'
    BY <1>1 DEF RequestsSold, SlotsCoherent, Coherent
  <1>3. WebhooksKeyed'
    BY DEF WebhooksKeyed, Webhook
  <1>4. BilledByKey'
    <2>1. ASSUME NEW s \in Slots, req'[s].pc \in {"invalidate", "bill"}
          PROVE  req[s].pc \in {"invalidate", "bill"} /\ req'[s].w = req[s].w
      BY <2>1, <1>1 DEF SlotsCoherent, Coherent, WebhookPCs
    <2> QED
      BY <2>1 DEF BilledByKey
  <1> QED
    BY <1>1, <1>2, <1>3, <1>4

\* The fields of a request, and what its command says of it.
LEMMA RequestFields ==
    ASSUME IInv, NEW r \in Slots
    PROVE  /\ req[r] \in RequestType /\ Coherent(req[r])
           /\ req[r].pc \in PCs /\ req[r].w \in 0..MaxWebhooks
           /\ req[r].op \in AllOps \cup {"none", "webhook"}
           /\ req[r].plan \in Plans \cup {Free, NoPlan} /\ req[r].status \in Statuses
  BY DEF IInv, TypeOK, SlotsCoherent, RequestType

\* A slot that is freed advances.
LEMMA DoneAdvance ==
    ASSUME IInv, NEW r \in Slots, Done(r)
    PROVE  Advance(r)
  <1>1. IdleRequest \in RequestType /\ Coherent(IdleRequest)
    BY BillingAssumption
    DEF IdleRequest, RequestType, PCs, Statuses, Coherent, WebhookPCs, RequestPCs
  <1>2. req'[r] = IdleRequest
    BY DEF Done, IInv, TypeOK
  <1>3. req' \in [Slots -> RequestType] /\ \A s \in Slots : s # r => req'[s] = req[s]
    BY <1>1 DEF Done, IInv, TypeOK
  <1> QED
    BY <1>1, <1>2, <1>3 DEF Advance, IdleRequest

\* A slot that has its request changed to q advances, if q is at a plain command.
LEMMA PlainAdvance ==
    ASSUME IInv, NEW r \in Slots, NEW q \in RequestType, req' = [req EXCEPT ![r] = q],
           Coherent(q), q.op = req[r].op, q.w = req[r].w, q.pc \in PlainPCs
    PROVE  Advance(r)
  <1>1. req'[r] = q
    BY DEF IInv, TypeOK
  <1>2. req' \in [Slots -> RequestType] /\ \A s \in Slots : s # r => req'[s] = req[s]
    BY DEF IInv, TypeOK
  <1> QED
    BY <1>1, <1>2 DEF Advance, PlainPCs

\* So does a slot that goes to the plain command l, which fits its operation.
LEMMA GotoAdvance ==
    ASSUME IInv, NEW r \in Slots, NEW l \in PlainPCs, Goto(r, l),
           l \in WebhookPCs => req[r].op = "webhook",
           l \in RequestPCs => req[r].op # "webhook",
           l \in {"lookup", "session", "unlock"} => req[r].plan \in Plans
    PROVE  Advance(r)
  <1> DEFINE q == [req[r] EXCEPT !.pc = l]
  <1>1. q \in RequestType /\ q.op = req[r].op /\ q.w = req[r].w /\ q.pc = l
    BY RequestFields DEF RequestType, PlainPCs
  <1>2. Coherent(q)
    BY <1>1, RequestFields DEF Coherent, PlainPCs, RequestType
  <1>3. req' = [req EXCEPT ![r] = q]
    BY DEF Goto, IInv, TypeOK
  <1> HIDE DEF q
  <1> QED
    BY <1>1, <1>2, <1>3, PlainAdvance

-----------------------------------------------------------------------------
(* The requests of the host *)

\* A step in which a slot advances keeps the invariant, if what it writes has its
\* type, and a document that is written forgets no mark of the reminder job while
\* the reminders are still counted.
LEMMA StepInv ==
    ASSUME IInv, NEW r \in Slots, Advance(r),
           UNCHANGED <<psub, sent, billed, answered, job>>,
           due' \subseteq due, sessions' \subseteq Plans, checkouts' \subseteq Plans,
           cache' \in Plans \cup {Free, NoPlan},
           tier' \in Plans \cup {Free}, hours' \in Plans \cup {Free},
           turns' \in 0..MaxTurns, disturbed' \in BOOLEAN, disturbed => disturbed',
           sub' \in SubType, Stored => Stored', DocumentSold',
           \/ reminders' = 0
           \/ /\ reminders' = reminders
              /\ ~disturbed /\ (sub.reminded \/ sub.cancelled)
                   => sub'.reminded \/ sub'.cancelled,
           sub'.cancelled /\ ~disturbed'
             => sub.cancelled \/ \A s \in Slots : req'[s].pc \notin {"details", "sync"}
    PROVE  IInv'
  <1> USE DEF IInv
  <1>1. SlotsCoherent' /\ RequestsSold' /\ WebhooksKeyed' /\ BilledByKey'
    BY AdvanceInv
  <1>2. TypeOK'
    BY DEF TypeOK, Advance
  <1>3. EventsSold'
    BY DEF EventsSold
  <1>4. RemindersMarked'
    <2>1. sub.cancelled /\ ~disturbed'
            => \A s \in Slots : req'[s].pc \notin {"details", "sync"}
      BY DEF RemindersMarked, Advance
    <2> QED
      BY <2>1 DEF RemindersMarked, TypeOK
  <1> QED
    BY <1>1, <1>2, <1>3, <1>4

\* A step in which a slot advances and the document stays as it is.
LEMMA ReadOnly ==
    ASSUME IInv, NEW r \in Slots, Advance(r),
           UNCHANGED <<psub, sent, sub, billed, answered, job, reminders>>,
           due' \subseteq due, sessions' \subseteq Plans, checkouts' \subseteq Plans,
           cache' \in Plans \cup {Free, NoPlan},
           tier' \in Plans \cup {Free}, hours' \in Plans \cup {Free},
           turns' \in 0..MaxTurns, disturbed' \in BOOLEAN, disturbed => disturbed'
    PROVE  IInv'
  <1>1. sub' \in SubType /\ (Stored => Stored') /\ DocumentSold'
    BY DEF IInv, TypeOK, Stored, DocumentSold
  <1> QED
    BY <1>1, StepInv

\* Where a request goes without a document, and with one.
LEMMA DocumentAdvance ==
    ASSUME IInv, NEW r \in Slots, ~Webhook(r),
           \/ NoDocuments(r)
           \/ WithDocument(r) /\ Stored /\ ~sub.cancelled
    PROVE  Advance(r)
  <1>1. CASE Done(r)
    BY <1>1, DoneAdvance
  <1>2. ASSUME NEW p \in Plans \cup {Free}, NEW l \in {"fill", "details", "cancelAtProvider"},
               req' = [req EXCEPT ![r].plan = p, ![r].pc = l],
               l # "fill" => p \in Plans /\ psub[p] # "none" /\ Stored /\ ~sub.cancelled
        PROVE  Advance(r)
    <2> DEFINE q == [req[r] EXCEPT !.plan = p, !.pc = l]
    <2>1. q \in RequestType /\ q.op = req[r].op /\ q.w = req[r].w /\ q.pc = l /\ q.plan = p
      BY RequestFields DEF RequestType, PCs
    <2>2. Coherent(q)
      BY <2>1, <1>2 DEF Coherent, Webhook, WebhookPCs
    <2>3. req' = [req EXCEPT ![r] = q]
      BY <1>2 DEF IInv, TypeOK
    <2> HIDE DEF q
    <2>4. req'[r] = q
      BY <2>3 DEF IInv, TypeOK
    <2>5. req' \in [Slots -> RequestType] /\ \A s \in Slots : s # r => req'[s] = req[s]
      BY <2>1, <2>3 DEF IInv, TypeOK
    <2> QED
      BY <1>2, <2>1, <2>2, <2>4, <2>5 DEF Advance
  <1>3. CASE NoDocuments(r)
    BY <1>1, <1>2, <1>3 DEF NoDocuments
  <1>4. CASE WithDocument(r) /\ Stored /\ ~sub.cancelled
    <2>1. sub.plan \in Plans /\ sub.of \in Plans /\ psub[sub.of] # "none"
      BY <1>4 DEF IInv, DocumentSold
    <2> QED
      BY <1>1, <1>2, <1>4, <2>1 DEF WithDocument
  <1> QED
    BY <1>3, <1>4

\* Reading a subscription, and what its reader writes.
LEMMA ReadInv ==
    ASSUME IInv, NEW r \in Slots,
           \/ FindSubscription(r) \/ ExpireGrace(r) \/ Downgrade(r) \/ FillCache(r)
           \/ ReadDetails(r) \/ SyncDetails(r)
    PROVE  IInv'
  <1> USE DEF At, provider, mongo, redis, history
  <1>1. CASE FindSubscription(r)
    <2>1. ~Webhook(r)
      BY <1>1, RequestFields DEF FindSubscription, Coherent, RequestPCs, Webhook
    <2>2. Advance(r)
      <3>1. CASE Goto(r, "expire") /\ Stored
        <4> DEFINE q == [req[r] EXCEPT !.pc = "expire"]
        <4>1. q \in RequestType /\ q.op = req[r].op /\ q.w = req[r].w /\ q.pc = "expire"
          BY RequestFields DEF RequestType, PCs
        <4>2. Coherent(q)
          BY <2>1, <4>1 DEF Coherent, Webhook, WebhookPCs
        <4>3. req' = [req EXCEPT ![r] = q]
          BY <3>1 DEF Goto, IInv, TypeOK
        <4> HIDE DEF q
        <4>4. req'[r] = q /\ req' \in [Slots -> RequestType]
                /\ \A s \in Slots : s # r => req'[s] = req[s]
          BY <4>1, <4>3 DEF IInv, TypeOK
        <4> QED
          BY <3>1, <4>1, <4>2, <4>4 DEF Advance
      <3>2. CASE NoDocuments(r) \/ (WithDocument(r) /\ Stored /\ ~sub.cancelled)
        BY <2>1, <3>2, DocumentAdvance
      <3> QED
        BY <1>1, <3>1, <3>2 DEF FindSubscription
    <2> QED
      BY <1>1, <2>2, ReadOnly DEF FindSubscription, IInv, TypeOK
  <1>2. CASE ExpireGrace(r)
    <2>1. req[r].pc = "expire" /\ Stored
      BY <1>2 DEF ExpireGrace, IInv, RequestsSold
    <2>2. Advance(r)
      BY <1>2, GotoAdvance DEF ExpireGrace, PlainPCs, PCs, WebhookPCs, RequestPCs
    <2>3. /\ sub' \in SubType /\ Stored' /\ sub'.cancelled
          /\ sub'.of = sub.of /\ sub'.plan = sub.plan
      BY <1>2 DEF ExpireGrace, IInv, TypeOK, SubType, Stored
    <2>4. DocumentSold'
      BY <1>2, <2>1, <2>3 DEF ExpireGrace, DocumentSold, IInv
    <2>5. ~disturbed' => \A s \in Slots : req'[s].pc \notin {"details", "sync"}
      <3>1. req'[r].pc = "downgrade"
        BY <1>2 DEF ExpireGrace, Goto, IInv, TypeOK, RequestType
      <3> QED
        BY <1>2, <2>2, <3>1, RequestFields
        DEF ExpireGrace, NoteReader, ReaderBetween, Advance, Coherent, RequestPCs, Webhook
    <2> QED
      BY <1>2, <2>2, <2>3, <2>4, <2>5, StepInv
      DEF ExpireGrace, NoteReader, IInv, TypeOK
  <1>3. CASE Downgrade(r)
    <2>1. CASE Webhook(r)
      <3>1. Advance(r)
        BY <1>3, <2>1, GotoAdvance
        DEF Downgrade, PlainPCs, PCs, WebhookPCs, RequestPCs
      <3> QED
        BY <1>3, <3>1, ReadOnly DEF Downgrade, IInv, TypeOK
    <2>2. CASE ~Webhook(r)
      <3>1. Advance(r)
        BY <1>3, <2>2, DocumentAdvance DEF Downgrade
      <3> QED
        BY <1>3, <3>1, ReadOnly DEF Downgrade, IInv, TypeOK
    <2> QED
      BY <2>1, <2>2
  <1>4. CASE FillCache(r)
    <2>1. Advance(r) /\ req[r].plan \in Plans \cup {Free, NoPlan}
      BY <1>4, DoneAdvance, RequestFields DEF FillCache
    <2> QED
      BY <1>4, <2>1, ReadOnly DEF FillCache, IInv, TypeOK
  <1>5. CASE ReadDetails(r)
    <2>1. /\ Stored /\ (~disturbed => ~sub.cancelled)
          /\ req[r].plan \in Plans /\ psub[req[r].plan] # "none" /\ ~Webhook(r)
          /\ psub[req[r].plan] \in Statuses
      BY <1>5, RequestFields
      DEF ReadDetails, IInv, TypeOK, RequestsSold, RemindersMarked, Coherent, Webhook,
          RequestPCs
    <2> DEFINE q == [req[r] EXCEPT !.status = psub[req[r].plan], !.pc = "sync"]
    <2>2. /\ q \in RequestType /\ q.op = req[r].op /\ q.w = req[r].w
          /\ q.pc = "sync" /\ q.status = psub[req[r].plan]
      BY <2>1, RequestFields DEF RequestType, PCs
    <2>3. Coherent(q)
      BY <2>1, <2>2 DEF Coherent, Webhook, WebhookPCs
    <2>4. req' = [req EXCEPT ![r] = q]
      BY <1>5 DEF ReadDetails, IInv, TypeOK
    <2> HIDE DEF q
    <2>5. req'[r] = q /\ req' \in [Slots -> RequestType]
            /\ \A s \in Slots : s # r => req'[s] = req[s]
      BY <2>2, <2>4 DEF IInv, TypeOK
    <2>6. Advance(r)
      BY <2>1, <2>2, <2>3, <2>5 DEF Advance
    <2> QED
      BY <1>5, <2>6, ReadOnly DEF ReadDetails, IInv, TypeOK
  <1>6. CASE SyncDetails(r)
    <2>1. /\ Stored /\ (~disturbed => ~sub.cancelled)
          /\ req[r].status \in Statuses \ {"none"}
      BY <1>6, RequestFields
      DEF SyncDetails, IInv, RequestsSold, RemindersMarked, Coherent
    <2>2. Advance(r)
      BY <1>6, DoneAdvance DEF SyncDetails
    <2>3. /\ sub' \in SubType /\ Stored' /\ ~sub'.cancelled
          /\ sub'.of = sub.of /\ sub'.plan = sub.plan /\ sub'.reminded = sub.reminded
      BY <1>6, <2>1 DEF SyncDetails, IInv, TypeOK, SubType, Stored, Statuses
    <2>4. DocumentSold'
      BY <1>6, <2>1, <2>3 DEF SyncDetails, DocumentSold, IInv
    <2> QED
      BY <1>6, <2>1, <2>2, <2>3, <2>4, StepInv DEF SyncDetails, IInv, TypeOK
  <1> QED
    BY <1>1, <1>2, <1>3, <1>4, <1>5, <1>6

\* Buying, and the end of a cancellation by the host.
LEMMA CheckoutInv ==
    ASSUME IInv, NEW r \in Slots,
           \/ LookupSubscription(r) \/ CreateSession(r) \/ ReleaseCheckout(r)
           \/ MarkAtEnd(r) \/ DropCache(r)
    PROVE  IInv'
  <1> USE DEF At, provider, mongo, redis, history
  <1>1. CASE LookupSubscription(r)
    <2>1. req[r].plan \in Plans /\ req[r].op # "webhook"
      BY <1>1, RequestFields DEF LookupSubscription, Coherent, RequestPCs
    <2>2. Advance(r)
      BY <1>1, <2>1, GotoAdvance
      DEF LookupSubscription, PlainPCs, PCs, WebhookPCs
    <2> QED
      BY <1>1, <2>2, ReadOnly DEF LookupSubscription, IInv, TypeOK
  <1>2. CASE CreateSession(r)
    <2>1. req[r].plan \in Plans /\ req[r].op # "webhook"
      BY <1>2, RequestFields DEF CreateSession, Coherent, RequestPCs
    <2>2. Advance(r)
      BY <1>2, <2>1, GotoAdvance DEF CreateSession, PlainPCs, PCs, WebhookPCs
    <2> QED
      BY <1>2, <2>1, <2>2, ReadOnly DEF CreateSession, IInv, TypeOK
  <1>3. CASE ReleaseCheckout(r)
    <2>1. Advance(r)
      BY <1>3, DoneAdvance DEF ReleaseCheckout
    <2> QED
      BY <1>3, <2>1, ReadOnly DEF ReleaseCheckout, IInv, TypeOK
  <1>4. CASE MarkAtEnd(r)
    <2>1. Advance(r)
      BY <1>4, GotoAdvance DEF MarkAtEnd, PlainPCs, PCs, WebhookPCs, RequestPCs
    <2>2. /\ sub' \in SubType /\ (Stored => Stored')
          /\ sub'.of = sub.of /\ sub'.plan = sub.plan /\ sub'.reminded = sub.reminded
          /\ sub'.cancelled = sub.cancelled /\ sub'.status = sub.status
      BY <1>4 DEF MarkAtEnd, IInv, TypeOK, SubType, Stored
    <2>3. DocumentSold'
      BY <1>4, <2>2 DEF MarkAtEnd, DocumentSold, IInv, Stored
    <2> QED
      BY <1>4, <2>1, <2>2, <2>3, StepInv DEF MarkAtEnd, IInv, TypeOK
  <1>5. CASE DropCache(r)
    <2>1. Advance(r) /\ due' \subseteq due
      BY <1>5, DoneAdvance DEF DropCache, Answer
    <2> QED
      BY <1>5, <2>1, ReadOnly DEF DropCache, IInv, TypeOK
  <1> QED
    BY <1>1, <1>2, <1>3, <1>4, <1>5

\* A request that begins takes a free slot.
LEMMA StartInv ==
    ASSUME IInv, NEW r \in Slots, Start(r)
    PROVE  IInv'
  <1> USE DEF At, provider, mongo, redis, history
  <1>1. ASSUME NEW o, NEW l \in {"find", "lookup"}, NEW p \in Plans \cup {NoPlan},
               Begin(r, o, l, p), l = "lookup" => p \in Plans,
               UNCHANGED <<provider, mongo, answered, cache, job>>, checkouts' \subseteq Plans
        PROVE  IInv'
    <2> DEFINE q == [IdleRequest EXCEPT !.op = o, !.pc = l, !.plan = p]
    <2>1. o \in AllOps /\ 0 \in 0..MaxWebhooks
      BY <1>1, BillingAssumption DEF Begin
    <2>2. q \in RequestType /\ q.op = o /\ q.pc = l /\ q.plan = p
      BY <2>1 DEF RequestType, IdleRequest, PCs, Statuses
    <2>3. Coherent(q) /\ q.op # "webhook"
      BY <1>1, <2>1, <2>2 DEF Coherent, WebhookPCs, AllOps
    <2>4. req' = [req EXCEPT ![r] = q]
      BY <1>1 DEF Begin, IInv, TypeOK
    <2> HIDE DEF q
    <2>5. req'[r] = q /\ req' \in [Slots -> RequestType]
            /\ \A s \in Slots : s # r => req'[s] = req[s]
      BY <2>2, <2>4 DEF IInv, TypeOK
    <2>6. Advance(r)
      BY <2>2, <2>3, <2>5 DEF Advance
    <2>7. turns' \in 0..MaxTurns /\ UNCHANGED <<reminders, disturbed>>
      BY <1>1, BillingAssumption DEF Begin, Turn, IInv, TypeOK
    <2> QED
      BY <1>1, <2>6, <2>7, ReadOnly DEF IInv, TypeOK
  <1>2. CASE StartPlan(r) \/ StartSubscription(r) \/ StartCancel(r)
    <2>1. checkouts' \subseteq Plans
      BY <1>2 DEF StartPlan, StartSubscription, StartCancel, IInv, TypeOK
    <2> QED
      BY <1>1, <1>2, <2>1 DEF StartPlan, StartSubscription, StartCancel
  <1>3. ASSUME NEW p \in Plans, StartCheckout(r, p) PROVE IInv'
    <2>1. checkouts' \subseteq Plans
      BY <1>3 DEF StartCheckout, IInv, TypeOK
    <2> QED
      BY <1>1, <1>3, <2>1 DEF StartCheckout
  <1> QED
    BY <1>2, <1>3 DEF Start
-----------------------------------------------------------------------------
(* Webhooks *)

\* The event of a webhook that is processed is one the provider has sent, of a
\* plan that it has sold.
LEMMA EventOfWebhook ==
    ASSUME IInv, NEW r \in Slots, Webhook(r)
    PROVE  /\ req[r].w \in DOMAIN sent /\ req[r].w \in Ids /\ Ev(r).type \in EventTypes
           /\ Ev(r).plan \in Plans /\ psub[Ev(r).plan] # "none"
  <1>1. req[r].w \in answered
    BY DEF IInv, WebhooksKeyed
  <1>2. req[r].w \in DOMAIN sent /\ Ev(r) \in Event
    BY <1>1 DEF IInv, TypeOK, Ev
  <1>3. req[r].w \in Ids
    BY <1>2, BillingAssumption DEF IInv, TypeOK, Ids
  <1> QED
    BY <1>2, <1>3 DEF IInv, EventsSold, Ev, Event

\* An event leads to a command of a webhook, or to the end.
LEMMA RouteType ==
    ASSUME NEW t \in EventTypes
    PROVE  Route[t] \in {"bill", "grace", "state", "metadata", "cancel", "done"}
  BY DEF Route, EventTypes

\* A write of the document under a reader disturbs the order.
LEMMA ReaderNoted ==
    ASSUME IInv, NEW r \in Slots, Advance(r), NoteReader(r),
           req'[r].pc \notin {"details", "sync"}
    PROVE  /\ disturbed' \in BOOLEAN /\ (disturbed => disturbed')
           /\ ~disturbed' => \A s \in Slots : req'[s].pc \notin {"details", "sync"}
  BY RequestFields
  DEF NoteReader, ReaderBetween, Advance, Coherent, RequestPCs, Webhook, IInv, TypeOK

\* From the event to its command.
LEMMA DispatchInv ==
    ASSUME IInv, NEW r \in Slots, At(r, "invalidate"), Dispatch(r)
    PROVE  Advance(r) /\ due' \subseteq due
  <1>1. Webhook(r)
    BY RequestFields DEF At, Coherent, WebhookPCs, Webhook
  <1>2. Route[Ev(r).type] \in {"bill", "grace", "state", "metadata", "cancel", "done"}
    BY <1>1, EventOfWebhook, RouteType
  <1>3. CASE Answer(r)
    BY <1>3, DoneAdvance DEF Answer
  <1>4. CASE Goto(r, "bill") /\ UNCHANGED due
    <2> DEFINE q == [req[r] EXCEPT !.pc = "bill"]
    <2>1. q \in RequestType /\ q.op = req[r].op /\ q.w = req[r].w /\ q.pc = "bill"
      BY RequestFields DEF RequestType, PCs
    <2>2. Coherent(q)
      BY <1>1, <2>1 DEF Coherent, Webhook, RequestPCs
    <2>3. req' = [req EXCEPT ![r] = q]
      BY <1>4 DEF Goto, IInv, TypeOK
    <2> HIDE DEF q
    <2>4. req'[r] = q /\ req' \in [Slots -> RequestType]
            /\ \A s \in Slots : s # r => req'[s] = req[s]
      BY <2>1, <2>3 DEF IInv, TypeOK
    <2> QED
      BY <1>4, <2>1, <2>2, <2>4 DEF Advance, At
  <1>5. ASSUME NEW l \in {"grace", "state", "metadata", "cancel"},
               Goto(r, l), UNCHANGED due
        PROVE  Advance(r) /\ due' \subseteq due
    BY <1>1, <1>5, GotoAdvance DEF PlainPCs, PCs, RequestPCs, Webhook
  <1> QED
    BY <1>2, <1>3, <1>4, <1>5 DEF Dispatch

\* The webhook of a payment: its record, the document, the tier and the queues.
LEMMA PaymentInv ==
    ASSUME IInv, NEW r \in Slots,
           \/ InvalidatePlan(r) \/ InsertRecord(r) \/ UpsertSubscription(r)
           \/ SetTier(r) \/ ExtendQueues(r)
    PROVE  IInv'
  <1> USE DEF At, provider, mongo, redis, history
  <1>1. CASE InvalidatePlan(r)
    <2>1. Advance(r) /\ due' \subseteq due
      BY <1>1, DispatchInv DEF InvalidatePlan
    <2> QED
      BY <1>1, <2>1, ReadOnly DEF InvalidatePlan, IInv, TypeOK
  <1>2. CASE InsertRecord(r)
    <2>1. Webhook(r) /\ req[r].w \in Ids /\ req[r].w \in answered /\ billed[req[r].w] = 0
      BY <1>2, RequestFields, EventOfWebhook
      DEF InsertRecord, Coherent, WebhookPCs, Webhook, IInv, WebhooksKeyed, BilledByKey
    <2>2. Advance(r) /\ req'[r].pc = "upsert"
      BY <1>2, <2>1, GotoAdvance
      DEF InsertRecord, Goto, PlainPCs, PCs, RequestPCs, Webhook, IInv, TypeOK, RequestType
    <2>3. /\ billed' \in [Ids -> Nat] /\ billed'[req[r].w] = 1
          /\ \A w \in Ids : w # req[r].w => billed'[w] = billed[w]
      BY <1>2, <2>1 DEF InsertRecord, IInv, TypeOK
    <2> USE DEF IInv
    <2>4. SlotsCoherent'
      BY <2>2 DEF SlotsCoherent, Coherent, Advance
    <2>5. RequestsSold' /\ WebhooksKeyed'
      BY <1>2, <2>2
      DEF InsertRecord, RequestsSold, WebhooksKeyed, Webhook, Advance, Stored
    <2>6. BilledByKey'
      <3>1. \A s \in Slots : req'[s].pc \in {"invalidate", "bill"} =>
                 /\ s # r /\ req'[s] = req[s] /\ Webhook(s) /\ req[s].w # req[r].w
                 /\ req[s].w \in Ids
        BY <2>1, <2>2, RequestFields, EventOfWebhook
        DEF Advance, WebhooksKeyed, Coherent, WebhookPCs, Webhook
      <3> QED
        BY <1>2, <2>1, <2>3, <3>1 DEF BilledByKey, InsertRecord
    <2>7. TypeOK'
      BY <1>2, <2>2, <2>3 DEF TypeOK, Advance, InsertRecord
    <2>8. EventsSold' /\ DocumentSold'
      BY <1>2 DEF EventsSold, DocumentSold, Stored, InsertRecord
    <2>9. RemindersMarked'
      BY <1>2, <2>2 DEF RemindersMarked, InsertRecord, Stored, Advance
    <2> QED
      BY <2>4, <2>5, <2>6, <2>7, <2>8, <2>9
  <1>3. CASE UpsertSubscription(r)
    <2>1. Webhook(r) /\ Ev(r).plan \in Plans /\ psub[Ev(r).plan] # "none"
      BY <1>3, RequestFields, EventOfWebhook
      DEF UpsertSubscription, Coherent, WebhookPCs, Webhook
    <2>2. Advance(r) /\ req'[r].pc = "tier"
      BY <1>3, <2>1, GotoAdvance
      DEF UpsertSubscription, Goto, PlainPCs, PCs, RequestPCs, Webhook, IInv, TypeOK,
          RequestType
    <2>3. /\ sub' \in SubType /\ Stored' /\ ~sub'.cancelled
          /\ sub'.plan = Ev(r).plan /\ sub'.of = Ev(r).plan
      BY <1>3, <2>1 DEF UpsertSubscription, IInv, TypeOK, SubType, Stored
    <2>4. DocumentSold'
      BY <1>3, <2>1, <2>3 DEF UpsertSubscription, DocumentSold
    <2>5. disturbed' \in BOOLEAN /\ (disturbed => disturbed')
      BY <1>3, <2>2, ReaderNoted DEF UpsertSubscription
    <2> QED
      BY <1>3, <2>2, <2>3, <2>4, <2>5, StepInv DEF UpsertSubscription, IInv, TypeOK
  <1>4. CASE SetTier(r)
    <2>1. Webhook(r) /\ Ev(r).plan \in Plans
      BY <1>4, RequestFields, EventOfWebhook DEF SetTier, Coherent, WebhookPCs, Webhook
    <2>2. Advance(r) /\ req'[r].pc = "extend"
      BY <1>4, <2>1, GotoAdvance
      DEF SetTier, Goto, PlainPCs, PCs, RequestPCs, Webhook, IInv, TypeOK, RequestType
    <2>3. disturbed' \in BOOLEAN /\ (disturbed => disturbed')
      BY <1>4, <2>2, ReaderNoted DEF SetTier
    <2> QED
      BY <1>4, <2>1, <2>2, <2>3, ReadOnly DEF SetTier, IInv, TypeOK
  <1>5. CASE ExtendQueues(r)
    <2>1. Webhook(r) /\ Ev(r).plan \in Plans
      BY <1>5, RequestFields, EventOfWebhook
      DEF ExtendQueues, Coherent, WebhookPCs, Webhook
    <2>2. Advance(r) /\ due' \subseteq due
      BY <1>5, DoneAdvance, GotoAdvance
      DEF ExtendQueues, AfterExtend, Answer, PlainPCs, PCs, WebhookPCs, RequestPCs
    <2> QED
      BY <1>5, <2>1, <2>2, ReadOnly DEF ExtendQueues, IInv, TypeOK
  <1> QED
    BY <1>1, <1>2, <1>3, <1>4, <1>5

\* A webhook changes the document, or cancels it.
LEMMA StateInv ==
    ASSUME IInv, NEW r \in Slots,
           \/ StartGrace(r) \/ UpdateState(r) \/ UpdateMetadata(r)
           \/ CancelSubscription(r)
    PROVE  IInv'
  <1> USE DEF At, provider, mongo, redis, history
  <1>0. /\ Webhook(r) /\ Ev(r).plan \in Plans /\ psub[Ev(r).plan] # "none"
        /\ req[r].op = "webhook"
    BY RequestFields, EventOfWebhook
    DEF StartGrace, UpdateState, UpdateMetadata, CancelSubscription, Coherent,
        WebhookPCs, Webhook
  <1>1. CASE StartGrace(r)
    <2>1. CASE Stored
      <3>1. Advance(r) /\ req'[r].pc = "drop"
        BY <1>1, <2>1, GotoAdvance
        DEF StartGrace, Goto, PlainPCs, PCs, WebhookPCs, RequestPCs, IInv, TypeOK,
            RequestType
      <3>2. /\ sub' \in SubType /\ Stored' /\ sub'.cancelled = sub.cancelled
            /\ sub'.of = sub.of /\ sub'.plan = sub.plan /\ sub'.reminded = sub.reminded
        <4>1. sub \in SubType
          BY DEF IInv, TypeOK
        <4>2. sub' = [sub EXCEPT !.status = "in_grace", !.grace = "running"]
          BY <1>1, <2>1 DEF StartGrace
        <4> QED
          BY <2>1, <4>1, <4>2 DEF SubType, Stored
      <3>3. DocumentSold'
        BY <1>1, <2>1, <3>2 DEF StartGrace, DocumentSold, IInv
      <3>4. disturbed' \in BOOLEAN /\ (disturbed => disturbed')
        BY <1>1, <3>1, ReaderNoted DEF StartGrace
      <3> QED
        BY <1>1, <2>1, <3>1, <3>2, <3>3, <3>4, StepInv DEF StartGrace, IInv, TypeOK
    <2>2. CASE ~Stored
      <3>1. Advance(r) /\ req'[r].pc = "idle" /\ due' \subseteq due
        BY <1>1, <2>2, DoneAdvance
        DEF StartGrace, Answer, Done, IdleRequest, IInv, TypeOK, RequestType
      <3>2. disturbed' \in BOOLEAN /\ (disturbed => disturbed')
        BY <1>1, <3>1, ReaderNoted DEF StartGrace
      <3> QED
        BY <1>1, <2>2, <3>1, <3>2, ReadOnly DEF StartGrace, IInv, TypeOK
    <2> QED
      BY <2>1, <2>2
  <1>2. CASE UpdateState(r)
    <2>1. Advance(r) /\ req'[r].pc = "idle" /\ due' \subseteq due
      BY <1>2, DoneAdvance
      DEF UpdateState, Answer, Done, IdleRequest, IInv, TypeOK, RequestType
    <2>2. /\ sub' \in SubType /\ Stored' /\ ~sub'.cancelled
          /\ sub'.of = Ev(r).plan /\ sub'.plan \in Plans
      <3>1. sub \in SubType /\ (Stored => sub.plan \in Plans)
        BY DEF IInv, TypeOK, DocumentSold
      <3>2. sub' = NewState(Ev(r))
        BY <1>2 DEF UpdateState
      <3>3. /\ sub'.plan = (IF Stored THEN sub.plan ELSE Ev(r).plan)
            /\ sub'.of = Ev(r).plan /\ sub'.status \in {"pending", "active"}
            /\ ~sub'.cancelled
        BY <3>1, <3>2 DEF NewState, SubType
      <3>4. sub' \in SubType
        BY <1>0, <3>1, <3>2 DEF NewState, SubType
      <3> QED
        BY <1>0, <3>1, <3>3, <3>4 DEF Stored
    <2>3. DocumentSold'
      BY <1>0, <1>2, <2>2 DEF UpdateState, DocumentSold
    <2>4. disturbed' \in BOOLEAN /\ (disturbed => disturbed')
      BY <1>2, <2>1, ReaderNoted DEF UpdateState
    <2> QED
      BY <1>2, <2>1, <2>2, <2>3, <2>4, StepInv DEF UpdateState, IInv, TypeOK
  <1>3. CASE UpdateMetadata(r)
    <2>1. Advance(r) /\ req'[r].pc = "tier"
      BY <1>0, <1>3, GotoAdvance
      DEF UpdateMetadata, Goto, PlainPCs, PCs, RequestPCs, IInv, TypeOK, RequestType
    <2>2. /\ sub' \in SubType /\ sub'.cancelled = sub.cancelled /\ sub'.of = sub.of
          /\ sub'.status = sub.status /\ sub'.reminded = sub.reminded
          /\ (Stored => sub'.plan = Ev(r).plan)
      BY <1>0, <1>3 DEF UpdateMetadata, IInv, TypeOK, SubType, Stored
    <2>3. DocumentSold' /\ (Stored => Stored')
      BY <1>0, <1>3, <2>2 DEF UpdateMetadata, DocumentSold, Stored, IInv
    <2>4. disturbed' \in BOOLEAN /\ (disturbed => disturbed')
      BY <1>3, <2>1, ReaderNoted DEF UpdateMetadata
    <2> QED
      BY <1>3, <2>1, <2>2, <2>3, <2>4, StepInv DEF UpdateMetadata, IInv, TypeOK
  <1>4. CASE CancelSubscription(r)
    <2>1. Advance(r) /\ req'[r].pc = "downgrade"
      <3>1. Goto(r, "downgrade") /\ req[r].pc = "cancel"
        BY <1>4 DEF CancelSubscription
      <3>2. Advance(r)
        BY <1>0, <3>1, GotoAdvance DEF PlainPCs, PCs, WebhookPCs, RequestPCs
      <3>3. req'[r] = [req[r] EXCEPT !.pc = "downgrade"] /\ req[r] \in RequestType
        BY <3>1 DEF Goto, IInv, TypeOK
      <3> QED
        BY <3>2, <3>3 DEF RequestType
    <2>2. /\ sub' \in SubType /\ sub'.of = sub.of /\ sub'.plan = sub.plan
          /\ sub'.reminded = sub.reminded /\ (Stored => Stored') /\ (Stored' => Stored)
          /\ (sub.cancelled => sub'.cancelled)
      BY <1>4 DEF CancelSubscription, IInv, TypeOK, SubType, Stored
    <2>3. DocumentSold'
      BY <1>4, <2>2 DEF CancelSubscription, DocumentSold, IInv
    <2>4. /\ disturbed' \in BOOLEAN /\ (disturbed => disturbed')
          /\ ~disturbed' => \A s \in Slots : req'[s].pc \notin {"details", "sync"}
      BY <1>4, <2>1, ReaderNoted DEF CancelSubscription
    <2> QED
      BY <1>4, <2>1, <2>2, <2>3, <2>4, StepInv DEF CancelSubscription, IInv, TypeOK
  <1> QED
    BY <1>1, <1>2, <1>3, <1>4

\* A webhook takes its key and a slot, or is known already.
LEMMA ReceiveInv ==
    ASSUME IInv, NEW r \in Slots, NEW w \in due, Receive(r, w)
    PROVE  IInv'
  <1> USE DEF provider, mongo, redis, history
  <1>1. CASE w \in answered
    <2>1. UNCHANGED <<psub, sessions, sent, sub, tier, hours, billed, answered, cache,
                      checkouts, req, job, reminders, turns, disturbed>> /\ due' \subseteq due
      BY <1>1 DEF Receive
    <2> USE <2>1 DEF IInv
    <2>2. TypeOK'
      BY DEF TypeOK
    <2>3. SlotsCoherent' /\ EventsSold' /\ DocumentSold' /\ RequestsSold'
      BY DEF SlotsCoherent, Coherent, EventsSold, DocumentSold, RequestsSold, Stored
    <2>4. WebhooksKeyed' /\ BilledByKey' /\ RemindersMarked'
      BY DEF WebhooksKeyed, BilledByKey, RemindersMarked, Webhook, Stored
    <2> QED
      BY <2>2, <2>3, <2>4
  <1>2. CASE w \notin answered
    <2> DEFINE q == [IdleRequest EXCEPT !.op = "webhook", !.w = w, !.pc = "invalidate"]
    <2>1. w \in Ids /\ w \in DOMAIN sent /\ w \in 0..MaxWebhooks
      BY BillingAssumption DEF IInv, TypeOK, Ids
    <2>2. /\ q \in RequestType /\ q.op = "webhook" /\ q.w = w /\ q.pc = "invalidate"
          /\ Coherent(q)
      BY <2>1 DEF IdleRequest, RequestType, PCs, Statuses, Coherent, RequestPCs
    <2>3. req' = [req EXCEPT ![r] = q] /\ answered' = answered \cup {w}
      BY <1>2 DEF Receive, IInv, TypeOK
    <2> HIDE DEF q
    <2>4. req'[r] = q /\ req' \in [Slots -> RequestType]
            /\ \A s \in Slots : s # r => req'[s] = req[s]
      BY <2>2, <2>3 DEF IInv, TypeOK
    <2>5. /\ UNCHANGED <<psub, sessions, sent, due, sub, tier, hours, billed, cache,
                         checkouts, job, reminders, turns>>
          /\ disturbed' \in BOOLEAN /\ (disturbed => disturbed')
      BY <1>2 DEF Receive, IInv, TypeOK
    <2> USE <2>5 DEF IInv
    <2>6. TypeOK'
      BY <2>1, <2>3, <2>4 DEF TypeOK
    <2>7. SlotsCoherent'
      BY <2>2, <2>4 DEF SlotsCoherent, Coherent
    <2>8. EventsSold' /\ DocumentSold' /\ RequestsSold'
      BY <2>2, <2>4 DEF EventsSold, DocumentSold, RequestsSold, Stored
    <2>9. WebhooksKeyed'
      BY <1>2, <2>2, <2>3, <2>4 DEF WebhooksKeyed, Webhook
    <2>10. BilledByKey'
      <3>1. billed[w] = 0
        BY <1>2, <2>1 DEF BilledByKey, TypeOK
      <3> QED
        BY <2>2, <2>3, <2>4, <3>1 DEF BilledByKey
    <2>11. RemindersMarked'
      BY <2>2, <2>4 DEF RemindersMarked, Stored, TypeOK
    <2> QED
      BY <2>6, <2>7, <2>8, <2>9, <2>10, <2>11
  <1> QED
    BY <1>1, <1>2
-----------------------------------------------------------------------------
(* The provider, the clock and the job *)

\* What the provider emits is about subscriptions it has sold.
LEMMA EmitTypes ==
    ASSUME IInv, NEW es \in Seq(Event), Emit(es),
           psub' \in [Plans -> Statuses], \A p \in Plans : psub[p] # "none" => psub'[p] # "none",
           \A i \in DOMAIN es : psub'[es[i].plan] # "none"
    PROVE  /\ sent' \in Seq(Event) /\ Len(sent') <= MaxWebhooks
           /\ due' \subseteq DOMAIN sent' /\ DOMAIN sent \subseteq DOMAIN sent'
           /\ EventsSold'
  <1>1. sent \in Seq(Event) /\ due \subseteq DOMAIN sent
    BY DEF IInv, TypeOK
  <1>2. sent' \in Seq(Event) /\ Len(sent') = Len(sent) + Len(es)
    BY <1>1 DEF Emit
  <1>3. Len(sent) \in Nat /\ Len(es) \in Nat /\ DOMAIN sent = 1..Len(sent)
          /\ DOMAIN sent' = 1..Len(sent')
    BY <1>1, <1>2
  <1>4. due' \subseteq DOMAIN sent' /\ DOMAIN sent \subseteq DOMAIN sent'
    BY <1>1, <1>2, <1>3 DEF Emit
  <1>5. ASSUME NEW w \in DOMAIN sent' PROVE psub'[sent'[w].plan] # "none"
    <2>1. CASE w \in DOMAIN sent
      <3>1. sent'[w] = sent[w] /\ sent[w] \in Event
        BY <1>1, <2>1 DEF Emit
      <3> QED
        BY <2>1, <3>1 DEF IInv, EventsSold, Event
    <2>2. CASE w \notin DOMAIN sent
      <3>1. w - Len(sent) \in DOMAIN es /\ sent'[w] = es[w - Len(sent)]
        BY <1>1, <1>2, <1>3, <2>2 DEF Emit
      <3> QED
        BY <3>1
    <2> QED
      BY <2>1, <2>2
  <1> QED
    BY <1>2, <1>4, <1>5 DEF Emit, EventsSold

\* Events of a plan.
LEMMA EventType ==
    ASSUME NEW t \in EventTypes, NEW p \in Plans
    PROVE  E(t, p) \in Event /\ E(t, p).plan = p
  BY DEF E, Event

\* The provider sells, renews and ends; the program's state stays.
LEMMA ProviderInv ==
    ASSUME IInv, NEW p \in Plans,
           Purchase(p) \/ Activate(p) \/ Renew(p) \/ PaymentFails(p) \/ EndSubscription(p)
    PROVE  IInv'
  <1>1. /\ UNCHANGED server /\ sessions' \subseteq Plans
        /\ psub' \in [Plans -> Statuses] /\ psub'[p] # "none"
        /\ \A q \in Plans : psub[q] # "none" => psub'[q] # "none"
    BY DEF Purchase, Activate, Renew, PaymentFails, EndSubscription, IInv, TypeOK, Statuses
  <1>2. PICK es \in Seq(Event) : Emit(es) /\ \A i \in DOMAIN es : es[i].plan = p
    <2>1. ASSUME NEW t \in EventTypes, Emit(<<E(t, p)>>)
          PROVE  \E es \in Seq(Event) : Emit(es) /\ \A i \in DOMAIN es : es[i].plan = p
      <3>1. <<E(t, p)>> \in Seq(Event) /\ \A i \in DOMAIN <<E(t, p)>> : <<E(t, p)>>[i].plan = p
        BY EventType
      <3> QED
        BY <2>1, <3>1
    <2>2. ASSUME NEW t \in EventTypes, NEW u \in EventTypes, Emit(<<E(t, p), E(u, p)>>)
          PROVE  \E es \in Seq(Event) : Emit(es) /\ \A i \in DOMAIN es : es[i].plan = p
      <3>1. /\ <<E(t, p), E(u, p)>> \in Seq(Event)
            /\ \A i \in DOMAIN <<E(t, p), E(u, p)>> : <<E(t, p), E(u, p)>>[i].plan = p
        BY EventType
      <3> QED
        BY <2>2, <3>1
    <2> QED
      BY <2>1, <2>2
      DEF Purchase, Activate, Renew, PaymentFails, EndSubscription, EventTypes
  <1>3. /\ sent' \in Seq(Event) /\ Len(sent') <= MaxWebhooks
        /\ due' \subseteq DOMAIN sent' /\ DOMAIN sent \subseteq DOMAIN sent' /\ EventsSold'
    BY <1>1, <1>2, EmitTypes
  <1> USE <1>1 DEF IInv, server, mongo, redis, history
  <1>4. TypeOK'
    BY <1>3 DEF TypeOK
  <1>5. SlotsCoherent' /\ DocumentSold'
    BY DEF SlotsCoherent, Coherent, DocumentSold, Stored
  <1>6. RequestsSold'
    BY DEF RequestsSold, Stored, SlotsCoherent, Coherent
  <1>7. WebhooksKeyed' /\ BilledByKey' /\ RemindersMarked'
    BY DEF WebhooksKeyed, BilledByKey, RemindersMarked, Webhook, Stored
  <1> QED
    BY <1>3, <1>4, <1>5, <1>6, <1>7

\* The host's cancellation makes the provider report an update.
LEMMA CancelAtProviderInv ==
    ASSUME IInv, NEW r \in Slots, CancelAtProvider(r)
    PROVE  IInv'
  <1> DEFINE p == req[r].plan
  <1>1. p \in Plans /\ psub[p] # "none" /\ req[r].op # "webhook"
    BY RequestFields
    DEF CancelAtProvider, At, Coherent, RequestPCs, IInv, RequestsSold
  <1>2. UNCHANGED <<psub, sessions, sub, tier, hours, billed, answered, cache, checkouts,
                    job, reminders, turns, disturbed>>
    BY DEF CancelAtProvider, mongo, redis, history
  <1>3. Advance(r)
    BY <1>1, DoneAdvance, GotoAdvance
    DEF CancelAtProvider, PlainPCs, PCs, WebhookPCs
  <1>4. /\ sent' \in Seq(Event) /\ Len(sent') <= MaxWebhooks
        /\ due' \subseteq DOMAIN sent' /\ DOMAIN sent \subseteq DOMAIN sent' /\ EventsSold'
    <2>1. CASE Emit(<<E("subscription.updated", p)>>)
      <3> DEFINE es == <<E("subscription.updated", p)>>
      <3>1. es \in Seq(Event) /\ \A i \in DOMAIN es : es[i].plan = p
        BY <1>1, EventType DEF EventTypes
      <3>2. psub' \in [Plans -> Statuses]
        BY <1>2 DEF IInv, TypeOK
      <3>3. \A i \in DOMAIN es : psub'[es[i].plan] # "none"
        BY <1>1, <1>2, <3>1
      <3> HIDE DEF es
      <3>4. Emit(es)
        BY <2>1 DEF es
      <3>5. \A q \in Plans : psub[q] # "none" => psub'[q] # "none"
        BY <1>2
      <3> QED
        BY <3>1, <3>2, <3>3, <3>4, <3>5, EmitTypes
    <2>2. CASE UNCHANGED <<sent, due>>
      BY <1>2, <2>2 DEF IInv, TypeOK, EventsSold
    <2> QED
      BY <2>1, <2>2 DEF CancelAtProvider
  <1>5. SlotsCoherent' /\ RequestsSold' /\ WebhooksKeyed' /\ BilledByKey'
    BY <1>2, <1>3, AdvanceInv DEF Stored
  <1> USE <1>2 DEF IInv
  <1>6. TypeOK'
    BY <1>3, <1>4 DEF TypeOK, Advance
  <1>7. DocumentSold' /\ RemindersMarked'
    BY <1>3 DEF DocumentSold, RemindersMarked, Stored, Advance
  <1> QED
    BY <1>4, <1>5, <1>6, <1>7

\* A step outside the slots keeps the invariant, if it leaves the documents of
\* who they are and the marks of the job in order.
LEMMA OutsideInv ==
    ASSUME IInv, UNCHANGED <<psub, sessions, sent, billed, answered, req, tier, hours>>,
           due' \subseteq due, checkouts' \subseteq Plans,
           cache' \in Plans \cup {Free, NoPlan},
           turns' \in 0..MaxTurns, disturbed' \in BOOLEAN,
           reminders' \in Nat, job' \in {"idle", "send", "mark"},
           sub' \in SubType, sub'.plan = sub.plan, sub'.of = sub.of, Stored' = Stored,
           RemindersMarked'
    PROVE  IInv'
  <1> USE DEF IInv
  <1>1. TypeOK'
    BY DEF TypeOK
  <1>2. SlotsCoherent' /\ EventsSold' /\ DocumentSold'
    BY DEF SlotsCoherent, Coherent, EventsSold, DocumentSold
  <1>3. RequestsSold' /\ WebhooksKeyed' /\ BilledByKey'
    BY DEF RequestsSold, WebhooksKeyed, BilledByKey, Webhook
  <1> QED
    BY <1>1, <1>2, <1>3

\* The clock: the end of a period nears, a grace period ends, keys expire.
LEMMA ClockInv ==
    ASSUME IInv,
           \/ GraceEnds \/ PeriodEndNears \/ CacheExpires
           \/ \E p \in Plans : CheckoutKeyExpires(p)
    PROVE  IInv'
  <1> USE DEF provider, mongo, redis, history
  <1>1. CASE GraceEnds
    <2>1. /\ sub' \in SubType /\ sub'.plan = sub.plan /\ sub'.of = sub.of
          /\ sub'.status = sub.status /\ sub'.cancelled = sub.cancelled
          /\ sub'.reminded = sub.reminded
      BY <1>1 DEF GraceEnds, IInv, TypeOK, SubType
    <2>2. RemindersMarked' /\ Stored' = Stored
      BY <1>1, <2>1 DEF GraceEnds, IInv, RemindersMarked, Stored
    <2> QED
      BY <1>1, <2>1, <2>2, OutsideInv DEF GraceEnds, IInv, TypeOK
  <1>2. CASE PeriodEndNears
    <2>1. /\ sub' \in SubType /\ sub'.plan = sub.plan /\ sub'.of = sub.of
          /\ sub'.status = sub.status /\ sub'.cancelled = sub.cancelled
          /\ sub'.reminded = sub.reminded
      BY <1>2 DEF PeriodEndNears, IInv, TypeOK, SubType
    <2>2. RemindersMarked' /\ Stored' = Stored
      BY <1>2, <2>1 DEF PeriodEndNears, IInv, RemindersMarked, Stored
    <2>3. turns' \in 0..MaxTurns
      BY <1>2, BillingAssumption DEF PeriodEndNears, Turn, IInv, TypeOK
    <2> QED
      BY <1>2, <2>1, <2>2, <2>3, OutsideInv DEF PeriodEndNears, IInv, TypeOK
  <1>3. CASE CacheExpires
    <2>1. RemindersMarked' /\ Stored' = Stored
      BY <1>3 DEF CacheExpires, IInv, RemindersMarked, Stored
    <2> QED
      BY <1>3, <2>1, OutsideInv DEF CacheExpires, IInv, TypeOK
  <1>4. ASSUME NEW p \in Plans, CheckoutKeyExpires(p) PROVE IInv'
    <2>1. RemindersMarked' /\ Stored' = Stored
      BY <1>4 DEF CheckoutKeyExpires, IInv, RemindersMarked, Stored
    <2>2. turns' \in 0..MaxTurns
      BY <1>4, BillingAssumption DEF CheckoutKeyExpires, Turn, IInv, TypeOK
    <2> QED
      BY <1>4, <2>1, <2>2, OutsideInv DEF CheckoutKeyExpires, IInv, TypeOK
  <1> QED
    BY <1>1, <1>2, <1>3, <1>4

\* The reminder job: what it finds is not reminded of, so nothing was sent; what
\* it has sent it marks, unless the document is cancelled.
LEMMA JobInv ==
    ASSUME IInv, Job
    PROVE  IInv'
  <1> USE DEF provider, mongo, redis, history
  <1>1. CASE FindExpiring
    <2>1. RemindersMarked' /\ Stored' = Stored
      BY <1>1 DEF FindExpiring, IInv, TypeOK, RemindersMarked, Stored
    <2> QED
      BY <1>1, <2>1, OutsideInv DEF FindExpiring, IInv, TypeOK
  <1>2. CASE SendReminder
    <2>1. RemindersMarked' /\ Stored' = Stored
      BY <1>2 DEF SendReminder, IInv, TypeOK, RemindersMarked, Stored
    <2> QED
      BY <1>2, <2>1, OutsideInv DEF SendReminder, IInv, TypeOK
  <1>3. CASE MarkReminded
    <2>1. /\ sub' \in SubType /\ sub'.plan = sub.plan /\ sub'.of = sub.of
          /\ sub'.status = sub.status /\ sub'.cancelled = sub.cancelled
          /\ Stored => sub'.reminded \/ sub'.cancelled
      BY <1>3 DEF MarkReminded, IInv, TypeOK, SubType
    <2>2. RemindersMarked' /\ Stored' = Stored
      BY <1>3, <2>1 DEF MarkReminded, IInv, RemindersMarked, Stored
    <2> QED
      BY <1>3, <2>1, <2>2, OutsideInv DEF MarkReminded, IInv, TypeOK
  <1> QED
    BY <1>1, <1>2, <1>3 DEF Job
-----------------------------------------------------------------------------
(* Failures *)

\* A failed command disturbs the period, and its handler goes on or gives up.
LEMMA FailureInv ==
    ASSUME IInv, Failure
    PROVE  IInv'
  <1> USE DEF provider, mongo, redis, history
  <1>0. ASSUME Fail PROVE turns' \in 0..MaxTurns /\ disturbed'
    BY <1>0, BillingAssumption DEF Fail, Turn, IInv, TypeOK
  <1>1. ASSUME NEW r \in Slots, WebhookCommandFails(r) PROVE IInv'
    <2>0. req[r].op = "webhook"
      BY <1>1 DEF WebhookCommandFails, Webhook
    <2> USE DEF At
    <2>1. Advance(r) /\ due' \subseteq due /\ tier' \in Plans \cup {Free}
      <3>1. CASE /\ req[r].pc \in {"upsert", "grace", "state", "metadata"}
                 /\ Done(r) /\ UNCHANGED <<tier, due>>
        BY <3>1, DoneAdvance DEF IInv, TypeOK
      <3>2. CASE /\ req[r].pc \in {"bill", "tier", "cancel", "downgrade"}
                 /\ Goto(r, NextOf[req[r].pc]) /\ UNCHANGED <<tier, due>>
        <4>1. NextOf[req[r].pc] \in {"upsert", "extend", "downgrade", "drop"}
          BY <3>2 DEF NextOf, PCs
        <4>2. Advance(r)
          BY <2>0, <3>2, <4>1, GotoAdvance DEF PlainPCs, PCs, RequestPCs
        <4> QED
          BY <3>2, <4>2 DEF IInv, TypeOK
      <3>3. CASE /\ At(r, "tier")
                 /\ IF Ev(r).type = "subscription.updated"
                    THEN Goto(r, "drop") /\ UNCHANGED <<tier, due>>
                    ELSE tier' = Free /\ Answer(r)
        BY <2>0, <3>3, DoneAdvance, GotoAdvance
        DEF Answer, PlainPCs, PCs, WebhookPCs, RequestPCs, IInv, TypeOK
      <3>4. CASE At(r, "drop") /\ Answer(r) /\ UNCHANGED tier
        BY <3>4, DoneAdvance DEF Answer, IInv, TypeOK
      <3>5. CASE At(r, "extend") /\ AfterExtend(r) /\ UNCHANGED tier
        BY <2>0, <3>5, DoneAdvance, GotoAdvance
        DEF AfterExtend, Answer, PlainPCs, PCs, WebhookPCs, RequestPCs, IInv, TypeOK
      <3>6. CASE At(r, "invalidate") /\ Dispatch(r) /\ UNCHANGED tier
        BY <3>6, DispatchInv DEF IInv, TypeOK
      <3> QED
        BY <1>1, <3>1, <3>2, <3>3, <3>4, <3>5, <3>6 DEF WebhookCommandFails
    <2> QED
      BY <1>0, <1>1, <2>1, ReadOnly DEF WebhookCommandFails, IInv, TypeOK
  <1>2. ASSUME NEW r \in Slots, RequestCommandFails(r) PROVE IInv'
    <2>0. req[r].op # "webhook" /\ ~Webhook(r) /\ req[r].pc \in PCs /\ req[r].pc \notin WebhookPCs
      BY <1>2, RequestFields DEF RequestCommandFails, Webhook, Coherent
    <2> USE DEF At
    <2>1. Advance(r)
      <3>1. CASE /\ At(r, "lookup")
                 /\ Goto(r, IF req[r].op = "trial" THEN "unlock" ELSE "session")
        <4>1. req[r].plan \in Plans
          BY <3>1, RequestFields DEF Coherent
        <4> QED
          BY <2>0, <3>1, <4>1, GotoAdvance DEF PlainPCs, PCs, WebhookPCs
      <3>2. CASE NoDocuments(r)
        BY <2>0, <3>2, DocumentAdvance
      <3>3. CASE /\ req[r].pc \notin {"lookup", "downgrade"}
                 /\ Goto(r, NextOf[req[r].pc]) /\ NextOf[req[r].pc] # "idle"
        <4>1. \/ NextOf[req[r].pc] \in {"downgrade", "drop"}
              \/ NextOf[req[r].pc] = "unlock" /\ req[r].pc = "session"
          BY <2>0, <3>3 DEF NextOf, PCs, WebhookPCs
        <4>2. req[r].pc = "session" => req[r].plan \in Plans
          BY RequestFields DEF Coherent
        <4> QED
          BY <2>0, <3>3, <4>1, <4>2, GotoAdvance
          DEF PlainPCs, PCs, WebhookPCs, RequestPCs
      <3> QED
        BY <1>2, <3>1, <3>2, <3>3, DoneAdvance DEF RequestCommandFails
    <2> QED
      BY <1>0, <1>2, <2>1, ReadOnly DEF RequestCommandFails, IInv, TypeOK
  <1>3. ASSUME NEW w \in due, ReceiveFails(w) PROVE IInv'
    <2>1. RemindersMarked' /\ Stored' = Stored
      BY <1>0, <1>3 DEF ReceiveFails, IInv, RemindersMarked, Stored
    <2> QED
      BY <1>0, <1>3, <2>1, OutsideInv DEF ReceiveFails, Fail, IInv, TypeOK
  <1>4. CASE JobFails
    <2>1. RemindersMarked' /\ Stored' = Stored
      BY <1>0, <1>4 DEF JobFails, IInv, RemindersMarked, Stored
    <2> QED
      BY <1>0, <1>4, <2>1, OutsideInv DEF JobFails, Fail, IInv, TypeOK
  <1> QED
    BY <1>1, <1>2, <1>3, <1>4 DEF Failure
-----------------------------------------------------------------------------
(* The theorems *)

\* Initially nothing is sent, billed or begun.
LEMMA InitInv == Init => IInv
  <1> SUFFICES ASSUME Init PROVE IInv
    OBVIOUS
  <1> USE DEF Init
  <1>1. IdleRequest \in RequestType
    BY BillingAssumption DEF IdleRequest, RequestType, PCs, Statuses
  <1>2. req \in [Slots -> RequestType] /\ \A r \in Slots : req[r] = IdleRequest
    BY <1>1
  <1>3. PICK p \in Plans \cup {NoPlan} :
          /\ psub = [q \in Plans |-> IF q = p THEN "active" ELSE "none"]
          /\ sub = IF p = NoPlan
                   THEN NoSub
                   ELSE [NoSub EXCEPT !.plan = p, !.of = p, !.status = "active"]
          /\ tier = IF p = NoPlan THEN Free ELSE p
          /\ hours = tier
    OBVIOUS
  <1>4. sub \in SubType /\ psub \in [Plans -> Statuses]
    BY <1>3 DEF SubType, NoSub, Statuses
  <1>5. tier \in Plans \cup {Free} /\ hours \in Plans \cup {Free}
    BY <1>3
  <1>6. sent = <<>> /\ sent \in Seq(Event) /\ Len(sent) = 0 /\ DOMAIN sent = {}
    OBVIOUS
  <1>7. TypeOK
    <2>1. billed \in [Ids -> Nat]
      OBVIOUS
    <2>2. turns \in 0..MaxTurns /\ Len(sent) <= MaxWebhooks
      BY <1>6, BillingAssumption
    <2>3. /\ sessions = {} /\ due = {} /\ answered = {} /\ checkouts = {}
          /\ cache = NoPlan /\ job = "idle" /\ reminders = 0 /\ disturbed = FALSE
      OBVIOUS
    <2> HIDE DEF Init
    <2> QED
      BY <1>2, <1>4, <1>5, <1>6, <2>1, <2>2, <2>3 DEF TypeOK
  <1>8. SlotsCoherent /\ RequestsSold /\ WebhooksKeyed
    BY <1>2 DEF SlotsCoherent, Coherent, RequestsSold, WebhooksKeyed, Webhook, IdleRequest,
                WebhookPCs, RequestPCs
  <1>9. EventsSold /\ BilledByKey /\ RemindersMarked
    BY <1>2, <1>6 DEF EventsSold, BilledByKey, RemindersMarked, IdleRequest
  <1>10. DocumentSold
    BY <1>3, BillingAssumption DEF DocumentSold, Stored, NoSub
  <1> QED
    BY <1>7, <1>8, <1>9, <1>10 DEF IInv

\* No step of the program or the provider breaks the inductive invariant.
LEMMA NextInv == IInv /\ [Next]_vars => IInv'
  <1> SUFFICES ASSUME IInv, [Next]_vars PROVE IInv'
    OBVIOUS
  <1>1. CASE Environment
    BY <1>1, ProviderInv, ClockInv DEF Environment
  <1>2. ASSUME NEW r \in Slots, Handler(r) PROVE IInv'
    BY <1>2, ReadInv, CheckoutInv, PaymentInv, StateInv, CancelAtProviderInv DEF Handler
  <1>3. ASSUME NEW r \in Slots, Start(r) PROVE IInv'
    BY <1>3, StartInv
  <1>4. ASSUME NEW w \in due, Deliver(w) PROVE IInv'
    BY <1>4, ReceiveInv DEF Deliver
  <1>5. CASE Job \/ CacheExpires \/ Failure
    BY <1>5, JobInv, ClockInv, FailureInv
  <1>6. CASE UNCHANGED vars
    <2> USE <1>6 DEF vars, provider, mongo, redis, history, IInv
    <2>1. TypeOK' /\ Stored' = Stored
      BY DEF TypeOK, Stored
    <2>2. RemindersMarked'
      BY <2>1 DEF RemindersMarked
    <2> QED
      BY <2>1, <2>2, OutsideInv DEF TypeOK
  <1> QED
    BY <1>1, <1>2, <1>3, <1>4, <1>5, <1>6 DEF Next

\* The inductive invariant holds in every state.
THEOREM Invariance == Spec => []IInv
  <1>1. Init => IInv
    BY InitInv
  <1>2. IInv /\ [Next]_vars => IInv'
    BY NextInv
  <1> QED
    BY <1>1, <1>2, PTL DEF Spec

\* Every variable keeps its type, the stored document and the requests that wait
\* at a command included.
THEOREM TypeCorrect == Spec => []TypeOK
  <1>1. IInv => TypeOK
    BY DEF IInv
  <1> QED
    BY <1>1, Invariance, PTL

\* HandleWebhook and HandlePaymentSucceeded: however often and in however many
\* slots a webhook is delivered, and whatever commands fail, the key taken with
\* SET NX makes one record of it at most.
THEOREM PaymentsBilledOnce == Spec => []BilledOnce
  <1>1. IInv => BilledOnce
    BY DEF IInv, BilledByKey, BilledOnce
  <1> QED
    BY <1>1, Invariance, PTL

\* RenewalReminderJob: while no command fails and no write crosses a reader, a
\* period is reminded of once, wherever the webhooks reset the mark.
THEOREM PeriodsRemindedOnce == Spec => []RemindedOnce
  <1>1. IInv => RemindedOnce
    BY DEF IInv, RemindersMarked, RemindedOnce
  <1> QED
    BY <1>1, Invariance, PTL
-----------------------------------------------------------------------------
(* What is stored follows what the provider reports *)

\* Between the two events of a payment the provider is `paying'.
Phases == Statuses \cup {"paying"}

\* The event of type t takes the provider's subscription from phase a to phase b.
Leads(a, t, b) ==
    \/ t = "payment.succeeded" /\ a # "paying" /\ b = "paying"
    \/ /\ t \in {"subscription.active", "subscription.renewed", "subscription.created"}
       /\ a = "paying" /\ b = "active"
    \/ t = "subscription.pending" /\ a # "paying" /\ b = "pending"
    \/ t = "payment.failed" /\ a = "active" /\ b = "on_hold"
    \/ t = "subscription.cancelled" /\ a \in {"active", "on_hold"} /\ b = "cancelled"
    \/ t = "subscription.updated" /\ a \in {"active", "on_hold"} /\ b = a

\* h is the history of the subscription, h[i] its phase after the i-th event.
History(h) ==
    /\ h \in [0..Len(sent) -> Phases]
    /\ \A i \in DOMAIN sent : Leads(h[i - 1], sent[i].type, h[i])
    /\ h[Len(sent)] \in Statuses
    /\ \A p \in Plans : psub[p] # "none" => psub[p] = h[Len(sent)]

\* The webhook in slot r has not written the document yet.
Unwritten(r) ==
    Webhook(r) /\ req[r].pc \in {"invalidate", "bill", "upsert", "grace", "state",
                                 "metadata", "cancel"}

\* The webhooks were processed in order, and the document has the first j of them.
InTurn(j) ==
    /\ j \in 0..Len(sent)
    /\ (\E r \in Slots : Unwritten(r)) => answered = 1..(j + 1)
    /\ (\A r \in Slots : ~Unwritten(r)) => answered = 1..j
    /\ \A r \in Slots : Webhook(r) => req[r].w = IF Unwritten(r) THEN j + 1 ELSE j
    /\ \A r, s \in Slots : Webhook(r) /\ Webhook(s) => r = s
    /\ DOMAIN sent \ answered \subseteq due

\* A webhook is at a command of its event.
Routed(r) ==
    Webhook(r) =>
        /\ req[r].pc # "idle"
        /\ req[r].pc \in {"bill", "grace", "state", "metadata", "cancel"}
             => Route[Ev(r).type] = req[r].pc
        /\ req[r].pc = "upsert" => Route[Ev(r).type] = "bill"
        /\ req[r].pc \in {"tier", "extend"} => Route[Ev(r).type] \in {"bill", "metadata"}
        /\ req[r].pc = "downgrade" => Route[Ev(r).type] = "cancel"

\* A request that is about to end the grace period has read an event that is still
\* the last; one that is about to store a status has read this or a later one.
ReaderBehind(r, h, j) ==
    ~Webhook(r) =>
        /\ req[r].pc \in {"expire", "downgrade"} => h[j] = "on_hold"
        /\ req[r].pc = "sync" => \E m \in j..Len(sent) : req[r].status = h[m]

\* The stored status s is right for phase a.
Fits(a, s) ==
    /\ a \in {"paying", "active"} => s = "active"
    /\ a = "on_hold" => s \in {"in_grace", "canceled", "on_hold"}

\* The document has phase h[j], but for the status, which may be of a later one.
DocumentAt(h, j) ==
    /\ Stored => psub[sub.plan] # "none"
    /\ h[j] # "none" => Stored
    /\ \E m \in j..Len(sent) : Fits(h[m], sub.status)
    /\ sub.status = "in_grace" => h[j] = "on_hold"
    /\ h[j] \in {"paying", "active"} => ~sub.cancelled
    /\ h[j] = "cancelled" => sub.cancelled

\* So have the tier and the queues, unless the webhook is about to write them.
Writes(l) == \E r \in Slots : Webhook(r) /\ req[r].pc = l
TierAt(h, j) ==
    /\ h[j] \in {"paying", "active"} =>
         /\ tier = sub.plan \/ Writes("tier")
         /\ hours = sub.plan \/ Writes("tier") \/ Writes("extend")
    /\ h[j] = "cancelled" => tier = Free \/ Writes("downgrade")

Follows(h, j) ==
    /\ History(h) /\ InTurn(j)
    /\ \A r \in Slots : Routed(r) /\ ReaderBehind(r, h, j)
    /\ DocumentAt(h, j) /\ TierAt(h, j)

SettleInv ==
    ~disturbed /\ OneSubscription =>
        \E h \in [0..Len(sent) -> Phases], j \in 0..Len(sent) : Follows(h, j)
-----------------------------------------------------------------------------
(* What the steps have in common *)

\* The events stay, g is a history of what is sent in the next state and goes on
\* from h.
Grown(g, h) ==
    /\ sent' \in Seq(Event) /\ DOMAIN sent \subseteq DOMAIN sent'
    /\ \A i \in DOMAIN sent : sent'[i] = sent[i]
    /\ \A i \in 0..Len(sent) : g[i] = h[i]
    /\ \A p \in Plans : psub[p] # "none" => psub'[p] # "none"
    /\ History(g)'

\* The slot s writes no event to the document, and goes where it may.
Proceeds(s, g, j) ==
    /\ Unwritten(s)' <=> Unwritten(s)
    /\ Webhook(s)' => Webhook(s) /\ req'[s].w = req[s].w
    /\ Routed(s)' /\ ReaderBehind(s, g, j)'

\* The slot r goes to the command l, or is freed; the others stay.
Moved(r, l) ==
    /\ \A s \in Slots : s # r => req'[s] = req[s]
    /\ req'[r].op = req[r].op /\ req'[r].w = req[r].w /\ req'[r].pc = l
Freed(r) ==
    /\ \A s \in Slots : s # r => req'[s] = req[s]
    /\ req'[r].op = "none" /\ req'[r].pc = "idle"

\* A slot whose command changes moves.
LEMMA GotoMoves ==
    ASSUME IInv, NEW r \in Slots, NEW l, Goto(r, l)
    PROVE  Moved(r, l) /\ req'[r].status = req[r].status
  <1>1. req[r] \in RequestType /\ req' = [req EXCEPT ![r] = [req[r] EXCEPT !.pc = l]]
    BY DEF Goto, IInv, TypeOK
  <1>2. req'[r] = [req[r] EXCEPT !.pc = l] /\ \A s \in Slots : s # r => req'[s] = req[s]
    BY <1>1 DEF IInv, TypeOK
  <1> QED
    BY <1>1, <1>2 DEF Moved, RequestType

\* A slot that is done is free.
LEMMA DoneFrees ==
    ASSUME IInv, NEW r \in Slots, Done(r)
    PROVE  Freed(r)
  <1>1. req'[r] = IdleRequest /\ \A s \in Slots : s # r => req'[s] = req[s]
    BY DEF Done, IInv, TypeOK
  <1> QED
    BY <1>1 DEF Freed, IdleRequest

\* What the position of the document says.
LEMMA Positions ==
    ASSUME IInv, NEW h, NEW j, Follows(h, j)
    PROVE  /\ j \in Nat /\ Len(sent) \in Nat /\ j <= Len(sent)
           /\ DOMAIN sent = 1..Len(sent) /\ sent \in Seq(Event)
           /\ h[j] \in Phases /\ h \in [0..Len(sent) -> Phases]
  BY DEF IInv, TypeOK, Follows, History, InTurn

\* If no event happens, the history stays.
LEMMA SameHistory ==
    ASSUME IInv, NEW h, NEW j, Follows(h, j), UNCHANGED <<psub, sent>>
    PROVE  Grown(h, h)
  BY DEF Grown, Follows, History, IInv, TypeOK

\* A slot that does not move proceeds.
LEMMA StillProceeds ==
    ASSUME IInv, NEW h, NEW j, Follows(h, j), NEW g, Grown(g, h),
           NEW s \in Slots, req'[s] = req[s]
    PROVE  Proceeds(s, g, j)
  <1>0. j \in Nat /\ Len(sent) \in Nat /\ j <= Len(sent) /\ DOMAIN sent = 1..Len(sent)
        /\ Len(sent') \in Nat /\ Len(sent) <= Len(sent')
    <2>1. Len(sent') \in Nat /\ DOMAIN sent' = 1..Len(sent')
      BY DEF Grown
    <2> QED
      BY <2>1, Positions DEF Grown
  <1>1. /\ Unwritten(s)' <=> Unwritten(s)
        /\ Webhook(s)' <=> Webhook(s)
    BY DEF Unwritten, Webhook
  <1>2. Routed(s)'
    <2>1. Webhook(s) => sent'[req[s].w] = sent[req[s].w]
      BY EventOfWebhook DEF Grown
    <2> QED
      BY <1>1, <2>1 DEF Follows, Routed, Ev
  <1>3. ReaderBehind(s, g, j)'
    <2>1. g[j] = h[j] /\ \A m \in j..Len(sent) : g[m] = h[m] /\ m \in j..Len(sent')
      BY <1>0 DEF Grown
    <2> QED
      BY <1>1, <2>1 DEF Follows, ReaderBehind
  <1> QED
    BY <1>1, <1>2, <1>3 DEF Proceeds

\* A step in which every slot proceeds, and no webhook is answered that has not
\* taken its key, keeps the position.
LEMMA StoryStays ==
    ASSUME IInv, NEW h, NEW j, Follows(h, j), NEW g, Grown(g, h),
           answered' = answered, DOMAIN sent' \ answered \subseteq due',
           \A s \in Slots : Proceeds(s, g, j), DocumentAt(g, j)', TierAt(g, j)'
    PROVE  Follows(g, j)'
  <1>0. j \in 0..Len(sent')
    <2>1. Len(sent') \in Nat /\ DOMAIN sent' = 1..Len(sent')
      BY DEF Grown
    <2> QED
      BY <2>1, Positions DEF Grown
  <1>1. InTurn(j)'
    BY <1>0 DEF InTurn, Follows, Proceeds
  <1> QED
    BY <1>1 DEF Follows, Grown, Proceeds

\* The document keeps its phase when its plan, status and mark stay.
LEMMA DocumentStays ==
    ASSUME IInv, NEW h, NEW j, Follows(h, j), NEW g, Grown(g, h),
           sub'.plan = sub.plan, sub'.status = sub.status, sub'.cancelled = sub.cancelled
    PROVE  DocumentAt(g, j)'
  <1>0. /\ Len(sent') \in Nat /\ Len(sent) <= Len(sent') /\ g[j] = h[j]
        /\ \A m \in j..Len(sent) : g[m] = h[m] /\ m \in j..Len(sent')
    <2>1. Len(sent') \in Nat /\ DOMAIN sent' = 1..Len(sent')
      BY DEF Grown
    <2>2. Len(sent) <= Len(sent')
      BY <2>1, Positions DEF Grown
    <2> QED
      BY <2>1, <2>2, Positions DEF Grown
  <1>1. Stored' = Stored
    BY DEF Stored
  <1>2. Stored => psub'[sub.plan] # "none"
    BY DEF IInv, DocumentSold, Follows, DocumentAt, Grown
  <1> QED
    BY <1>0, <1>1, <1>2 DEF Follows, DocumentAt

\* So do the tier and the queues, when the webhook is not past their commands.
LEMMA TierStays ==
    ASSUME IInv, NEW h, NEW j, Follows(h, j), NEW g, Grown(g, h),
           sub'.plan = sub.plan, UNCHANGED <<tier, hours>>,
           \A l \in {"tier", "extend", "downgrade"} : Writes(l) => Writes(l)'
    PROVE  TierAt(g, j)'
  <1>1. g[j] = h[j]
    BY Positions DEF Grown
  <1> QED
    BY <1>1 DEF Follows, TierAt

\* The steps of the request in slot r: the other slots stay, and r goes to a command
\* that asks nothing of the history, or is freed.
LEMMA RequestProceeds ==
    ASSUME IInv, NEW h, NEW j, Follows(h, j), NEW g, Grown(g, h), NEW r \in Slots,
           ~Webhook(r),
           \/ Freed(r)
           \/ \E l \in PCs \ {"expire", "downgrade", "sync"} : Moved(r, l)
    PROVE  \A s \in Slots : Proceeds(s, g, j)
  <1>1. \A s \in Slots : s # r => req'[s] = req[s]
    BY DEF Freed, Moved
  <1>2. ~Webhook(r)' /\ req'[r].pc \notin {"expire", "downgrade", "sync"}
    BY DEF Freed, Moved, Webhook
  <1>3. Proceeds(r, g, j)
    BY <1>2 DEF Proceeds, Unwritten, Routed, ReaderBehind
  <1> QED
    BY <1>1, <1>3, StillProceeds

\* A webhook that has its event written, or has not, and goes on.
LEMMA WebhookProceeds ==
    ASSUME IInv, NEW h, NEW j, Follows(h, j), UNCHANGED <<psub, sent>>, NEW r \in Slots,
           Webhook(r),
           \/ Freed(r) /\ ~Unwritten(r)
           \/ \E l \in PCs : Moved(r, l) /\ (Unwritten(r)' <=> Unwritten(r)) /\ Routed(r)'
    PROVE  \A s \in Slots : Proceeds(s, h, j)
  <1>1. \A s \in Slots : s # r => req'[s] = req[s]
    BY DEF Freed, Moved
  <1>2. Proceeds(r, h, j)
    <2>1. CASE Freed(r) /\ ~Unwritten(r)
      BY <2>1 DEF Freed, Proceeds, Unwritten, Webhook, Routed, ReaderBehind
    <2>2. ASSUME NEW l \in PCs, Moved(r, l), Unwritten(r)' <=> Unwritten(r), Routed(r)'
          PROVE  Proceeds(r, h, j)
      BY <2>2 DEF Moved, Proceeds, Webhook, ReaderBehind
    <2> QED
      BY <2>1, <2>2
  <1> QED
    BY <1>1, <1>2, SameHistory, StillProceeds

\* The webhooks that write the tier, or the queues, do not stop when a request moves.
LEMMA WritersStay ==
    ASSUME NEW r \in Slots, ~Webhook(r), \A s \in Slots : s # r => req'[s] = req[s]
    PROVE  \A l : Writes(l) => Writes(l)'
  BY DEF Writes, Webhook

\* There is no other webhook.
LEMMA LoneWebhook ==
    ASSUME IInv, NEW h, NEW j, Follows(h, j), NEW r \in Slots, Webhook(r)
    PROVE  \A l : Writes(l) => req[r].pc = l
  BY DEF Follows, InTurn, Writes

\* The provider has had one subscription, to the plan of every event and document.
LEMMA OnePlan ==
    ASSUME IInv, OneSubscription, NEW h, NEW j, Follows(h, j), NEW r \in Slots, Webhook(r),
           Stored
    PROVE  sub.plan = Ev(r).plan
  <1>1. Ev(r).plan \in Plans /\ psub[Ev(r).plan] # "none"
    BY EventOfWebhook
  <1>2. sub.plan \in Plans /\ psub[sub.plan] # "none"
    BY DEF IInv, DocumentSold, Follows, DocumentAt
  <1> QED
    BY <1>1, <1>2 DEF OneSubscription

\* The event of a webhook that has written it is the j-th; of one that has not, the
\* next.
LEMMA EventAt ==
    ASSUME IInv, NEW h, NEW j, Follows(h, j), NEW r \in Slots, Webhook(r)
    PROVE  /\ ~Unwritten(r) => j \in DOMAIN sent /\ Leads(h[j - 1], Ev(r).type, h[j])
           /\ Unwritten(r) => j + 1 \in DOMAIN sent /\ Leads(h[j], Ev(r).type, h[j + 1])
  <1>1. req[r].w \in DOMAIN sent /\ Leads(h[req[r].w - 1], Ev(r).type, h[req[r].w])
    BY EventOfWebhook DEF Follows, History, Ev
  <1>2. req[r].w = IF Unwritten(r) THEN j + 1 ELSE j
    BY DEF Follows, InTurn
  <1>3. j \in Nat /\ (j + 1) - 1 = j
    BY Positions
  <1> QED
    BY <1>1, <1>2, <1>3

\* The types of the events that are at a command.
LEMMA RouteOf ==
    ASSUME NEW t \in EventTypes
    PROVE  /\ Route[t] = "bill" <=> t = "payment.succeeded"
           /\ Route[t] = "grace" <=> t = "payment.failed"
           /\ Route[t] = "state" <=> t \in {"subscription.active", "subscription.renewed",
                                            "subscription.pending"}
           /\ Route[t] = "metadata" <=> t = "subscription.updated"
           /\ Route[t] = "cancel" <=> t = "subscription.cancelled"
           /\ Route[t] = "done" <=> t = "subscription.created"
  BY DEF Route, EventTypes

\* What is due, when a slot is freed: a webhook that is answered has its key.
LEMMA AnswerKeeps ==
    ASSUME IInv, NEW h, NEW j, Follows(h, j), NEW r \in Slots, Webhook(r),
           due' = due \ {req[r].w} \/ due' = due
    PROVE  DOMAIN sent \ answered \subseteq due'
  BY DEF IInv, WebhooksKeyed, Follows, InTurn

-----------------------------------------------------------------------------
(* The requests of the host *)

\* A step of a request that changes neither the document nor the tier.
LEMMA QuietRequest ==
    ASSUME IInv, NEW h, NEW j, Follows(h, j), NEW r \in Slots, ~Webhook(r),
           UNCHANGED <<psub, sent, due, answered, sub, tier, hours>>,
           \A s \in Slots : s # r => req'[s] = req[s],
           \A s \in Slots : Proceeds(s, h, j)
    PROVE  Follows(h, j)'
  <1>1. Grown(h, h)
    BY SameHistory
  <1>2. DocumentAt(h, j)' /\ TierAt(h, j)'
    BY <1>1, DocumentStays, TierStays, WritersStay
  <1>3. DOMAIN sent' \ answered \subseteq due'
    BY DEF Follows, InTurn
  <1> QED
    BY <1>1, <1>2, <1>3, StoryStays

\* Where a request goes on without a document.
LEMMA NoDocumentsMoves ==
    ASSUME IInv, NEW r \in Slots, NoDocuments(r)
    PROVE  Freed(r) \/ Moved(r, "fill")
  <1>1. CASE Done(r)
    BY <1>1, DoneFrees
  <1>2. CASE req' = [req EXCEPT ![r].plan = Free, ![r].pc = "fill"]
    <2>1. req[r] \in RequestType /\ req \in [Slots -> RequestType]
      BY DEF IInv, TypeOK
    <2>2. req'[r] = [req[r] EXCEPT !.plan = Free, !.pc = "fill"]
          /\ \A s \in Slots : s # r => req'[s] = req[s]
      BY <1>2, <2>1
    <2> QED
      BY <2>1, <2>2 DEF Moved, RequestType
  <1> QED
    BY <1>1, <1>2 DEF NoDocuments

\* And with one.
LEMMA WithDocumentMoves ==
    ASSUME IInv, NEW r \in Slots, WithDocument(r)
    PROVE  Freed(r) \/ \E l \in {"fill", "details", "cancelAtProvider"} : Moved(r, l)
  <1>1. CASE Done(r)
    BY <1>1, DoneFrees
  <1>2. ASSUME NEW p, NEW l, req' = [req EXCEPT ![r].plan = p, ![r].pc = l]
        PROVE  Moved(r, l)
    <2>1. req[r] \in RequestType /\ req \in [Slots -> RequestType]
      BY DEF IInv, TypeOK
    <2>2. req'[r] = [req[r] EXCEPT !.plan = p, !.pc = l]
          /\ \A s \in Slots : s # r => req'[s] = req[s]
      BY <1>2, <2>1
    <2> QED
      BY <2>1, <2>2 DEF Moved, RequestType
  <1> QED
    BY <1>1, <1>2 DEF WithDocument

\* A request reads the document, or the provider's word for it.
LEMMA ReadFollows ==
    ASSUME IInv, NEW h, NEW j, Follows(h, j), OneSubscription, NEW r \in Slots,
           FindSubscription(r) \/ ReadDetails(r)
    PROVE  Follows(h, j)'
  <1> USE DEF At, provider, mongo, redis, history
  <1>0. ~Webhook(r) /\ Grown(h, h)
    BY RequestFields, SameHistory
    DEF FindSubscription, ReadDetails, Coherent, RequestPCs, Webhook
  <1>1. CASE FindSubscription(r)
    <2>1. CASE NoDocuments(r) \/ WithDocument(r)
      <3>1. Freed(r) \/ \E l \in {"fill", "details", "cancelAtProvider"} : Moved(r, l)
        BY <2>1, NoDocumentsMoves, WithDocumentMoves
      <3>2. \A s \in Slots : Proceeds(s, h, j)
        BY <1>0, <3>1, RequestProceeds DEF PCs
      <3>3. \A s \in Slots : s # r => req'[s] = req[s]
        BY <3>1 DEF Freed, Moved
      <3> QED
        BY <1>0, <1>1, <3>2, <3>3, QuietRequest DEF FindSubscription
    <2>2. CASE GraceIsOver /\ Goto(r, "expire")
      <3>1. h[j] = "on_hold"
        BY <2>2 DEF GraceIsOver, Follows, DocumentAt
      <3>2. Moved(r, "expire")
        BY <2>2, GotoMoves
      <3>3. Proceeds(r, h, j)
        BY <1>0, <3>1, <3>2 DEF Moved, Proceeds, Unwritten, Webhook, Routed, ReaderBehind
      <3>4. \A s \in Slots : s # r => req'[s] = req[s]
        BY <3>2 DEF Moved
      <3> QED
        BY <1>0, <1>1, <3>3, <3>4, StillProceeds, QuietRequest DEF FindSubscription
    <2> QED
      BY <1>1, <2>1, <2>2 DEF FindSubscription
  <1>2. CASE ReadDetails(r)
    <2>1. /\ req[r] \in RequestType /\ req \in [Slots -> RequestType]
          /\ req[r].plan \in Plans /\ psub[req[r].plan] # "none"
      BY <1>2, RequestFields DEF ReadDetails, Coherent, IInv, TypeOK, RequestsSold
    <2>2. psub[req[r].plan] = h[Len(sent)]
      BY <2>1 DEF Follows, History
    <2>3. /\ req'[r] = [req[r] EXCEPT !.status = psub[req[r].plan], !.pc = "sync"]
          /\ \A s \in Slots : s # r => req'[s] = req[s]
      BY <1>2, <2>1 DEF ReadDetails
    <2>4. req'[r].op = req[r].op /\ req'[r].pc = "sync" /\ req'[r].status = h[Len(sent)]
      BY <2>1, <2>2, <2>3 DEF RequestType
    <2>5. UNCHANGED <<sent, psub>> /\ Len(sent) \in j..Len(sent)
      BY <1>2, Positions DEF ReadDetails
    <2>6. Proceeds(r, h, j)
      BY <1>0, <2>4, <2>5 DEF Proceeds, Unwritten, Webhook, Routed, ReaderBehind
    <2> QED
      BY <1>0, <1>2, <2>3, <2>6, StillProceeds, QuietRequest DEF ReadDetails
  <1> QED
    BY <1>1, <1>2

\* A request ends the grace period, and takes the tier: a subscription is on hold.
LEMMA ExpireFollows ==
    ASSUME IInv, NEW h, NEW j, Follows(h, j), NEW r \in Slots, ExpireGrace(r)
    PROVE  Follows(h, j)'
  <1> USE DEF At, provider, mongo, redis, history
  <1>0. /\ ~Webhook(r) /\ Grown(h, h) /\ h[j] = "on_hold" /\ Stored
        /\ UNCHANGED <<psub, sent, due, answered, tier, hours>>
    BY RequestFields, SameHistory
    DEF ExpireGrace, Coherent, RequestPCs, Webhook, Follows, ReaderBehind, IInv, RequestsSold
  <1>1. Moved(r, "downgrade")
    BY GotoMoves DEF ExpireGrace
  <1>2. Proceeds(r, h, j)
    BY <1>0, <1>1 DEF Moved, Proceeds, Unwritten, Webhook, Routed, ReaderBehind
  <1>3. \A s \in Slots : Proceeds(s, h, j)
    BY <1>0, <1>1, <1>2, StillProceeds DEF Moved
  <1>4. /\ sub'.plan = sub.plan /\ sub'.status = "canceled" /\ sub'.cancelled
    BY DEF ExpireGrace, IInv, TypeOK, SubType
  <1>5. DocumentAt(h, j)'
    <2>1. j \in j..Len(sent) /\ Fits(h[j], "canceled")
      BY <1>0, Positions DEF Fits
    <2>2. Stored' /\ psub[sub.plan] # "none"
      BY <1>0, <1>4 DEF Stored, Follows, DocumentAt
    <2> QED
      BY <1>0, <1>4, <2>1, <2>2 DEF DocumentAt
  <1>6. TierAt(h, j)'
    BY <1>0 DEF TierAt
  <1>7. DOMAIN sent' \ answered \subseteq due' /\ answered' = answered
    BY <1>0 DEF Follows, InTurn
  <1> QED
    BY <1>0, <1>3, <1>5, <1>6, <1>7, StoryStays

\* The tier becomes free: by a request that ended the grace period, or when the
\* subscription is cancelled.
LEMMA DowngradeFollows ==
    ASSUME IInv, NEW h, NEW j, Follows(h, j), NEW r \in Slots, Downgrade(r)
    PROVE  Follows(h, j)'
  <1> USE DEF At, provider, mongo, redis, history
  <1>0. /\ Grown(h, h) /\ req[r].pc = "downgrade"
        /\ UNCHANGED <<psub, sent, due, answered, sub, hours>> /\ tier' = Free
    BY SameHistory DEF Downgrade
  <1>1. DocumentAt(h, j)'
    BY <1>0, DocumentStays
  <1>2. DOMAIN sent' \ answered \subseteq due' /\ answered' = answered
    BY <1>0 DEF Follows, InTurn
  <1>3. CASE Webhook(r)
    <2>1. h[j] = "cancelled"
      <3>1. ~Unwritten(r) /\ Ev(r).type \in EventTypes /\ Route[Ev(r).type] = "cancel"
        BY <1>0, <1>3, EventOfWebhook DEF Unwritten, Follows, Routed
      <3> QED
        BY <1>3, <3>1, EventAt, RouteOf DEF Leads
    <2>2. Moved(r, "drop")
      BY <1>3, GotoMoves DEF Downgrade
    <2>3. \A s \in Slots : Proceeds(s, h, j)
      <3>1. ~Unwritten(r)' /\ ~Unwritten(r) /\ Routed(r)'
        BY <1>0, <2>2 DEF Moved, Unwritten, Routed
      <3> QED
        BY <1>0, <1>3, <2>2, <3>1, WebhookProceeds DEF PCs
    <2>4. TierAt(h, j)'
      BY <1>0, <2>1 DEF TierAt
    <2> QED
      BY <1>0, <1>1, <1>2, <2>3, <2>4, StoryStays
  <1>4. CASE ~Webhook(r)
    <2>1. h[j] = "on_hold"
      BY <1>0, <1>4 DEF Follows, ReaderBehind
    <2>2. \A s \in Slots : Proceeds(s, h, j)
      <3>1. Freed(r) \/ Moved(r, "fill")
        BY <1>4, NoDocumentsMoves DEF Downgrade
      <3> QED
        BY <1>0, <1>4, <3>1, RequestProceeds DEF PCs
    <2>3. TierAt(h, j)'
      BY <2>1 DEF TierAt
    <2> QED
      BY <1>0, <1>1, <1>2, <2>2, <2>3, StoryStays
  <1> QED
    BY <1>3, <1>4

\* The provider's word is that of the last event that was sent when it was asked, and
\* the document is not cancelled since.
LEMMA SyncFollows ==
    ASSUME IInv, NEW h, NEW j, Follows(h, j), ~disturbed, NEW r \in Slots, SyncDetails(r)
    PROVE  Follows(h, j)'
  <1> USE DEF At, provider, mongo, redis, history
  <1>0. /\ ~Webhook(r) /\ Grown(h, h) /\ Stored /\ ~sub.cancelled
        /\ req[r].status \in Statuses /\ req[r].status # "none"
        /\ UNCHANGED <<psub, sent, due, answered, tier, hours>>
    BY RequestFields, SameHistory
    DEF SyncDetails, Coherent, RequestPCs, Webhook, IInv, RequestsSold, RemindersMarked
  <1>1. PICK m \in j..Len(sent) : req[r].status = h[m]
    BY <1>0 DEF SyncDetails, Follows, ReaderBehind
  <1>2. Freed(r)
    BY DoneFrees DEF SyncDetails
  <1>3. \A s \in Slots : Proceeds(s, h, j)
    BY <1>0, <1>2, RequestProceeds
  <1>4. /\ sub'.plan = sub.plan /\ sub'.status = req[r].status /\ ~sub'.cancelled
    BY DEF SyncDetails, IInv, TypeOK, SubType
  <1>5. DocumentAt(h, j)'
    <2>1. Fits(h[m], req[r].status)
      BY <1>0, <1>1 DEF Fits, Statuses
    <2>2. Stored' /\ psub[sub.plan] # "none" /\ sub'.status # "in_grace"
      BY <1>0, <1>4 DEF Stored, Follows, DocumentAt, Statuses
    <2>3. h[j] # "cancelled"
      BY <1>0 DEF Follows, DocumentAt
    <2> QED
      BY <1>0, <1>4, <2>1, <2>2, <2>3 DEF DocumentAt
  <1>6. TierAt(h, j)'
    BY <1>0, <1>2, <1>4, TierStays, WritersStay DEF Freed
  <1>7. DOMAIN sent' \ answered \subseteq due' /\ answered' = answered
    BY <1>0 DEF Follows, InTurn
  <1> QED
    BY <1>0, <1>3, <1>5, <1>6, <1>7, StoryStays

\* The requests that do not touch what the webhooks write.
LEMMA RequestFollows ==
    ASSUME IInv, NEW h, NEW j, Follows(h, j), NEW r \in Slots,
           \/ FillCache(r) \/ LookupSubscription(r) \/ CreateSession(r)
           \/ ReleaseCheckout(r) \/ Start(r)
    PROVE  Follows(h, j)'
  <1> USE DEF At, provider, mongo, redis, history
  <1>1. CASE FillCache(r) \/ LookupSubscription(r) \/ CreateSession(r) \/ ReleaseCheckout(r)
    <2>1. ~Webhook(r)
      BY <1>1, RequestFields
      DEF FillCache, LookupSubscription, CreateSession, ReleaseCheckout, Coherent,
          RequestPCs, Webhook
    <2>2. Freed(r) \/ \E l \in {"unlock", "session"} : Moved(r, l)
      BY <1>1, GotoMoves, DoneFrees
      DEF FillCache, LookupSubscription, CreateSession, ReleaseCheckout
    <2>3. UNCHANGED <<psub, sent, due, answered, sub, tier, hours>>
      BY <1>1 DEF FillCache, LookupSubscription, CreateSession, ReleaseCheckout
    <2>4. \A s \in Slots : Proceeds(s, h, j)
      BY <2>1, <2>2, <2>3, SameHistory, RequestProceeds DEF PCs
    <2>5. \A s \in Slots : s # r => req'[s] = req[s]
      BY <2>2 DEF Freed, Moved
    <2> QED
      BY <2>1, <2>3, <2>4, <2>5, QuietRequest
  <1>2. CASE Start(r)
    <2>1. PICK o, l, q : Begin(r, o, l, q) /\ l \in {"find", "lookup"}
      BY <1>2 DEF Start, StartPlan, StartSubscription, StartCancel, StartCheckout
    <2>2. UNCHANGED <<psub, sent, due, answered, sub, tier, hours>>
      BY <1>2 DEF Start, StartPlan, StartSubscription, StartCancel, StartCheckout
    <2>3. ~Webhook(r)
      BY <2>1 DEF Begin, Follows, Routed
    <2>4. req'[r] = [IdleRequest EXCEPT !.op = o, !.pc = l, !.plan = q]
          /\ \A s \in Slots : s # r => req'[s] = req[s]
      BY <2>1 DEF Begin, IInv, TypeOK
    <2>5. req'[r].op = o /\ req'[r].pc = l /\ o # "webhook"
      <3>1. o \in AllOps
        BY <2>1, BillingAssumption DEF Begin
      <3>2. o # "webhook"
        BY <3>1 DEF AllOps
      <3>3. req'[r].op = o /\ req'[r].pc = l
        BY <2>4 DEF IdleRequest
      <3> QED
        BY <3>2, <3>3
    <2>6. Proceeds(r, h, j)
      BY <2>1, <2>3, <2>5 DEF Proceeds, Unwritten, Webhook, Routed, ReaderBehind
    <2> QED
      BY <2>2, <2>3, <2>4, <2>6, SameHistory, StillProceeds, QuietRequest
  <1> QED
    BY <1>1, <1>2

\* The host's cancellation is marked, the plan dropped, a record made: the phase stays.
LEMMA MarkFollows ==
    ASSUME IInv, NEW h, NEW j, Follows(h, j), NEW r \in Slots,
           MarkAtEnd(r) \/ DropCache(r) \/ InsertRecord(r)
    PROVE  Follows(h, j)'
  <1> USE DEF At, provider, mongo, redis, history
  <1>0. /\ Grown(h, h) /\ UNCHANGED <<psub, sent, answered, tier, hours>>
    BY SameHistory DEF MarkAtEnd, DropCache, InsertRecord
  <1>1. CASE MarkAtEnd(r)
    <2>1. ~Webhook(r) /\ Moved(r, "drop")
      BY <1>1, RequestFields, GotoMoves DEF MarkAtEnd, Coherent, RequestPCs, Webhook
    <2>2. \A s \in Slots : Proceeds(s, h, j)
      BY <1>0, <2>1, RequestProceeds DEF PCs
    <2>3. sub'.plan = sub.plan /\ sub'.status = sub.status /\ sub'.cancelled = sub.cancelled
      BY <1>1 DEF MarkAtEnd, IInv, TypeOK, SubType
    <2>4. DocumentAt(h, j)' /\ TierAt(h, j)'
      BY <1>0, <2>1, <2>3, DocumentStays, TierStays, WritersStay DEF Moved
    <2>5. DOMAIN sent' \ answered \subseteq due'
      BY <1>0, <1>1 DEF MarkAtEnd, Follows, InTurn
    <2> QED
      BY <1>0, <2>2, <2>4, <2>5, StoryStays
  <1>2. CASE DropCache(r)
    <2>1. Freed(r) /\ UNCHANGED sub
      BY <1>2, DoneFrees DEF DropCache, Answer
    <2>2. \A s \in Slots : Proceeds(s, h, j)
      BY <1>0, <1>2, <2>1, RequestProceeds, WebhookProceeds DEF DropCache, Unwritten
    <2>3. \A l \in {"tier", "extend", "downgrade"} : Writes(l) => Writes(l)'
      BY <1>2, <2>1 DEF DropCache, Freed, Writes, Webhook
    <2>4. DocumentAt(h, j)' /\ TierAt(h, j)'
      BY <1>0, <2>1, <2>3, DocumentStays, TierStays
    <2>5. DOMAIN sent' \ answered \subseteq due'
      <3>1. CASE Webhook(r)
        BY <1>0, <1>2, <3>1, AnswerKeeps DEF DropCache, Answer
      <3>2. CASE ~Webhook(r)
        BY <1>0, <1>2, <3>2 DEF DropCache, Follows, InTurn
      <3> QED
        BY <3>1, <3>2
    <2> QED
      BY <1>0, <2>2, <2>4, <2>5, StoryStays
  <1>3. CASE InsertRecord(r)
    <2>1. Webhook(r) /\ Moved(r, "upsert") /\ UNCHANGED <<sub, due>>
      BY <1>3, RequestFields, GotoMoves DEF InsertRecord, Coherent, WebhookPCs, Webhook
    <2>2. Unwritten(r) /\ Unwritten(r)' /\ Routed(r)'
      <3>1. Route[Ev(r).type] = "bill" /\ Ev(r)' = Ev(r)
        BY <1>0, <1>3, <2>1 DEF InsertRecord, Follows, Routed, Ev, Moved
      <3> QED
        BY <1>3, <2>1, <3>1 DEF InsertRecord, Moved, Unwritten, Webhook, Routed
    <2>3. \A s \in Slots : Proceeds(s, h, j)
      BY <1>0, <2>1, <2>2, WebhookProceeds DEF PCs
    <2>4. \A l \in {"tier", "extend", "downgrade"} : Writes(l) => Writes(l)'
      BY <1>3, <2>1 DEF InsertRecord, Moved, Writes, Webhook
    <2>5. DocumentAt(h, j)' /\ TierAt(h, j)'
      BY <1>0, <2>1, <2>4, DocumentStays, TierStays
    <2>6. DOMAIN sent' \ answered \subseteq due'
      BY <1>0, <2>1, AnswerKeeps
    <2> QED
      BY <1>0, <2>3, <2>5, <2>6, StoryStays
  <1> QED
    BY <1>1, <1>2, <1>3
-----------------------------------------------------------------------------
(* Webhooks *)

\* The webhook of a payment or an update has written the document, and writes the
\* tier; then the queues.
LEMMA TierFollows ==
    ASSUME IInv, NEW h, NEW j, Follows(h, j), OneSubscription, NEW r \in Slots,
           SetTier(r) \/ ExtendQueues(r)
    PROVE  Follows(h, j)'
  <1> USE DEF At, provider, mongo, redis, history
  <1>0. /\ Webhook(r) /\ ~Unwritten(r) /\ Grown(h, h)
        /\ UNCHANGED <<psub, sent, answered, sub>> /\ req[r].pc \in {"tier", "extend"}
    BY RequestFields, SameHistory
    DEF SetTier, ExtendQueues, Coherent, WebhookPCs, Webhook, Unwritten
  <1>2. h[j] # "cancelled" /\ Stored /\ sub.plan = Ev(r).plan
    <2>1. Ev(r).type \in EventTypes /\ Route[Ev(r).type] \in {"bill", "metadata"}
      BY <1>0, EventOfWebhook DEF Follows, Routed
    <2>2. h[j] \in {"paying", "active", "on_hold"}
      BY <1>0, <2>1, EventAt, RouteOf DEF Leads
    <2>3. Stored
      BY <2>2 DEF Follows, DocumentAt
    <2> QED
      BY <1>0, <2>2, <2>3, OnePlan
  <1>3. DocumentAt(h, j)'
    BY <1>0, DocumentStays
  <1>4. CASE SetTier(r)
    <2>1. Moved(r, "extend") /\ UNCHANGED <<due, hours>> /\ tier' = Ev(r).plan
      BY <1>4, GotoMoves DEF SetTier
    <2>2. ~Unwritten(r)' /\ Routed(r)' /\ Webhook(r)'
      <3>1. Ev(r)' = Ev(r) /\ Route[Ev(r).type] \in {"bill", "metadata"}
        BY <1>0, <2>1 DEF Follows, Routed, Ev, Moved
      <3> QED
        BY <1>0, <2>1, <3>1 DEF Moved, Unwritten, Webhook, Routed
    <2>3. \A s \in Slots : Proceeds(s, h, j)
      BY <1>0, <2>1, <2>2, WebhookProceeds DEF PCs
    <2>4. Writes("extend")'
      BY <2>1, <2>2 DEF Writes, Moved
    <2>5. TierAt(h, j)'
      BY <1>0, <1>2, <2>1, <2>4 DEF TierAt
    <2>6. DOMAIN sent' \ answered \subseteq due'
      BY <1>0, <2>1, AnswerKeeps
    <2> QED
      BY <1>0, <1>3, <2>3, <2>5, <2>6, StoryStays
  <1>5. CASE ExtendQueues(r)
    <2>1. /\ Freed(r) \/ Moved(r, "drop")
          /\ due' = due \ {req[r].w} \/ due' = due
          /\ hours' = Ev(r).plan /\ UNCHANGED tier /\ req[r].pc = "extend"
      BY <1>5, GotoMoves, DoneFrees DEF ExtendQueues, AfterExtend, Answer
    <2>2. \A s \in Slots : Proceeds(s, h, j)
      <3>1. Moved(r, "drop") => ~Unwritten(r)' /\ Routed(r)'
        BY DEF Moved, Unwritten, Routed
      <3> QED
        BY <1>0, <2>1, <3>1, WebhookProceeds DEF PCs
    <2>3. ~Writes("tier")
      BY <1>0, <2>1, LoneWebhook
    <2>4. TierAt(h, j)'
      BY <1>0, <1>2, <2>1, <2>3 DEF TierAt, Follows
    <2>5. DOMAIN sent' \ answered \subseteq due'
      BY <1>0, <2>1, AnswerKeeps
    <2> QED
      BY <1>0, <1>3, <2>2, <2>4, <2>5, StoryStays
  <1> QED
    BY <1>4, <1>5

\* A webhook writes its event: the document comes to the next position.  Nobody has
\* read the document, or what was read is of a later event.
LEMMA WriteFollows ==
    ASSUME IInv, NEW h, NEW j, Follows(h, j), NEW r \in Slots, Webhook(r), Unwritten(r),
           UNCHANGED <<psub, sent, answered>>, due' = due \ {req[r].w} \/ due' = due,
           Freed(r) \/ \E l \in {"tier", "drop", "downgrade"} : Moved(r, l),
           Routed(r)', ~ReaderBetween(r) \/ h[j] = "paying",
           DocumentAt(h, j + 1)', TierAt(h, j + 1)'
    PROVE  Follows(h, j + 1)'
  <1>1. /\ \A s \in Slots : s # r => req'[s] = req[s] /\ ~Webhook(s)
        /\ ~Unwritten(r)' /\ (Webhook(r)' => req'[r].w = req[r].w)
    BY DEF Freed, Moved, Unwritten, Webhook, Follows, InTurn
  <1>2. j + 1 \in DOMAIN sent /\ req[r].w = j + 1 /\ answered = 1..(j + 1)
    BY EventAt DEF Follows, InTurn
  <1>3. History(h)'
    BY DEF Follows, History
  <1>4. InTurn(j + 1)'
    <2>1. j + 1 \in 0..Len(sent)'
      BY <1>2, Positions
    <2>2. \A s \in Slots : ~Unwritten(s)' /\ (Webhook(s)' => s = r)
      BY <1>1 DEF Unwritten, Webhook
    <2>3. DOMAIN sent \ answered \subseteq due'
      BY AnswerKeeps
    <2> QED
      BY <1>1, <1>2, <2>1, <2>2, <2>3 DEF InTurn
  <1>5. ASSUME NEW s \in Slots PROVE Routed(s)' /\ ReaderBehind(s, h, j + 1)'
    <2>1. CASE s = r
      BY <2>1, <1>1 DEF ReaderBehind, Freed, Moved, Webhook
    <2>2. CASE s # r
      <3>1. req'[s] = req[s] /\ ~Webhook(s) /\ Routed(s)' /\ ReaderBehind(s, h, j)
        BY <1>1, <2>2 DEF Routed, Webhook, Follows
      <3>2. CASE ~ReaderBetween(r)
        BY <2>2, <3>1, <3>2 DEF ReaderBetween, ReaderBehind, Webhook
      <3>3. CASE h[j] = "paying"
        <4>1. req[s].pc \notin {"expire", "downgrade"}
          BY <3>1, <3>3 DEF ReaderBehind
        <4>2. ASSUME req[s].pc = "sync"
              PROVE  \E m \in (j + 1)..Len(sent) : req[s].status = h[m]
          <5>1. PICK m \in j..Len(sent) : req[s].status = h[m]
            BY <3>1, <4>2 DEF ReaderBehind
          <5>2. m # j
            BY <3>3, <5>1, RequestFields DEF Statuses
          <5>3. m \in (j + 1)..Len(sent)
            BY <5>2, Positions
          <5> QED
            BY <5>1, <5>3
        <4> QED
          BY <3>1, <4>1, <4>2 DEF ReaderBehind
      <3> QED
        BY <3>2, <3>3
    <2> QED
      BY <2>1, <2>2
  <1> QED
    BY <1>3, <1>4, <1>5 DEF Follows

\* A write that is not noted has crossed no reader.
LEMMA NoReader ==
    ASSUME NEW r \in Slots, NoteReader(r), ~disturbed'
    PROVE  ~ReaderBetween(r)
  BY DEF NoteReader

\* HandlePaymentSucceeded: the document is that of the plan that was paid.
LEMMA UpsertFollows ==
    ASSUME IInv, NEW h, NEW j, Follows(h, j), ~disturbed', NEW r \in Slots,
           UpsertSubscription(r)
    PROVE  Follows(h, j + 1)'
  <1> USE DEF At, provider, mongo, redis, history
  <1>0. /\ Webhook(r) /\ Unwritten(r) /\ UNCHANGED <<psub, sent, answered, due>>
        /\ ~ReaderBetween(r) /\ Route[Ev(r).type] = "bill" /\ Ev(r).type \in EventTypes
    BY RequestFields, EventOfWebhook, NoReader
    DEF UpsertSubscription, Coherent, WebhookPCs, Webhook, Unwritten, Follows, Routed
  <1>1. h[j + 1] = "paying" /\ j + 1 \in (j + 1)..Len(sent)
    BY <1>0, EventAt, RouteOf, Positions DEF Leads
  <1>2. Moved(r, "tier")
    BY GotoMoves DEF UpsertSubscription
  <1>3. Routed(r)' /\ Writes("tier")'
    <2>1. Ev(r)' = Ev(r)
      BY <1>0, <1>2 DEF Ev, Moved
    <2> QED
      BY <1>0, <1>2, <2>1 DEF Routed, Moved, Writes, Webhook
  <1>4. sub'.plan = Ev(r).plan /\ sub'.status = "active" /\ ~sub'.cancelled
    BY DEF UpsertSubscription, IInv, TypeOK, SubType
  <1>5. DocumentAt(h, j + 1)'
    <2>1. psub[Ev(r).plan] # "none" /\ Stored'
      BY <1>0, <1>4, EventOfWebhook DEF Stored
    <2>2. Fits(h[j + 1], "active")
      BY <1>1 DEF Fits
    <2> QED
      BY <1>0, <1>1, <1>4, <2>1, <2>2 DEF DocumentAt
  <1>6. TierAt(h, j + 1)'
    BY <1>1, <1>3 DEF TierAt
  <1> QED
    BY <1>0, <1>2, <1>3, <1>5, <1>6, WriteFollows

\* HandleFailedPayment: the subscription was active, so there is a document.
LEMMA GraceFollows ==
    ASSUME IInv, NEW h, NEW j, Follows(h, j), ~disturbed', NEW r \in Slots, StartGrace(r)
    PROVE  Follows(h, j + 1)'
  <1> USE DEF At, provider, mongo, redis, history
  <1>0. /\ Webhook(r) /\ Unwritten(r) /\ UNCHANGED <<psub, sent, answered>>
        /\ ~ReaderBetween(r) /\ Route[Ev(r).type] = "grace" /\ Ev(r).type \in EventTypes
    BY RequestFields, EventOfWebhook, NoReader
    DEF StartGrace, Coherent, WebhookPCs, Webhook, Unwritten, Follows, Routed
  <1>1. h[j] = "active" /\ h[j + 1] = "on_hold" /\ j + 1 \in (j + 1)..Len(sent)
    BY <1>0, EventAt, RouteOf, Positions DEF Leads
  <1>2. Stored /\ psub[sub.plan] # "none"
    BY <1>1 DEF Follows, DocumentAt
  <1>3. /\ Moved(r, "drop") /\ UNCHANGED due
        /\ sub' = [sub EXCEPT !.status = "in_grace", !.grace = "running"]
    BY <1>2, GotoMoves DEF StartGrace
  <1>4. sub'.plan = sub.plan /\ sub'.status = "in_grace"
    BY <1>3 DEF IInv, TypeOK, SubType
  <1>5. DocumentAt(h, j + 1)'
    <2>1. Fits(h[j + 1], "in_grace") /\ Stored'
      BY <1>1, <1>4 DEF Fits, Stored
    <2> QED
      BY <1>0, <1>1, <1>2, <1>4, <2>1 DEF DocumentAt
  <1>6. TierAt(h, j + 1)'
    BY <1>1 DEF TierAt
  <1>7. Routed(r)'
    BY <1>3 DEF Routed, Moved
  <1> QED
    BY <1>0, <1>3, <1>5, <1>6, <1>7, WriteFollows

\* The document, the tier and the queues of a payment stay when the subscription is
\* reported active.
LEMMA ReportFollows ==
    ASSUME IInv, NEW h, NEW j, Follows(h, j), NEW r \in Slots, Webhook(r), Unwritten(r),
           req[r].pc \notin {"tier", "extend"}, h[j] = "paying", h[j + 1] = "active",
           UNCHANGED <<tier, hours>>, sub'.plan = sub.plan
    PROVE  TierAt(h, j + 1)'
  <1>1. ~Writes("tier") /\ ~Writes("extend")
    BY LoneWebhook
  <1>2. tier = sub.plan /\ hours = sub.plan
    BY <1>1 DEF Follows, TierAt
  <1> QED
    BY <1>2 DEF TierAt

\* HandleSubscriptionStateUpdate.
LEMMA StateFollows ==
    ASSUME IInv, NEW h, NEW j, Follows(h, j), ~disturbed', NEW r \in Slots, UpdateState(r)
    PROVE  Follows(h, j + 1)'
  <1> USE DEF At, provider, mongo, redis, history
  <1>0. /\ Webhook(r) /\ Unwritten(r) /\ UNCHANGED <<psub, sent, answered, tier, hours>>
        /\ req[r].pc = "state" /\ due' = due \ {req[r].w}
        /\ ~ReaderBetween(r) /\ Route[Ev(r).type] = "state" /\ Ev(r).type \in EventTypes
    BY RequestFields, EventOfWebhook, NoReader
    DEF UpdateState, Answer, Coherent, WebhookPCs, Webhook, Unwritten, Follows, Routed
  <1>1. /\ j + 1 \in (j + 1)..Len(sent)
        /\ \/ Ev(r).type = "subscription.pending" /\ h[j + 1] = "pending"
           \/ Ev(r).type # "subscription.pending" /\ h[j] = "paying" /\ h[j + 1] = "active"
    BY <1>0, EventAt, RouteOf, Positions DEF Leads
  <1>2. Freed(r) /\ Routed(r)'
    BY DoneFrees DEF UpdateState, Answer, Freed, Routed, Webhook
  <1>3. /\ sub'.plan = (IF Stored THEN sub.plan ELSE Ev(r).plan) /\ ~sub'.cancelled
        /\ sub'.status = IF Ev(r).type = "subscription.pending" THEN "pending" ELSE "active"
    BY DEF UpdateState, NewState, IInv, TypeOK, SubType
  <1>4. DocumentAt(h, j + 1)'
    <2>1. psub[sub'.plan] # "none" /\ Stored'
      BY <1>0, <1>3, EventOfWebhook DEF Stored, Follows, DocumentAt
    <2>2. Fits(h[j + 1], sub'.status)
      BY <1>1, <1>3 DEF Fits
    <2>3. sub'.status # "in_grace" /\ h[j + 1] # "cancelled"
      BY <1>1, <1>3
    <2> QED
      BY <1>0, <1>1, <1>3, <2>1, <2>2, <2>3 DEF DocumentAt
  <1>5. TierAt(h, j + 1)'
    <2>1. CASE h[j + 1] = "pending"
      BY <2>1 DEF TierAt
    <2>2. CASE h[j] = "paying" /\ h[j + 1] = "active"
      <3>1. sub'.plan = sub.plan
        BY <1>3, <2>2 DEF Follows, DocumentAt
      <3> QED
        BY <1>0, <2>2, <3>1, ReportFollows
    <2> QED
      BY <1>1, <2>1, <2>2
  <1> QED
    BY <1>0, <1>2, <1>4, <1>5, WriteFollows

\* HandleSubscriptionUpdated: the phase stays.
LEMMA MetadataFollows ==
    ASSUME IInv, NEW h, NEW j, Follows(h, j), ~disturbed', NEW r \in Slots,
           UpdateMetadata(r)
    PROVE  Follows(h, j + 1)'
  <1> USE DEF At, provider, mongo, redis, history
  <1>0. /\ Webhook(r) /\ Unwritten(r) /\ UNCHANGED <<psub, sent, answered, due>>
        /\ ~ReaderBetween(r) /\ Route[Ev(r).type] = "metadata" /\ Ev(r).type \in EventTypes
    BY RequestFields, EventOfWebhook, NoReader
    DEF UpdateMetadata, Coherent, WebhookPCs, Webhook, Unwritten, Follows, Routed
  <1>1. h[j] \in {"active", "on_hold"} /\ h[j + 1] = h[j] /\ j + 1 \in (j + 1)..Len(sent)
    BY <1>0, EventAt, RouteOf, Positions DEF Leads
  <1>2. Stored
    BY <1>1 DEF Follows, DocumentAt
  <1>3. Moved(r, "tier")
    BY GotoMoves DEF UpdateMetadata
  <1>4. Routed(r)' /\ Writes("tier")'
    <2>1. Ev(r)' = Ev(r)
      BY <1>0, <1>3 DEF Ev, Moved
    <2> QED
      BY <1>0, <1>3, <2>1 DEF Routed, Moved, Writes, Webhook
  <1>5. /\ sub'.plan = Ev(r).plan /\ sub'.status = sub.status
        /\ sub'.cancelled = sub.cancelled
    BY <1>2 DEF UpdateMetadata, IInv, TypeOK, SubType
  <1>6. DocumentAt(h, j + 1)'
    <2>1. psub[Ev(r).plan] # "none" /\ Stored'
      BY <1>0, <1>2, <1>5, EventOfWebhook DEF Stored
    <2>2. \E m \in (j + 1)..Len(sent) : Fits(h[m], sub.status)
      <3>1. PICK m \in j..Len(sent) : Fits(h[m], sub.status)
        BY DEF Follows, DocumentAt
      <3>2. m = j \/ m \in (j + 1)..Len(sent)
        BY Positions
      <3> QED
        BY <1>1, <3>1, <3>2
    <2> QED
      BY <1>0, <1>1, <1>5, <2>1, <2>2 DEF DocumentAt, Follows
  <1>7. TierAt(h, j + 1)'
    BY <1>1, <1>4 DEF TierAt
  <1> QED
    BY <1>0, <1>3, <1>4, <1>6, <1>7, WriteFollows

\* HandleCancellation: the document is cancelled, the tier is still to be written.
LEMMA CancelFollows ==
    ASSUME IInv, NEW h, NEW j, Follows(h, j), ~disturbed', NEW r \in Slots,
           CancelSubscription(r)
    PROVE  Follows(h, j + 1)'
  <1> USE DEF At, provider, mongo, redis, history
  <1>0. /\ Webhook(r) /\ Unwritten(r) /\ UNCHANGED <<psub, sent, answered, due>>
        /\ ~ReaderBetween(r) /\ Route[Ev(r).type] = "cancel" /\ Ev(r).type \in EventTypes
    BY RequestFields, EventOfWebhook, NoReader
    DEF CancelSubscription, Coherent, WebhookPCs, Webhook, Unwritten, Follows, Routed
  <1>1. /\ h[j] \in {"active", "on_hold"} /\ h[j + 1] = "cancelled"
        /\ j + 1 \in (j + 1)..Len(sent)
    BY <1>0, EventAt, RouteOf, Positions DEF Leads
  <1>2. Stored /\ psub[sub.plan] # "none"
    BY <1>1 DEF Follows, DocumentAt
  <1>3. Moved(r, "downgrade")
    BY GotoMoves DEF CancelSubscription
  <1>4. Routed(r)' /\ Writes("downgrade")'
    <2>1. Ev(r)' = Ev(r)
      BY <1>0, <1>3 DEF Ev, Moved
    <2> QED
      BY <1>0, <1>3, <2>1 DEF Routed, Moved, Writes, Webhook
  <1>5. sub'.plan = sub.plan /\ sub'.status = "canceled" /\ sub'.cancelled
    BY <1>2 DEF CancelSubscription, IInv, TypeOK, SubType
  <1>6. DocumentAt(h, j + 1)'
    <2>1. Fits(h[j + 1], "canceled") /\ Stored'
      BY <1>1, <1>5 DEF Fits, Stored
    <2> QED
      BY <1>0, <1>1, <1>2, <1>5, <2>1 DEF DocumentAt
  <1>7. TierAt(h, j + 1)'
    BY <1>1, <1>4 DEF TierAt
  <1> QED
    BY <1>0, <1>3, <1>4, <1>6, <1>7, WriteFollows

\* ProcessBillingEvent routes the event; `subscription.created' is written by being
\* ignored, since it follows a payment.
LEMMA InvalidateFollows ==
    ASSUME IInv, NEW h, NEW j, Follows(h, j), NEW r \in Slots, InvalidatePlan(r)
    PROVE  Follows(h, j)' \/ Follows(h, j + 1)'
  <1> USE DEF At, provider, mongo, redis, history
  <1>0. /\ Webhook(r) /\ Unwritten(r) /\ req[r].pc = "invalidate"
        /\ UNCHANGED <<psub, sent, answered, sub, tier, hours>> /\ Grown(h, h)
        /\ Ev(r).type \in EventTypes
    BY RequestFields, EventOfWebhook, SameHistory
    DEF InvalidatePlan, Coherent, WebhookPCs, Webhook, Unwritten
  <1>1. CASE Route[Ev(r).type] = "done"
    <2>1. h[j] = "paying" /\ h[j + 1] = "active" /\ j + 1 \in (j + 1)..Len(sent)
      BY <1>0, <1>1, EventAt, RouteOf, Positions DEF Leads
    <2>2. Freed(r) /\ Routed(r)' /\ due' = due \ {req[r].w}
      BY <1>1, DoneFrees DEF InvalidatePlan, Dispatch, Answer, Freed, Routed, Webhook
    <2>3. DocumentAt(h, j + 1)'
      <3>1. \E m \in (j + 1)..Len(sent) : Fits(h[m], sub.status)
        <4>1. PICK m \in j..Len(sent) : Fits(h[m], sub.status)
          BY DEF Follows, DocumentAt
        <4>2. m = j \/ m \in (j + 1)..Len(sent)
          BY Positions
        <4> QED
          BY <2>1, <4>1, <4>2 DEF Fits
      <3>2. Stored' /\ psub[sub.plan] # "none" /\ ~sub.cancelled /\ sub.status # "in_grace"
        BY <1>0, <2>1 DEF Follows, DocumentAt, Stored
      <3> QED
        BY <1>0, <2>1, <3>1, <3>2 DEF DocumentAt
    <2>4. TierAt(h, j + 1)'
      BY <1>0, <2>1, ReportFollows
    <2> QED
      BY <1>0, <2>1, <2>2, <2>3, <2>4, WriteFollows
  <1>2. CASE Route[Ev(r).type] # "done"
    <2> DEFINE l == Route[Ev(r).type]
    <2>1. l \in {"bill", "grace", "state", "metadata", "cancel"}
      BY <1>0, <1>2, RouteType
    <2> HIDE DEF l
    <2>2. Moved(r, l) /\ UNCHANGED due
      BY <1>2, <2>1, GotoMoves DEF InvalidatePlan, Dispatch, l
    <2>3. Unwritten(r)' /\ Routed(r)'
      <3>1. Ev(r)' = Ev(r)
        BY <1>0, <2>2 DEF Ev, Moved
      <3>2. req'[r].pc = l /\ Webhook(r)'
        BY <1>0, <2>2 DEF Moved, Webhook
      <3> QED
        BY <2>1, <3>1, <3>2 DEF Unwritten, Routed, l
    <2>4. \A s \in Slots : Proceeds(s, h, j)
      BY <1>0, <2>1, <2>2, <2>3, WebhookProceeds DEF PCs
    <2>5. \A k \in {"tier", "extend", "downgrade"} : Writes(k) => Writes(k)'
      BY <1>0, LoneWebhook
    <2>6. DocumentAt(h, j)' /\ TierAt(h, j)'
      BY <1>0, <2>5, DocumentStays, TierStays
    <2>7. DOMAIN sent' \ answered \subseteq due'
      BY <1>0, <2>2, AnswerKeeps
    <2> QED
      BY <1>0, <2>4, <2>6, <2>7, StoryStays
  <1> QED
    BY <1>1, <1>2

\* HandleWebhook: an event that overtakes none is the next.
LEMMA ReceiveFollows ==
    ASSUME IInv, NEW h, NEW j, Follows(h, j), ~disturbed', NEW r \in Slots, NEW w \in due,
           Receive(r, w)
    PROVE  Follows(h, j)'
  <1>0. UNCHANGED <<psub, sent, sub, tier, hours>> /\ Grown(h, h)
    BY SameHistory DEF Receive, mongo
  <1>1. CASE w \in answered
    <2>1. UNCHANGED <<req, answered>> /\ due' = due \ {w}
      BY <1>1 DEF Receive
    <2>2. \A s \in Slots : Proceeds(s, h, j)
      BY <1>0, <2>1, StillProceeds
    <2>3. DocumentAt(h, j)' /\ TierAt(h, j)'
      BY <1>0, <2>1, DocumentStays, TierStays DEF Writes, Webhook
    <2>4. DOMAIN sent' \ answered \subseteq due'
      BY <1>0, <1>1, <2>1 DEF Follows, InTurn
    <2> QED
      BY <1>0, <2>1, <2>2, <2>3, <2>4, StoryStays
  <1>2. CASE w \notin answered
    <2> DEFINE q == [IdleRequest EXCEPT !.op = "webhook", !.w = w, !.pc = "invalidate"]
    <2>1. /\ req' = [req EXCEPT ![r] = q] /\ answered' = answered \cup {w} /\ due' = due
          /\ ~Overtakes(w)
      BY <1>2 DEF Receive
    <2>2. q.op = "webhook" /\ q.w = w /\ q.pc = "invalidate"
      BY DEF IdleRequest
    <2> HIDE DEF q
    <2>3. req'[r] = q /\ \A s \in Slots : s # r => req'[s] = req[s]
      BY <2>1 DEF IInv, TypeOK
    <2>4. \A s \in Slots : ~Webhook(s)
      BY <2>1 DEF Overtakes
    <2>5. answered = 1..j
      BY <2>4 DEF Follows, InTurn, Unwritten
    <2>6. w = j + 1
      <3>1. w \in Nat /\ w <= Len(sent) /\ j < w
        BY <1>2, <2>5, Positions DEF IInv, TypeOK
      <3>2. ASSUME j + 1 < w PROVE FALSE
        <4>1. j + 1 \in DOMAIN sent /\ j + 1 \notin answered
          BY <2>5, <3>1, <3>2, Positions
        <4>2. j + 1 \in due
          BY <4>1 DEF Follows, InTurn
        <4> QED
          BY <2>1, <3>2, <4>1, <4>2 DEF Overtakes
      <3> QED
        BY <3>1, <3>2, Positions
    <2>7. answered' = 1..(j + 1)
      BY <2>1, <2>5, <2>6, Positions
    <2>8. Unwritten(r)' /\ \A s \in Slots : Webhook(s)' => s = r
      BY <2>2, <2>3, <2>4 DEF Unwritten, Webhook
    <2>9. InTurn(j)'
      BY <1>0, <2>1, <2>2, <2>3, <2>6, <2>7, <2>8 DEF Follows, InTurn
    <2>10. ASSUME NEW s \in Slots PROVE Routed(s)' /\ ReaderBehind(s, h, j)'
      <3>1. CASE s = r
        BY <2>2, <2>3, <3>1 DEF Routed, ReaderBehind, Webhook
      <3>2. CASE s # r
        BY <1>0, <2>3, <3>2, StillProceeds DEF Proceeds
      <3> QED
        BY <3>1, <3>2
    <2>11. DocumentAt(h, j)' /\ TierAt(h, j)'
      BY <1>0, <2>4, DocumentStays, TierStays DEF Writes
    <2> QED
      BY <1>0, <2>9, <2>10, <2>11 DEF Follows, Grown
  <1> QED
    BY <1>1, <1>2
-----------------------------------------------------------------------------
(* The provider, the clock and the job *)

\* The history goes on with one event.
LEMMA OneEvent ==
    ASSUME IInv, NEW h, NEW j, Follows(h, j), NEW t \in EventTypes, NEW p \in Plans,
           NEW b \in Statuses, Emit(<<E(t, p)>>), Leads(h[Len(sent)], t, b),
           \A q \in Plans : psub[q] # "none" => psub'[q] # "none",
           \A q \in Plans : psub'[q] # "none" => psub'[q] = b
    PROVE  \E g : Grown(g, h)
  <1>1. PICK n \in Nat : n = Len(sent)
    BY Positions
  <1> DEFINE g == [i \in 0..(n + 1) |-> IF i = n + 1 THEN b ELSE h[i]]
  <1>2. /\ sent \in Seq(Event) /\ E(t, p) \in Event /\ E(t, p).type = t
        /\ DOMAIN sent = 1..n /\ b \in Phases /\ h \in [0..n -> Phases]
    BY <1>1, EventType, Positions DEF E, Phases
  <1>3. /\ sent' = Append(sent, E(t, p)) /\ sent' \in Seq(Event) /\ Len(sent') = n + 1
        /\ DOMAIN sent' = 1..(n + 1) /\ sent'[n + 1].type = t
        /\ \A i \in 1..n : sent'[i] = sent[i]
    BY <1>1, <1>2 DEF Emit
  <1>4. g \in [0..(n + 1) -> Phases] /\ g[n + 1] = b /\ \A i \in 0..n : g[i] = h[i]
    BY <1>2
  <1> HIDE DEF g
  <1>5. \A i \in DOMAIN sent' : Leads(g[i - 1], sent'[i].type, g[i])
    <2>1. \A i \in 1..n : Leads(h[i - 1], sent[i].type, h[i]) /\ i - 1 \in 0..n /\ i \in 0..n
      BY <1>2 DEF Follows, History
    <2>2. \A i \in 1..n : Leads(g[i - 1], sent'[i].type, g[i])
      BY <1>3, <1>4, <2>1
    <2>3. Leads(g[(n + 1) - 1], sent'[n + 1].type, g[n + 1])
      BY <1>1, <1>3, <1>4
    <2> QED
      BY <1>3, <2>2, <2>3
  <1>6. History(g)'
    BY <1>3, <1>4, <1>5 DEF History
  <1>7. Grown(g, h)
    BY <1>1, <1>2, <1>3, <1>4, <1>6 DEF Grown
  <1> QED
    BY <1>7

\* Or with a payment and its report.
LEMMA TwoEvents ==
    ASSUME IInv, NEW h, NEW j, Follows(h, j), NEW p \in Plans,
           NEW t \in {"subscription.active", "subscription.renewed", "subscription.created"},
           Emit(<<E("payment.succeeded", p), E(t, p)>>),
           \A q \in Plans : psub[q] # "none" => psub'[q] # "none",
           \A q \in Plans : psub'[q] # "none" => psub'[q] = "active"
    PROVE  \E g : Grown(g, h)
  <1>1. PICK n \in Nat : n = Len(sent)
    BY Positions
  <1> DEFINE g == [i \in 0..(n + 2) |-> IF i = n + 2 THEN "active"
                                        ELSE IF i = n + 1 THEN "paying" ELSE h[i]]
             d == E("payment.succeeded", p)
             e == E(t, p)
  <1>2. /\ sent \in Seq(Event) /\ d \in Event /\ d.type = "payment.succeeded"
        /\ e \in Event /\ e.type = t
        /\ DOMAIN sent = 1..n /\ h \in [0..n -> Phases]
    BY <1>1, EventType, Positions DEF E, EventTypes
  <1> HIDE DEF d, e
  <1>3. /\ sent' = sent \o <<d, e>> /\ sent' \in Seq(Event) /\ Len(sent') = n + 2
        /\ DOMAIN sent' = 1..(n + 2) /\ sent'[n + 1] = d /\ sent'[n + 2] = e
        /\ \A i \in 1..n : sent'[i] = sent[i]
    BY <1>1, <1>2 DEF Emit, d, e
  <1>4. /\ g \in [0..(n + 2) -> Phases] /\ g[n + 1] = "paying" /\ g[n + 2] = "active"
        /\ \A i \in 0..n : g[i] = h[i]
    BY <1>2 DEF Phases, Statuses
  <1> HIDE DEF g
  <1>5. \A i \in DOMAIN sent' : Leads(g[i - 1], sent'[i].type, g[i])
    <2>1. \A i \in 1..n : Leads(h[i - 1], sent[i].type, h[i]) /\ i - 1 \in 0..n /\ i \in 0..n
      BY <1>2 DEF Follows, History
    <2>2. \A i \in 1..n : Leads(g[i - 1], sent'[i].type, g[i])
      BY <1>3, <1>4, <2>1
    <2>3. Leads(g[(n + 1) - 1], sent'[n + 1].type, g[n + 1])
      <3>1. h[n] # "paying" /\ g[(n + 1) - 1] = h[n]
        BY <1>1, <1>4 DEF Follows, History, Statuses
      <3> QED
        BY <1>2, <1>3, <1>4, <3>1 DEF Leads
    <2>4. Leads(g[(n + 2) - 1], sent'[n + 2].type, g[n + 2])
      <3>1. g[(n + 2) - 1] = "paying"
        BY <1>4
      <3> QED
        BY <1>2, <1>3, <1>4, <3>1 DEF Leads
    <2> SUFFICES ASSUME NEW i \in DOMAIN sent'
                 PROVE  Leads(g[i - 1], sent'[i].type, g[i])
      OBVIOUS
    <2>5. i \in 1..n \/ i = n + 1 \/ i = n + 2
      BY <1>3
    <2> QED
      BY <2>2, <2>3, <2>4, <2>5
  <1>6. History(g)'
    BY <1>3, <1>4, <1>5 DEF History, Statuses
  <1>7. Grown(g, h)
    BY <1>1, <1>2, <1>3, <1>4, <1>6 DEF Grown
  <1> QED
    BY <1>7

\* What is emitted is due.
LEMMA EmittedDue ==
    ASSUME IInv, NEW h, NEW j, Follows(h, j), NEW es \in Seq(Event), Emit(es)
    PROVE  DOMAIN sent' \ answered \subseteq due'
  <1>1. sent' = sent \o es /\ sent \in Seq(Event)
    BY Positions DEF Emit
  <1>2. DOMAIN sent' = 1..(Len(sent) + Len(es)) /\ Len(sent) \in Nat /\ Len(es) \in Nat
    BY <1>1
  <1>3. DOMAIN sent' = DOMAIN sent \cup (Len(sent) + 1)..(Len(sent) + Len(es))
    BY <1>2, Positions
  <1> QED
    BY <1>3 DEF Emit, Follows, InTurn

\* The provider's step.
LEMMA ProviderFollows ==
    ASSUME IInv, NEW h, NEW j, Follows(h, j), OneSubscription', NEW p \in Plans,
           Purchase(p) \/ Activate(p) \/ Renew(p) \/ PaymentFails(p) \/ EndSubscription(p)
    PROVE  \E g : Follows(g, j)'
  <1>0. /\ psub \in [Plans -> Statuses] /\ UNCHANGED server
        /\ \A q \in Plans : psub[q] # "none" => psub'[q] # "none"
        /\ \A q \in Plans : q # p => psub'[q] = psub[q]
        /\ psub[p] # "none" => psub[p] = h[Len(sent)]
        /\ h[Len(sent)] \in Statuses
    BY DEF Purchase, Activate, Renew, PaymentFails, EndSubscription, IInv, TypeOK, Follows,
           History
  <1>1. ASSUME psub'[p] # "none" PROVE \A q \in Plans : psub'[q] # "none" => psub'[q] = psub'[p]
    BY <1>1 DEF OneSubscription
  <1>2. \/ /\ psub'[p] = "active"
           /\ \E t \in {"subscription.active", "subscription.renewed", "subscription.created"} :
                 Emit(<<E("payment.succeeded", p), E(t, p)>>)
        \/ /\ psub'[p] = "pending" /\ Emit(<<E("subscription.pending", p)>>)
        \/ /\ psub[p] = "active" /\ psub'[p] = "on_hold" /\ Emit(<<E("payment.failed", p)>>)
        \/ /\ psub[p] \in {"active", "on_hold"} /\ psub'[p] = "cancelled"
           /\ Emit(<<E("subscription.cancelled", p)>>)
    BY <1>0 DEF Purchase, Activate, Renew, PaymentFails, EndSubscription
  <1>3. \E g : Grown(g, h)
    <2>1. ASSUME NEW t \in {"subscription.active", "subscription.renewed",
                            "subscription.created"},
                 psub'[p] = "active", Emit(<<E("payment.succeeded", p), E(t, p)>>)
          PROVE  \E g : Grown(g, h)
      BY <1>0, <1>1, <2>1, TwoEvents
    <2>2. ASSUME NEW t \in EventTypes, NEW b \in Statuses, b # "none", psub'[p] = b,
                 Emit(<<E(t, p)>>), Leads(h[Len(sent)], t, b)
          PROVE  \E g : Grown(g, h)
      BY <1>0, <1>1, <2>2, OneEvent
    <2>3. CASE psub'[p] = "pending" /\ Emit(<<E("subscription.pending", p)>>)
      <3>1. Leads(h[Len(sent)], "subscription.pending", "pending")
        BY <1>0 DEF Leads, Statuses
      <3> QED
        BY <2>2, <2>3, <3>1 DEF EventTypes, Statuses
    <2>4. CASE psub[p] = "active" /\ psub'[p] = "on_hold" /\ Emit(<<E("payment.failed", p)>>)
      <3>1. Leads(h[Len(sent)], "payment.failed", "on_hold")
        BY <1>0, <2>4 DEF Leads
      <3> QED
        BY <2>2, <2>4, <3>1 DEF EventTypes, Statuses
    <2>5. CASE /\ psub[p] \in {"active", "on_hold"} /\ psub'[p] = "cancelled"
               /\ Emit(<<E("subscription.cancelled", p)>>)
      <3>1. Leads(h[Len(sent)], "subscription.cancelled", "cancelled")
        BY <1>0, <2>5 DEF Leads
      <3> QED
        BY <2>2, <2>5, <3>1 DEF EventTypes, Statuses
    <2> QED
      BY <1>2, <2>1, <2>3, <2>4, <2>5
  <1>4. DOMAIN sent' \ answered \subseteq due'
    <2>1. ASSUME NEW t \in EventTypes, Emit(<<E(t, p)>>)
          PROVE  DOMAIN sent' \ answered \subseteq due'
      <3>1. <<E(t, p)>> \in Seq(Event)
        BY EventType
      <3> QED
        BY <2>1, <3>1, EmittedDue
    <2>2. ASSUME NEW t \in EventTypes, NEW u \in EventTypes, Emit(<<E(t, p), E(u, p)>>)
          PROVE  DOMAIN sent' \ answered \subseteq due'
      <3>1. <<E(t, p), E(u, p)>> \in Seq(Event)
        BY EventType
      <3> QED
        BY <2>2, <3>1, EmittedDue
    <2> QED
      BY <1>2, <2>1, <2>2 DEF EventTypes
  <1>5. PICK g : Grown(g, h)
    BY <1>3
  <1>6. /\ UNCHANGED <<sub, tier, hours, answered, req>>
    BY <1>0 DEF server, mongo, redis
  <1>7. \A s \in Slots : Proceeds(s, g, j)
    BY <1>5, <1>6, StillProceeds
  <1>8. DocumentAt(g, j)' /\ TierAt(g, j)'
    BY <1>5, <1>6, DocumentStays, TierStays DEF Writes, Webhook
  <1>9. Follows(g, j)'
    BY <1>4, <1>5, <1>6, <1>7, <1>8, StoryStays
  <1> QED
    BY <1>9

\* The host's cancellation is reported by an event that leaves the phase.
LEMMA CancelAtProviderFollows ==
    ASSUME IInv, NEW h, NEW j, Follows(h, j), OneSubscription, NEW r \in Slots,
           CancelAtProvider(r)
    PROVE  \E g : Follows(g, j)'
  <1> USE DEF At, provider, mongo, redis, history
  <1>0. /\ ~Webhook(r) /\ req[r].plan \in Plans
        /\ UNCHANGED <<psub, sub, tier, hours, answered>>
    BY RequestFields DEF CancelAtProvider, Coherent, RequestPCs, Webhook
  <1>1. Freed(r) \/ Moved(r, "markAtEnd")
    BY GotoMoves, DoneFrees DEF CancelAtProvider
  <1>2. /\ \E g : Grown(g, h)
        /\ DOMAIN sent' \ answered \subseteq due'
    <2>1. CASE /\ psub[req[r].plan] \in {"active", "on_hold"}
               /\ Emit(<<E("subscription.updated", req[r].plan)>>)
      <3>1. PICK b \in Statuses : b = psub[req[r].plan]
        BY <1>0 DEF IInv, TypeOK
      <3>2. h[Len(sent)] = b /\ b \in {"active", "on_hold"}
        BY <1>0, <2>1, <3>1 DEF Follows, History
      <3>3. Leads(h[Len(sent)], "subscription.updated", b)
        BY <3>2 DEF Leads
      <3>4. \A q \in Plans : psub[q] # "none" => psub[q] = b
        BY <1>0, <2>1, <3>1 DEF OneSubscription
      <3>5. PICK p \in Plans : p = req[r].plan
        BY <1>0
      <3>6. "subscription.updated" \in EventTypes
        BY DEF EventTypes
      <3>7. <<E("subscription.updated", p)>> \in Seq(Event)
        BY <3>6, EventType
      <3>8. Emit(<<E("subscription.updated", p)>>)
        BY <2>1, <3>5
      <3>9. \E g : Grown(g, h)
        BY <1>0, <3>3, <3>4, <3>6, <3>8, OneEvent
      <3> QED
        BY <3>7, <3>8, <3>9, EmittedDue
    <2>2. CASE UNCHANGED <<sent, due>>
      BY <1>0, <2>2, SameHistory DEF Follows, InTurn
    <2> QED
      BY <2>1, <2>2 DEF CancelAtProvider
  <1>3. PICK g : Grown(g, h)
    BY <1>2
  <1>4. \A s \in Slots : Proceeds(s, g, j)
    BY <1>0, <1>1, <1>3, RequestProceeds DEF PCs
  <1>5. \A s \in Slots : s # r => req'[s] = req[s]
    BY <1>1 DEF Freed, Moved
  <1>6. DocumentAt(g, j)' /\ TierAt(g, j)'
    BY <1>0, <1>3, <1>5, DocumentStays, TierStays, WritersStay
  <1>7. Follows(g, j)'
    BY <1>0, <1>2, <1>3, <1>4, <1>6, StoryStays
  <1> QED
    BY <1>7

\* A step outside the slots that leaves the document's plan, status and mark.
LEMMA OutsideFollows ==
    ASSUME IInv, NEW h, NEW j, Follows(h, j),
           UNCHANGED <<psub, sent, due, answered, req, tier, hours>>,
           sub'.plan = sub.plan, sub'.status = sub.status, sub'.cancelled = sub.cancelled
    PROVE  Follows(h, j)'
  <1>1. Grown(h, h)
    BY SameHistory
  <1>2. \A s \in Slots : Proceeds(s, h, j)
    BY <1>1, StillProceeds
  <1>3. DocumentAt(h, j)' /\ TierAt(h, j)'
    BY <1>1, DocumentStays, TierStays DEF Writes, Webhook
  <1>4. DOMAIN sent' \ answered \subseteq due'
    BY DEF Follows, InTurn
  <1> QED
    BY <1>1, <1>2, <1>3, <1>4, StoryStays

\* The clock and the job.
LEMMA ClockFollows ==
    ASSUME IInv, NEW h, NEW j, Follows(h, j),
           \/ GraceEnds \/ PeriodEndNears \/ CacheExpires \/ Job \/ UNCHANGED vars
           \/ \E p \in Plans : CheckoutKeyExpires(p)
    PROVE  Follows(h, j)'
  <1> USE DEF provider, mongo, redis, history
  <1>1. UNCHANGED <<psub, sent, due, answered, req, tier, hours>>
    BY DEF GraceEnds, PeriodEndNears, CacheExpires, Job, FindExpiring, SendReminder,
           MarkReminded, CheckoutKeyExpires, vars
  <1>2. sub \in SubType
    BY DEF IInv, TypeOK
  <1>3. /\ sub'.plan = sub.plan /\ sub'.status = sub.status
        /\ sub'.cancelled = sub.cancelled
    <2>1. CASE GraceEnds \/ PeriodEndNears \/ MarkReminded
      BY <1>2, <2>1 DEF GraceEnds, PeriodEndNears, MarkReminded, SubType
    <2>2. CASE UNCHANGED sub
      BY <2>2
    <2> QED
      BY <2>1, <2>2
      DEF CacheExpires, Job, FindExpiring, SendReminder, CheckoutKeyExpires, vars
  <1> QED
    BY <1>1, <1>3, OutsideFollows

\* A step that loses nothing, and crosses no reader, brings the document on.
LEMMA NextFollows ==
    ASSUME IInv, NEW h, NEW j, Follows(h, j), ~disturbed, ~disturbed',
           OneSubscription, OneSubscription', [Next]_vars
    PROVE  \E g, k : Follows(g, k)'
  <1>1. CASE Environment
    BY <1>1, ProviderFollows, ClockFollows DEF Environment
  <1>2. ASSUME NEW r \in Slots, Handler(r) \/ Start(r) PROVE \E g, k : Follows(g, k)'
    <2>1. CASE \/ FindSubscription(r) \/ ExpireGrace(r) \/ Downgrade(r) \/ FillCache(r)
               \/ ReadDetails(r) \/ SyncDetails(r) \/ Start(r)
               \/ LookupSubscription(r) \/ CreateSession(r) \/ ReleaseCheckout(r)
      BY <2>1, ReadFollows, ExpireFollows, DowngradeFollows, SyncFollows, RequestFollows
    <2>2. CASE \/ MarkAtEnd(r) \/ DropCache(r) \/ InsertRecord(r) \/ SetTier(r)
               \/ ExtendQueues(r) \/ InvalidatePlan(r)
      BY <2>2, MarkFollows, TierFollows, InvalidateFollows
    <2>3. CASE \/ UpsertSubscription(r) \/ StartGrace(r) \/ UpdateState(r)
               \/ UpdateMetadata(r) \/ CancelSubscription(r)
      BY <2>3, UpsertFollows, GraceFollows, StateFollows, MetadataFollows, CancelFollows
    <2> QED
      BY <1>2, <2>1, <2>2, <2>3, CancelAtProviderFollows DEF Handler
  <1>3. ASSUME NEW w \in due, Deliver(w) PROVE \E g, k : Follows(g, k)'
    BY <1>3, ReceiveFollows DEF Deliver
  <1>4. CASE Job \/ CacheExpires \/ UNCHANGED vars
    BY <1>4, ClockFollows
  <1>5. ~Failure
    BY DEF Failure, WebhookCommandFails, RequestCommandFails, ReceiveFails, JobFails, Fail
  <1> QED
    BY <1>1, <1>2, <1>3, <1>4, <1>5 DEF Next

\* What is disturbed stays so, and who has had two subscriptions has had them.
LEMMA Disturbances ==
    ASSUME IInv, [Next]_vars
    PROVE  (disturbed => disturbed') /\ (OneSubscription' => OneSubscription)
  <1> USE DEF provider, mongo, redis, history
  <1>0. disturbed \in BOOLEAN
    BY DEF IInv, TypeOK
  <1>1. ASSUME NEW r \in Slots, Handler(r) \/ Start(r)
        PROVE  (disturbed => disturbed') /\ psub' = psub
    <2>1. CASE \/ FindSubscription(r) \/ Downgrade(r) \/ FillCache(r) \/ ReadDetails(r)
               \/ SyncDetails(r) \/ CancelAtProvider(r) \/ MarkAtEnd(r) \/ DropCache(r)
               \/ LookupSubscription(r) \/ CreateSession(r) \/ ReleaseCheckout(r)
               \/ InvalidatePlan(r) \/ InsertRecord(r) \/ ExtendQueues(r)
      <3>1. UNCHANGED <<psub, disturbed>>
        BY <2>1
        DEF FindSubscription, Downgrade, FillCache, ReadDetails, SyncDetails,
            CancelAtProvider, MarkAtEnd, DropCache, LookupSubscription, CreateSession,
            ReleaseCheckout, InvalidatePlan, InsertRecord, ExtendQueues
      <3> QED
        BY <3>1
    <2>2. CASE \/ ExpireGrace(r) \/ UpsertSubscription(r) \/ SetTier(r) \/ StartGrace(r)
               \/ UpdateState(r) \/ UpdateMetadata(r) \/ CancelSubscription(r)
      <3>1. psub' = psub /\ NoteReader(r)
        BY <2>2
        DEF ExpireGrace, UpsertSubscription, SetTier, StartGrace, UpdateState,
            UpdateMetadata, CancelSubscription
      <3> QED
        BY <3>1 DEF NoteReader
    <2>3. CASE Start(r)
      <3>1. UNCHANGED <<psub, disturbed>>
        BY <2>3 DEF Start, StartPlan, StartSubscription, StartCancel, StartCheckout, Begin
      <3> QED
        BY <3>1
    <2> QED
      BY <1>1, <2>1, <2>2, <2>3 DEF Handler
  <1>2. ASSUME NEW w \in due, Deliver(w) PROVE (disturbed => disturbed') /\ psub' = psub
    BY <1>2 DEF Deliver, Receive
  <1>3. ASSUME Job \/ CacheExpires \/ UNCHANGED vars
        PROVE  (disturbed => disturbed') /\ psub' = psub
    <2>1. UNCHANGED <<psub, disturbed>>
      BY <1>3 DEF Job, FindExpiring, SendReminder, MarkReminded, CacheExpires, vars
    <2> QED
      BY <2>1
  <1>4. ASSUME Failure
        PROVE  (disturbed => disturbed') /\ psub' = psub
    <2>1. psub' = psub /\ disturbed' = TRUE
      BY <1>4
      DEF Failure, WebhookCommandFails, RequestCommandFails, ReceiveFails, JobFails, Fail
    <2> QED
      BY <2>1
  <1>5. ASSUME GraceEnds \/ PeriodEndNears \/ \E p \in Plans : CheckoutKeyExpires(p)
        PROVE  (disturbed => disturbed') /\ psub' = psub
    <2>1. UNCHANGED <<psub, disturbed>>
      BY <1>5 DEF GraceEnds, PeriodEndNears, CheckoutKeyExpires
    <2> QED
      BY <2>1
  <1>6. ASSUME NEW p \in Plans,
               Purchase(p) \/ Activate(p) \/ Renew(p) \/ PaymentFails(p) \/ EndSubscription(p)
        PROVE  disturbed' = disturbed /\ \A q \in Plans : psub[q] # "none" => psub'[q] # "none"
    BY <1>6 DEF Purchase, Activate, Renew, PaymentFails, EndSubscription, server, IInv, TypeOK
  <1>7. \/ (disturbed => disturbed') /\ psub' = psub
        \/ disturbed' = disturbed /\ \A q \in Plans : psub[q] # "none" => psub'[q] # "none"
    BY <1>1, <1>2, <1>3, <1>4, <1>5, <1>6 DEF Next, Environment
  <1> QED
    BY <1>7 DEF OneSubscription

\* A history is one of what is sent, and a position one of the sequence.
LEMMA FollowsTypes ==
    ASSUME NEW h, NEW j, Follows(h, j)
    PROVE  h \in [0..Len(sent) -> Phases] /\ j \in 0..Len(sent)
  BY DEF Follows, History, InTurn

\* At first the document is that of the subscription, if there is one.
LEMMA InitSettles == Init => SettleInv
  <1> SUFFICES ASSUME Init, OneSubscription PROVE \E h, j : Follows(h, j)
    BY FollowsTypes DEF SettleInv
  <1>1. PICK p \in Plans \cup {NoPlan} :
          /\ psub = [q \in Plans |-> IF q = p THEN "active" ELSE "none"]
          /\ sub = IF p = NoPlan
                   THEN NoSub
                   ELSE [NoSub EXCEPT !.plan = p, !.of = p, !.status = "active"]
          /\ tier = IF p = NoPlan THEN Free ELSE p
          /\ hours = tier
    BY DEF Init
  <1>2. /\ sent = <<>> /\ answered = {} /\ \A r \in Slots : req[r] = IdleRequest
        /\ DOMAIN sent = {} /\ Len(sent) = 0
    BY DEF Init
  <1>3. \A r \in Slots : ~Webhook(r) /\ req[r].pc = "idle"
    BY <1>2 DEF Webhook, IdleRequest
  <1> DEFINE a == IF p = NoPlan THEN "none" ELSE "active"
             h == [i \in {0} |-> a]
  <1>4. History(h)
    <2>1. h \in [0..0 -> Phases] /\ h[0] = a /\ a \in Statuses /\ 0..0 = {0}
      BY DEF Phases, Statuses
    <2>2. \A q \in Plans : psub[q] # "none" => psub[q] = a
      BY <1>1, BillingAssumption
    <2> QED
      BY <1>2, <2>1, <2>2 DEF History
  <1>5. InTurn(0)
    BY <1>2, <1>3 DEF InTurn, Unwritten
  <1>6. \A r \in Slots : Routed(r) /\ ReaderBehind(r, h, 0)
    BY <1>3 DEF Routed, ReaderBehind
  <1>7. DocumentAt(h, 0) /\ TierAt(h, 0)
    <2>1. CASE p = NoPlan
      <3>1. sub.status = "absent" /\ ~Stored /\ h[0] = "none" /\ 0 \in 0..Len(sent)
        BY <1>1, <1>2, <2>1 DEF NoSub, Stored
      <3> QED
        BY <3>1 DEF DocumentAt, TierAt, Fits
    <2>2. CASE p # NoPlan
      <3>1. /\ sub.status = "active" /\ sub.plan = p /\ ~sub.cancelled /\ Stored
            /\ psub[p] = "active" /\ tier = p /\ hours = p
        BY <1>1, <2>2 DEF NoSub, Stored
      <3>2. h[0] = "active" /\ 0 \in 0..Len(sent)
        BY <1>2, <2>2
      <3> QED
        BY <3>1, <3>2 DEF DocumentAt, TierAt, Fits
    <2> QED
      BY <2>1, <2>2
  <1> HIDE DEF h
  <1>8. Follows(h, 0)
    BY <1>4, <1>5, <1>6, <1>7 DEF Follows
  <1> QED
    BY <1>8

\* No step breaks it.
LEMMA NextSettles == IInv /\ SettleInv /\ [Next]_vars => SettleInv'
  <1> SUFFICES ASSUME IInv, SettleInv, [Next]_vars, ~disturbed', OneSubscription'
               PROVE  (\E h \in [0..Len(sent) -> Phases], j \in 0..Len(sent) : Follows(h, j))'
    BY DEF SettleInv
  <1>1. ~disturbed /\ OneSubscription
    BY Disturbances
  <1>2. PICK h, j : Follows(h, j)
    BY <1>1 DEF SettleInv
  <1>3. PICK g, k : Follows(g, k)'
    BY <1>1, <1>2, NextFollows
  <1>4. g \in [0..Len(sent)' -> Phases] /\ k \in 0..Len(sent)'
    BY <1>3 DEF Follows, History, InTurn
  <1> QED
    BY <1>3, <1>4

\* ProcessBillingEvent: when every webhook is answered, and they were processed in
\* order, without a failure and without a write under a reader, the document, the tier
\* and the queues are those of the provider's subscription, whatever requests, grace
\* periods and reminders came in between.
THEOREM StoredAgrees == Spec => []SettledAgrees
  <1>1. IInv /\ SettleInv => SettledAgrees
    <2> SUFFICES ASSUME IInv, SettleInv, Quiet, ~disturbed, OneSubscription, NEW p \in Plans
                 PROVE  /\ psub[p] = "cancelled" => SubPlan = Free /\ tier = Free
                        /\ psub[p] = "active" =>
                             /\ sub.plan = p /\ sub.status = "active" /\ ~sub.cancelled
                             /\ tier = p /\ hours = p
                        /\ psub[p] = "on_hold" =>
                             sub.status \in {"in_grace", "canceled", "on_hold"}
      BY DEF SettledAgrees
    <2>1. PICK h, j : Follows(h, j)
      BY DEF SettleInv
    <2>2. \A r \in Slots : ~Webhook(r)
      BY <2>1 DEF Quiet, At, Follows, Routed
    <2>3. j = Len(sent)
      <3>1. answered = 1..j /\ DOMAIN sent \subseteq answered
        BY <2>1, <2>2 DEF Follows, InTurn, Unwritten, Quiet
      <3> QED
        BY <2>1, <3>1, Positions
    <2>4. psub[p] # "none" => psub[p] = h[j]
      BY <2>1, <2>3 DEF Follows, History
    <2>5. Fits(h[j], sub.status)
      <3>1. PICK m \in j..Len(sent) : Fits(h[m], sub.status)
        BY <2>1 DEF Follows, DocumentAt
      <3>2. m = j
        BY <2>1, <2>3, Positions
      <3> QED
        BY <3>1, <3>2
    <2>6. \A l : ~Writes(l)
      BY <2>2 DEF Writes
    <2>7. CASE psub[p] = "cancelled"
      BY <2>1, <2>4, <2>6, <2>7 DEF Follows, DocumentAt, TierAt, SubPlan
    <2>8. CASE psub[p] = "active"
      <3>1. h[j] = "active" /\ Stored /\ psub[sub.plan] # "none" /\ ~sub.cancelled
        BY <2>1, <2>4, <2>8 DEF Follows, DocumentAt
      <3>2. sub.plan = p
        BY <2>8, <3>1 DEF OneSubscription, IInv, DocumentSold
      <3>3. sub.status = "active" /\ tier = p /\ hours = p
        BY <2>1, <2>5, <2>6, <3>1, <3>2 DEF Follows, TierAt, Fits
      <3> QED
        BY <2>8, <3>1, <3>2, <3>3
    <2>9. CASE psub[p] = "on_hold"
      BY <2>4, <2>5, <2>9 DEF Fits
    <2> QED
      BY <2>7, <2>8, <2>9
  <1> QED
    BY <1>1, InitSettles, NextSettles, Invariance, PTL DEF Spec
=============================================================================
