------------------------------- MODULE Billing -------------------------------
(***************************************************************************)
(* The subscription of one host: the payment provider (Dodo, external),    *)
(* which sells subscriptions and reports what happens to them by webhooks, *)
(* and this program's side, the subscription document, the tier of the     *)
(* host, the plan cache in Redis, the reminder job and the requests of the *)
(* host.                                                                   *)
(*                                                                         *)
(* Webhooks are delivered until they are answered 200, in any order and    *)
(* also twice at a time; a handler is a sequence of database commands, and *)
(* the handlers in `req' interleave.  A tier stands for its plan.          *)
(***************************************************************************)
EXTENDS Naturals, Sequences, FiniteSets

CONSTANTS
    Plans,          \* the paid plans
    Free,           \* the standard free plan
    NoPlan,         \* no plan: an empty cache, an absent record
    Slots,          \* slots for requests and webhooks that are served concurrently
    Ops,            \* the requests that the host makes in this instance
    MaxWebhooks,    \* bound: how many webhooks the provider sends
    MaxTurns        \* bound: how many requests the host starts, billing periods
                    \* come to their end, checkout keys expire and commands fail

AllOps == {"plan", "subscription", "cancel", "checkout", "trial"}

ASSUME BillingAssumption ==
    /\ IsFiniteSet(Plans) /\ IsFiniteSet(Slots)
    /\ Free \notin Plans /\ NoPlan \notin Plans \cup {Free}
    /\ Ops \subseteq AllOps
    /\ MaxWebhooks \in Nat /\ MaxTurns \in Nat

VARIABLES
    \* the provider
    psub,      \* the state of the host's subscription for each plan
    sessions,  \* plans with a checkout session that may still be paid
    sent,      \* the events sent, a webhook's id is its index
    due,       \* the webhooks that are not yet answered 200
    \* MongoDB
    sub,       \* the document of billing_subscriptions
    tier,      \* host.tier
    hours,     \* the plan whose queue_expiry_hours the live queues have
    billed,    \* how many billing records each webhook has made
    \* Redis
    answered,  \* the webhook:{id} keys
    cache,     \* billing:host_plan:{host}
    checkouts, \* the checkout:{host}:{plan}:{cycle} keys
    \* the actors
    req,       \* the request or webhook in each slot
    job,       \* RenewalReminderJob: the next command
    \* history
    reminders, \* reminders sent for the current period
    turns,     \* requests started, periods ended, keys expired, failures
    disturbed  \* a webhook was overtaken or lost, or a stale read was written

provider == <<psub, sessions, sent, due>>
mongo == <<sub, tier, hours, billed>>
redis == <<answered, cache, checkouts>>
history == <<reminders, turns, disturbed>>
vars == <<provider, mongo, redis, req, job, history>>

EventTypes == {"payment.succeeded", "payment.failed", "subscription.pending",
               "subscription.active", "subscription.renewed", "subscription.created",
               "subscription.updated", "subscription.cancelled"}
Event == [type : EventTypes, plan : Plans]

Ids == 1..MaxWebhooks

\* A document that is not stored has no plan.
NoSub == [plan |-> NoPlan, of |-> NoPlan, status |-> "absent", cancelled |-> FALSE,
          atEnd |-> FALSE, grace |-> "none", near |-> FALSE, reminded |-> FALSE]

\* `of' is provider_subscription_id: the provider's subscription for that plan;
\* `near': current_period_end is at most three days away.
SubType ==
    [plan : Plans \cup {NoPlan}, of : Plans \cup {NoPlan},
     status : {"absent", "active", "pending", "in_grace", "canceled",
               "on_hold", "cancelled"},
     cancelled : BOOLEAN, atEnd : BOOLEAN,
     grace : {"none", "running", "over"}, near : BOOLEAN, reminded : BOOLEAN]

PCs == {"idle", "find", "expire", "downgrade", "fill", "details", "sync",
        "cancelAtProvider", "markAtEnd", "drop", "lookup", "session", "unlock",
        "invalidate", "bill", "upsert", "tier", "extend", "grace", "state",
        "metadata", "cancel"}

Statuses == {"none", "pending", "active", "on_hold", "cancelled"}

\* w: the webhook; plan: the plan asked for, or read, or the provider's
\* subscription to ask about; status: the provider's answer.
RequestType ==
    [op : AllOps \cup {"none", "webhook"}, pc : PCs, w : 0..MaxWebhooks,
     plan : Plans \cup {Free, NoPlan}, status : Statuses]

IdleRequest == [op |-> "none", pc |-> "idle", w |-> 0, plan |-> NoPlan,
                status |-> "none"]

TypeOK ==
    /\ psub \in [Plans -> Statuses]
    /\ sessions \subseteq Plans
    /\ sent \in Seq(Event) /\ Len(sent) <= MaxWebhooks
    /\ due \subseteq DOMAIN sent
    /\ sub \in SubType
    /\ tier \in Plans \cup {Free} /\ hours \in Plans \cup {Free}
    /\ billed \in [Ids -> Nat]
    /\ answered \subseteq DOMAIN sent
    /\ cache \in Plans \cup {Free, NoPlan}
    /\ checkouts \subseteq Plans
    /\ req \in [Slots -> RequestType]
    /\ job \in {"idle", "send", "mark"}
    /\ reminders \in Nat /\ turns \in 0..MaxTurns
    /\ disturbed \in BOOLEAN

\* A host without a subscription, or in the first days of a paid one.
Init ==
    /\ \E p \in Plans \cup {NoPlan} :
         /\ psub = [q \in Plans |-> IF q = p THEN "active" ELSE "none"]
         /\ sub = IF p = NoPlan
                  THEN NoSub
                  ELSE [NoSub EXCEPT !.plan = p, !.of = p, !.status = "active"]
         /\ tier = IF p = NoPlan THEN Free ELSE p
         /\ hours = tier
    /\ sessions = {} /\ sent = <<>> /\ due = {}
    /\ billed = [w \in Ids |-> 0]
    /\ answered = {} /\ cache = NoPlan /\ checkouts = {}
    /\ req = [r \in Slots |-> IdleRequest]
    /\ job = "idle"
    /\ reminders = 0 /\ turns = 0 /\ disturbed = FALSE
-----------------------------------------------------------------------------
(* Helpers *)

At(r, l) == req[r].pc = l
Goto(r, l) == req' = [req EXCEPT ![r].pc = l]
Done(r) == req' = [req EXCEPT ![r] = IdleRequest]

Stored == sub.status # "absent"

\* The webhook in slot r and its event.
Webhook(r) == req[r].op = "webhook"
Ev(r) == sent[req[r].w]

\* The handler answers 200, and the provider forgets the webhook.
Answer(r) ==
    /\ due' = due \ {req[r].w}
    /\ Done(r)

\* The plan that GetHostPlan finds when the cache is empty.
GraceIsOver == sub.status = "in_grace" /\ sub.grace = "over"
SubPlan == IF ~Stored \/ sub.cancelled \/ GraceIsOver THEN Free ELSE sub.plan

\* The provider sends the events es, in this order.
Emit(es) ==
    /\ Len(sent) + Len(es) <= MaxWebhooks
    /\ sent' = sent \o es
    /\ due' = due \cup (Len(sent) + 1)..(Len(sent) + Len(es))

E(t, p) == [type |-> t, plan |-> p]

server == <<mongo, redis, req, job, history>>

\* What must not happen for ever in an instance takes one of its turns.
Turn == turns < MaxTurns /\ turns' = turns + 1
Fail == Turn /\ disturbed' = TRUE
-----------------------------------------------------------------------------
(* The provider and the clock *)

\* The host pays for a checkout session.  Dodo may report the subscription as
\* pending first, and sometimes sends `renewed' on initial creation.
Purchase(p) ==
    /\ p \in sessions /\ psub[p] \in {"none", "cancelled"}
    /\ sessions' = sessions \ {p}
    /\ \/ /\ psub' = [psub EXCEPT ![p] = "pending"]
          /\ Emit(<<E("subscription.pending", p)>>)
       \/ /\ psub' = [psub EXCEPT ![p] = "active"]
          /\ \E t \in {"subscription.active", "subscription.created"} :
               Emit(<<E("payment.succeeded", p), E(t, p)>>)
    /\ UNCHANGED server

Activate(p) ==
    /\ psub[p] \in {"pending", "on_hold"}
    /\ psub' = [psub EXCEPT ![p] = "active"]
    /\ Emit(<<E("payment.succeeded", p), E("subscription.active", p)>>)
    /\ UNCHANGED <<sessions, server>>

Renew(p) ==
    /\ psub[p] = "active"
    /\ Emit(<<E("payment.succeeded", p), E("subscription.renewed", p)>>)
    /\ UNCHANGED <<psub, sessions, server>>

PaymentFails(p) ==
    /\ psub[p] = "active"
    /\ psub' = [psub EXCEPT ![p] = "on_hold"]
    /\ Emit(<<E("payment.failed", p)>>)
    /\ UNCHANGED <<sessions, server>>

\* At the end of the period, or after failed payments, or from the dashboard.
EndSubscription(p) ==
    /\ psub[p] \in {"active", "on_hold"}
    /\ psub' = [psub EXCEPT ![p] = "cancelled"]
    /\ Emit(<<E("subscription.cancelled", p)>>)
    /\ UNCHANGED <<sessions, server>>

GraceEnds ==
    /\ sub.grace = "running"
    /\ sub' = [sub EXCEPT !.grace = "over"]
    /\ UNCHANGED <<provider, tier, hours, billed, redis, req, job, history>>

PeriodEndNears ==
    /\ Stored /\ ~sub.near
    /\ sub' = [sub EXCEPT !.near = TRUE]
    /\ Turn
    /\ UNCHANGED <<provider, tier, hours, billed, redis, req, job, reminders, disturbed>>

\* Mutant: only the free plan is cached with a TTL.
CacheExpiresFreeOnly ==
    /\ cache = Free
    /\ cache' = NoPlan
    /\ UNCHANGED <<provider, mongo, answered, checkouts, req, job, history>>

\* The TTL of a plan in the cache: an hour, ten minutes for the free plan.
CacheExpires ==
    /\ cache # NoPlan
    /\ cache' = NoPlan
    /\ UNCHANGED <<provider, mongo, answered, checkouts, req, job, history>>

CheckoutKeyExpires(p) ==
    /\ p \in checkouts
    /\ checkouts' = checkouts \ {p}
    /\ Turn
    /\ UNCHANGED <<provider, mongo, answered, cache, req, job, reminders, disturbed>>
-----------------------------------------------------------------------------
(* Reading the plan and the subscription *)

Begin(r, o, l, p) ==
    /\ o \in Ops /\ At(r, "idle")
    /\ Turn
    /\ req' = [req EXCEPT ![r] = [IdleRequest EXCEPT !.op = o, !.pc = l, !.plan = p]]
    /\ UNCHANGED <<reminders, disturbed>>

\* A request, other than that of slot r, that has read the document and is about
\* to write it, or the tier.
ReaderBetween(r) ==
    \E o \in Slots \ {r} : ~Webhook(o) /\ req[o].pc \in
                            {"expire", "downgrade", "details", "sync"}

\* A write of slot r under such a request.
NoteReader(r) == disturbed' = (disturbed \/ ReaderBetween(r))

\* GetHostPlan (for a limit, the history, a queue to create) misses the cache;
\* a hit changes nothing.
StartPlan(r) ==
    /\ cache = NoPlan
    /\ Begin(r, "plan", "find", NoPlan)
    /\ UNCHANGED <<provider, mongo, redis, job>>

StartSubscription(r) ==
    /\ Begin(r, "subscription", "find", NoPlan)
    /\ UNCHANGED <<provider, mongo, redis, job>>

StartCancel(r) ==
    /\ Begin(r, "cancel", "find", NoPlan)
    /\ UNCHANGED <<provider, mongo, redis, job>>

\* Where a request continues when there is no subscription.
NoDocuments(r) ==
    IF req[r].op = "plan"
    THEN req' = [req EXCEPT ![r].plan = Free, ![r].pc = "fill"]
    ELSE Done(r)

\* Where a request continues with the subscription it has found: GET
\* subscription asks the provider when the card is unknown; a cancellation is
\* refused when it is already scheduled.
WithDocument(r) ==
    LET found(p, l) == req' = [req EXCEPT ![r].plan = p, ![r].pc = l]
    IN  \/ req[r].op = "plan" /\ found(sub.plan, "fill")
        \/ req[r].op = "subscription" /\ (found(sub.of, "details") \/ Done(r))
        \/ /\ req[r].op = "cancel"
           /\ IF sub.atEnd THEN Done(r) ELSE found(sub.of, "cancelAtProvider")

\* GetSubscription: the document that is not cancelled, whatever its status.
FindSubscription(r) ==
    /\ At(r, "find")
    /\ IF ~Stored \/ sub.cancelled
       THEN NoDocuments(r)
       ELSE IF GraceIsOver
            THEN Goto(r, "expire")
            ELSE WithDocument(r)
    /\ UNCHANGED <<provider, mongo, redis, job, history>>

\* GetSubscription after the grace period: cancels the host's document, by
\* host_id, whether or not it is still the one that was read.
ExpireGrace(r) ==
    /\ At(r, "expire")
    /\ sub' = [sub EXCEPT !.status = "canceled", !.cancelled = TRUE]
    /\ NoteReader(r)
    /\ Goto(r, "downgrade")
    /\ UNCHANGED <<provider, tier, hours, billed, redis, job, reminders, turns>>

\* downgradeHostTier, and the same write in HandleCancellation.
Downgrade(r) ==
    /\ At(r, "downgrade")
    /\ tier' = Free
    /\ IF Webhook(r) THEN Goto(r, "drop") ELSE NoDocuments(r)
    /\ UNCHANGED <<provider, sub, hours, billed, redis, job, history>>

\* setCacheHostPlan, with the plan as it was when it was read.
FillCache(r) ==
    /\ At(r, "fill")
    /\ cache' = req[r].plan
    /\ Done(r)
    /\ UNCHANGED <<provider, mongo, answered, checkouts, job, history>>

\* SyncSubscriptionDetails 1: the provider's state of the subscription.
ReadDetails(r) ==
    /\ At(r, "details")
    /\ req' = [req EXCEPT ![r].status = psub[req[r].plan], ![r].pc = "sync"]
    /\ UNCHANGED <<provider, mongo, redis, job, history>>

\* SyncSubscriptionDetails 2: stores the provider's word for the status.  Dodo
\* says `cancelled', which is not SubscriptionCanceled: cancelled_at becomes nil.
\* The period end, which it copies too, is left to the payment's webhook.
SyncDetails(r) ==
    /\ At(r, "sync")
    /\ sub' = [sub EXCEPT !.status = req[r].status, !.cancelled = FALSE]
    /\ Done(r)
    /\ UNCHANGED <<provider, tier, hours, billed, redis, job, history>>
-----------------------------------------------------------------------------
(* Cancelling and buying *)

\* CancelSubscriptionAtPeriodEnd: the provider schedules the cancellation of a
\* subscription that runs, and reports it by subscription.updated, or refuses.
CancelAtProvider(r) ==
    /\ At(r, "cancelAtProvider")
    /\ \/ /\ psub[req[r].plan] \in {"active", "on_hold"}
          /\ \/ Emit(<<E("subscription.updated", req[r].plan)>>)
             \/ Len(sent) = MaxWebhooks /\ UNCHANGED <<sent, due>>
          /\ Goto(r, "markAtEnd")
       \/ /\ psub[req[r].plan] \notin {"active", "on_hold"}
          /\ Done(r) /\ UNCHANGED <<sent, due>>
    /\ UNCHANGED <<psub, sessions, mongo, redis, job, history>>

MarkAtEnd(r) ==
    /\ At(r, "markAtEnd")
    /\ sub' = [sub EXCEPT !.atEnd = TRUE]
    /\ Goto(r, "drop")
    /\ UNCHANGED <<provider, tier, hours, billed, redis, job, history>>

\* invalidateHostPlanCache as the last step of a handler.
DropCache(r) ==
    /\ At(r, "drop")
    /\ cache' = NoPlan
    /\ IF Webhook(r) THEN Answer(r) ELSE Done(r) /\ UNCHANGED due
    /\ UNCHANGED <<psub, sessions, sent, mongo, answered, checkouts, job, history>>

\* GetCheckoutURL takes the key of the host and the plan, or is refused.
StartCheckout(r, p) ==
    /\ p \notin checkouts
    /\ \E o \in {"checkout", "trial"} : Begin(r, o, "lookup", p)
    /\ checkouts' = checkouts \cup {p}
    /\ UNCHANGED <<provider, mongo, answered, cache, job>>

\* CreateCheckoutURL 7 and 7b: an active subscription of the plan, or any record
\* of it when a trial is asked for, is refused.
CheckoutRefused(r) ==
    \/ sub.plan = req[r].plan /\ sub.status = "active" /\ ~sub.cancelled
    \/ req[r].op = "trial" /\ sub.plan = req[r].plan

LookupSubscription(r) ==
    /\ At(r, "lookup")
    /\ Goto(r, IF CheckoutRefused(r) THEN "unlock" ELSE "session")
    /\ UNCHANGED <<provider, mongo, redis, job, history>>

\* CreateCheckoutSession, and a pending transaction that nobody reads.
CreateSession(r) ==
    /\ At(r, "session")
    /\ sessions' = sessions \cup {req[r].plan}
    /\ Goto(r, "unlock")
    /\ UNCHANGED <<psub, sent, due, mongo, redis, job, history>>

\* The deferred DEL, of this request's key or of the one that replaced it.
ReleaseCheckout(r) ==
    /\ At(r, "unlock")
    /\ checkouts' = checkouts \ {req[r].plan}
    /\ Done(r)
    /\ UNCHANGED <<provider, mongo, answered, cache, job, history>>
-----------------------------------------------------------------------------
(* Webhooks *)

\* Delivered before an earlier event was processed, or while one is processed.
Overtakes(w) ==
    \/ \E v \in due : v < w /\ v \notin answered
    \/ \E r \in Slots : Webhook(r)

\* Mutant: the key is read, and set by another command when the event is done.
ReceiveWithoutKey(r, w) ==
    /\ At(r, "idle") /\ w \in due
    /\ req' = [req EXCEPT ![r] = [IdleRequest EXCEPT !.op = "webhook", !.w = w,
                                                     !.pc = "invalidate"]]
    /\ disturbed' = (disturbed \/ Overtakes(w))
    /\ answered' = answered \cup {w}
    /\ UNCHANGED <<provider, mongo, cache, checkouts, job, reminders, turns>>

\* Mutant: a known id is refused with an error.
ReceiveRefusingDuplicates(r, w) ==
    /\ At(r, "idle") /\ w \in due /\ w \notin answered
    /\ req' = [req EXCEPT ![r] = [IdleRequest EXCEPT !.op = "webhook", !.w = w,
                                                     !.pc = "invalidate"]]
    /\ disturbed' = (disturbed \/ Overtakes(w))
    /\ answered' = answered \cup {w}
    /\ UNCHANGED <<provider, mongo, cache, checkouts, job, reminders, turns>>

\* HandleWebhook: SET NX of webhook:{id}; a known id is answered at once.  The
\* key outlives the provider's retries.
Receive(r, w) ==
    /\ At(r, "idle") /\ w \in due
    /\ IF w \in answered
       THEN /\ due' = due \ {w}
            /\ UNCHANGED <<req, answered, disturbed>>
       ELSE /\ req' = [req EXCEPT ![r] = [IdleRequest EXCEPT !.op = "webhook", !.w = w,
                                                            !.pc = "invalidate"]]
            /\ disturbed' = (disturbed \/ Overtakes(w))
            /\ answered' = answered \cup {w}
            /\ UNCHANGED due
    /\ UNCHANGED <<psub, sessions, sent, mongo, cache, checkouts, job, reminders, turns>>

\* Where ProcessBillingEvent goes on for each type of event.
Route == [t \in EventTypes |->
    CASE t = "payment.succeeded" -> "bill"
      [] t = "payment.failed" -> "grace"
      [] t \in {"subscription.active", "subscription.renewed",
                "subscription.pending"} -> "state"
      [] t = "subscription.updated" -> "metadata"
      [] t = "subscription.cancelled" -> "cancel"
      [] OTHER -> "done"]

Dispatch(r) ==
    IF Route[Ev(r).type] = "done"
    THEN Answer(r)
    ELSE Goto(r, Route[Ev(r).type]) /\ UNCHANGED due

\* ProcessBillingEvent drops the cached plan first.  `created' is `renewed'
\* without a previous billing date, which is ignored.
InvalidatePlan(r) ==
    /\ At(r, "invalidate")
    /\ cache' = NoPlan
    /\ Dispatch(r)
    /\ UNCHANGED <<psub, sessions, sent, mongo, answered, checkouts, job, history>>

\* HandlePaymentSucceeded 1: the transaction and the billing record.
InsertRecord(r) ==
    /\ At(r, "bill")
    /\ billed' = [billed EXCEPT ![req[r].w] = @ + 1]
    /\ Goto(r, "upsert")
    /\ UNCHANGED <<provider, sub, tier, hours, redis, job, history>>

\* Mutant: the status of the payment is stored as that of the subscription.
UpsertPaymentStatus(r) ==
    /\ At(r, "upsert")
    /\ sub' = [sub EXCEPT !.plan = Ev(r).plan, !.of = Ev(r).plan, !.status = "succeeded",
                          !.cancelled = FALSE, !.atEnd = FALSE, !.near = FALSE,
                          !.reminded = FALSE]
    /\ reminders' = 0
    /\ NoteReader(r)
    /\ Goto(r, "tier")
    /\ UNCHANGED <<provider, tier, hours, billed, redis, job, turns>>

\* Mutant: the update does not clear cancelled_at.
UpsertKeepingCancelledAt(r) ==
    /\ At(r, "upsert")
    /\ sub' = [sub EXCEPT !.plan = Ev(r).plan, !.of = Ev(r).plan, !.status = "active",
                          !.atEnd = FALSE, !.near = FALSE, !.reminded = FALSE]
    /\ reminders' = 0
    /\ NoteReader(r)
    /\ Goto(r, "tier")
    /\ UNCHANGED <<provider, tier, hours, billed, redis, job, turns>>

\* HandlePaymentSucceeded 2: upserts the document for a new period.
UpsertSubscription(r) ==
    /\ At(r, "upsert")
    /\ sub' = [sub EXCEPT !.plan = Ev(r).plan, !.of = Ev(r).plan, !.status = "active",
                          !.cancelled = FALSE, !.atEnd = FALSE, !.near = FALSE,
                          !.reminded = FALSE]
    /\ reminders' = 0
    /\ NoteReader(r)
    /\ Goto(r, "tier")
    /\ UNCHANGED <<provider, tier, hours, billed, redis, job, turns>>

\* HandlePaymentSucceeded and HandleSubscriptionUpdated: the tier of the plan.
SetTier(r) ==
    /\ At(r, "tier")
    /\ tier' = Ev(r).plan
    /\ NoteReader(r)
    /\ Goto(r, "extend")
    /\ UNCHANGED <<provider, sub, hours, billed, redis, job, reminders, turns>>

\* Only subscription.updated drops the cached plan once more.
AfterExtend(r) ==
    IF Ev(r).type = "subscription.updated"
    THEN Goto(r, "drop") /\ UNCHANGED due
    ELSE Answer(r)

\* ExtendActiveQueuesExpiry.
ExtendQueues(r) ==
    /\ At(r, "extend")
    /\ hours' = Ev(r).plan
    /\ AfterExtend(r)
    /\ UNCHANGED <<psub, sessions, sent, sub, tier, billed, redis, job, history>>

\* HandleFailedPayment: three days of grace, unless there is no document.
StartGrace(r) ==
    /\ At(r, "grace")
    /\ IF Stored
       THEN /\ sub' = [sub EXCEPT !.status = "in_grace", !.grace = "running"]
            /\ Goto(r, "drop") /\ UNCHANGED due
       ELSE Answer(r) /\ UNCHANGED sub
    /\ NoteReader(r)
    /\ UNCHANGED <<psub, sessions, sent, tier, hours, billed, redis, job,
                   reminders, turns>>

\* The update of HandleSubscriptionStateUpdate: plan_id only on insert.
NewState(e) ==
    [sub EXCEPT !.plan = IF Stored THEN @ ELSE e.plan,
                !.of = e.plan,
                !.status = IF e.type = "subscription.pending" THEN "pending" ELSE "active",
                !.cancelled = FALSE, !.near = FALSE, !.reminded = FALSE]

\* HandleSubscriptionStateUpdate: the status, never the tier.  The reset of the
\* monthly counter that follows is in HostQueues.
UpdateState(r) ==
    /\ At(r, "state")
    /\ sub' = NewState(Ev(r))
    /\ reminders' = 0
    /\ NoteReader(r)
    /\ Answer(r)
    /\ UNCHANGED <<psub, sessions, sent, tier, hours, billed, redis, job, turns>>

\* HandleSubscriptionUpdated: UpdateOne without upsert.
UpdateMetadata(r) ==
    /\ At(r, "metadata")
    /\ sub' = IF Stored
              THEN [sub EXCEPT !.plan = Ev(r).plan, !.atEnd = TRUE]
              ELSE sub
    /\ NoteReader(r)
    /\ Goto(r, "tier")
    /\ UNCHANGED <<provider, tier, hours, billed, redis, job, reminders, turns>>

\* HandleCancellation: the host's document, whichever subscription was cancelled.
CancelSubscription(r) ==
    /\ At(r, "cancel")
    /\ sub' = IF Stored
              THEN [sub EXCEPT !.status = "canceled", !.cancelled = TRUE]
              ELSE sub
    /\ NoteReader(r)
    /\ Goto(r, "downgrade")
    /\ UNCHANGED <<provider, tier, hours, billed, redis, job, reminders, turns>>
-----------------------------------------------------------------------------
(* The reminder job: once a day, also right after a start *)

\* GetSubscriptionsExpiringIn.
FindExpiring ==
    /\ job = "idle"
    /\ sub.status = "active" /\ ~sub.cancelled /\ ~sub.reminded /\ sub.near
    /\ reminders < 2                      \* bound
    /\ job' = "send"
    /\ UNCHANGED <<provider, mongo, redis, req, history>>

SendReminder ==
    /\ job = "send"
    /\ reminders' = reminders + 1
    /\ job' = "mark"
    /\ UNCHANGED <<provider, mongo, redis, req, turns, disturbed>>

\* Mutant: the update asks for the status it has just read, in another case.
MarkNothing ==
    /\ job = "mark"
    /\ job' = "idle"
    /\ UNCHANGED <<provider, mongo, redis, req, history>>

\* The document of the host if it is not cancelled, renewed or not.
MarkReminded ==
    /\ job = "mark"
    /\ sub' = IF Stored /\ ~sub.cancelled THEN [sub EXCEPT !.reminded = TRUE] ELSE sub
    /\ job' = "idle"
    /\ UNCHANGED <<provider, tier, hours, billed, redis, req, history>>
-----------------------------------------------------------------------------
(* Failures *)

\* The step after a failed command whose error is logged or ignored.
NextOf == [l \in PCs |->
    CASE l \in {"expire", "cancel"} -> "downgrade"
      [] l \in {"markAtEnd", "downgrade"} -> "drop"
      [] l = "bill" -> "upsert"
      [] l = "tier" -> "extend"
      [] l = "session" -> "unlock"
      [] OTHER -> "idle"]

\* A failed command has no effect.  ProcessBillingEvent returns the error of
\* `upsert', `grace', `state' and `metadata': the answer is 500, the provider
\* keeps the webhook, and the key webhook:{id} stays.  A plan that cannot be
\* read on payment makes the host's tier free.
WebhookCommandFails(r) ==
    /\ Webhook(r)
    /\ \/ /\ req[r].pc \in {"upsert", "grace", "state", "metadata"}
          /\ Done(r) /\ UNCHANGED <<tier, due>>
       \/ /\ req[r].pc \in {"bill", "tier", "cancel", "downgrade"}
          /\ Goto(r, NextOf[req[r].pc]) /\ UNCHANGED <<tier, due>>
       \/ /\ At(r, "tier")
          /\ IF Ev(r).type = "subscription.updated"
             THEN Goto(r, "drop") /\ UNCHANGED <<tier, due>>
             ELSE tier' = Free /\ Answer(r)
       \/ /\ \/ At(r, "drop") /\ Answer(r)
             \/ At(r, "extend") /\ AfterExtend(r)
             \/ At(r, "invalidate") /\ Dispatch(r)
          /\ UNCHANGED tier
    /\ Fail
    /\ UNCHANGED <<psub, sessions, sent, sub, hours, billed, redis, job, reminders>>

\* A read that fails ends a request, except that a checkout takes it for `no
\* active subscription'.
RequestCommandFails(r) ==
    /\ ~Webhook(r) /\ ~At(r, "idle")
    /\ \/ /\ At(r, "lookup")
          /\ Goto(r, IF req[r].op = "trial" THEN "unlock" ELSE "session")
       \/ At(r, "downgrade") /\ NoDocuments(r)
       \/ /\ req[r].pc \notin {"lookup", "downgrade"}
          /\ IF NextOf[req[r].pc] = "idle" THEN Done(r) ELSE Goto(r, NextOf[req[r].pc])
    /\ Fail
    /\ UNCHANGED <<provider, mongo, redis, job, reminders>>

\* The SET NX fails: the error is taken for a duplicate and answered 200.
ReceiveFails(w) ==
    /\ w \in due
    /\ \E r \in Slots : At(r, "idle")
    /\ due' = due \ {w}
    /\ Fail
    /\ UNCHANGED <<psub, sessions, sent, mongo, redis, req, job, reminders>>

\* The reminder is sent and the mark fails, or the process stops in between.
JobFails ==
    /\ job # "idle"
    /\ job' = "idle"
    /\ Fail
    /\ UNCHANGED <<provider, mongo, redis, req, reminders>>
-----------------------------------------------------------------------------
Environment ==
    \/ \E p \in Plans : \/ Purchase(p) \/ Activate(p) \/ Renew(p) \/ PaymentFails(p)
                        \/ EndSubscription(p) \/ CheckoutKeyExpires(p)
    \/ GraceEnds \/ PeriodEndNears

\* A request or webhook that has begun takes its next step.
Handler(r) ==
    \/ FindSubscription(r) \/ ExpireGrace(r) \/ Downgrade(r) \/ FillCache(r)
    \/ ReadDetails(r) \/ SyncDetails(r)
    \/ CancelAtProvider(r) \/ MarkAtEnd(r) \/ DropCache(r)
    \/ LookupSubscription(r) \/ CreateSession(r) \/ ReleaseCheckout(r)
    \/ InvalidatePlan(r) \/ InsertRecord(r) \/ UpsertSubscription(r) \/ SetTier(r)
    \/ ExtendQueues(r) \/ StartGrace(r) \/ UpdateState(r)
    \/ UpdateMetadata(r) \/ CancelSubscription(r)

Start(r) ==
    \/ StartPlan(r) \/ StartSubscription(r) \/ StartCancel(r)
    \/ \E p \in Plans : StartCheckout(r, p)

Deliver(w) == \E r \in Slots : Receive(r, w)

Job == FindExpiring \/ SendReminder \/ MarkReminded

Failure ==
    \/ \E r \in Slots : WebhookCommandFails(r) \/ RequestCommandFails(r)
    \/ \E w \in due : ReceiveFails(w)
    \/ JobFails

Next ==
    \/ Environment
    \/ \E r \in Slots : Handler(r) \/ Start(r)
    \/ \E w \in due : Deliver(w)
    \/ Job
    \/ CacheExpires
    \/ Failure

Spec == Init /\ [][Next]_vars

\* Handlers run to their end, the provider retries what is not answered, and the
\* cached plan has a TTL.  Requests of the host, payments and the passing of
\* periods need not happen.
Fairness ==
    /\ \A r \in Slots : WF_vars(Handler(r))
    /\ \A w \in Ids : WF_vars(w \in due /\ Deliver(w))
    /\ WF_vars(CacheExpires)

FairSpec == Spec /\ Fairness
-----------------------------------------------------------------------------
(* Properties *)

\* Repeated and concurrent deliveries of a webhook, and retries after a 500,
\* bill a payment at most once.
BilledOnce == \A w \in Ids : billed[w] <= 1

Quiet == due = {} /\ \A r \in Slots : At(r, "idle")

\* The provider has, or has had, at most one subscription of this host.
OneSubscription == \A p, q \in Plans : psub[p] # "none" /\ psub[q] # "none" => p = q

\* When the webhooks of a host were processed in order, and none was lost or
\* crossed a stale read, what is stored agrees with the provider: a cancelled
\* subscription leaves no paid tier, an active one has the paid plan, tier and
\* queue expiry, one on hold is in grace.
SettledAgrees ==
    Quiet /\ ~disturbed /\ OneSubscription =>
        \A p \in Plans :
          /\ psub[p] = "cancelled" => SubPlan = Free /\ tier = Free
          /\ psub[p] = "active" =>
               /\ sub.plan = p /\ sub.status = "active" /\ ~sub.cancelled
               /\ tier = p /\ hours = p
          /\ psub[p] = "on_hold" => sub.status \in {"in_grace", "canceled", "on_hold"}

\* A billing period is reminded of once, although webhooks reset the mark while
\* the job runs.
RemindedOnce == ~disturbed => reminders <= 1

\* Every webhook is answered in the end, and is not delivered for ever.
WebhooksAnswered == <>[](due = {})

\* Whatever stale plans were cached by reads that crossed a billing event, in
\* the end the cache is empty or has the plan of the subscription.
CacheConverges == <>[](cache \in {NoPlan, SubPlan})
=============================================================================
