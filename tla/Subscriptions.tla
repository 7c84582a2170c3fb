---------------------------- MODULE Subscriptions ----------------------------
(***************************************************************************)
(* SubscriptionsService for one company: the webhook that copies what      *)
(* happens at Stripe into the subscriptions table, the requests that start *)
(* a checkout, cancel, resume and change the plan, and the guard that lets *)
(* a subscribed company in.  Stripe is external: it changes its            *)
(* subscriptions and sends events, each delivered again and again, in any  *)
(* order, until a delivery is answered without an error.                   *)
(*                                                                         *)
(* stripe[s]  the subscription at Stripe; row[s] its row in the database.  *)
(* event      the events Stripe has sent, oldest first; an event is its    *)
(*            place in this sequence.                                      *)
(* processed  the events in processed_stripe_events.                       *)
(* companyCustomer   company.stripeCustomerId.                             *)
(* sessions   the open checkout sessions: for which Stripe customer and    *)
(*            which plan.                                                  *)
(* handler[h] a delivery being handled; request[c] a request of an admin.  *)
(* crashes, newest[s]  history: how many deliveries died, and the youngest *)
(*            event whose content was written to the row, or Disordered    *)
(*            once an older one was written after it.                      *)
(* Left out: billing periods, and the notification that a handler emits    *)
(* after it has written, with the row it looks up to know whom to tell.    *)
(* Stripe collects every invoice itself: nobody pays one of a subscription *)
(* that has ended or tries one of an unpaid subscription by hand, and the  *)
(* checkout asks for no trial.                                             *)
(***************************************************************************)
EXTENDS FiniteSets, Sequences, Integers

CONSTANTS
  Subscriptions, Customers,
  Plans,       \* the plans in the plan table, each with its price at Stripe
  Unlisted,    \* prices at Stripe that no plan has
  Handlers, Clients,
  MaxEvents,   \* bound: the events Stripe sends
  MaxCrashes   \* bound: the deliveries that fail before they are marked

ASSUME BoundsAssumption == MaxEvents \in Nat /\ MaxCrashes \in Nat
ASSUME ClientsAssumption == IsFiniteSet(Clients)
ASSUME CustomersAssumption == "none" \notin Customers

VARIABLES stripe, event, processed, row, companyCustomer, sessions,
          handler, request, crashes, newest

database == <<processed, row, companyCustomer>>
atStripe == <<stripe, event, sessions>>
history == <<crashes, newest>>
vars == <<database, atStripe, handler, request, history>>

Nobody == "none"
Disordered == MaxEvents + 1
NotSubscribed == [status |-> Nobody, cancels |-> FALSE, plan |-> Nobody, customer |-> Nobody]
NoRow == [status |-> Nobody, cancels |-> FALSE, plan |-> Nobody]
IdleHandler == [pc |-> "idle", event |-> 0, seen |-> NotSubscribed]
NoChange == [of |-> Nobody, to |-> Nobody]
IdleRequest == [pc |-> "idle", on |-> Nobody, change |-> NoChange, number |-> 0]

(* A subscription or a row in which the column the change is of is set.    *)
With(r, change) ==
  IF change.of = "plan" THEN [r EXCEPT !.plan = change.to] ELSE [r EXCEPT !.cancels = change.to]

(* mapStripeStatus; "paused" stands for the statuses it does not list.     *)
mapStripeStatus ==
  [active |-> "ACTIVE", past_due |-> "PAST_DUE", canceled |-> "CANCELED",
   incomplete |-> "INCOMPLETE", incomplete_expired |-> "CANCELED",
   trialing |-> "TRIALING", unpaid |-> "UNPAID", paused |-> "INCOMPLETE"]
SubscriptionStatus == {mapStripeStatus[s] : s \in DOMAIN mapStripeStatus}

EventTypes == {"checkout", "paid", "failed", "updated", "deleted"}

Init ==
  /\ stripe = [s \in Subscriptions |-> NotSubscribed]
  /\ row = [s \in Subscriptions |-> NoRow]
  /\ event = <<>> /\ processed = {}
  /\ companyCustomer = Nobody /\ sessions = {}
  /\ handler = [h \in Handlers |-> IdleHandler]
  /\ request = [c \in Clients |-> IdleRequest]
  /\ crashes = 0
  /\ newest = [s \in Subscriptions |-> 0]

------------------------------------------------------------------------------
(* Stripe: what a subscription goes through there, and the events of it.   *)

Running(s) == stripe[s].status \in {"active", "past_due", "unpaid"}

(* The change of a subscription and its events, of the given types.        *)
Send(s, now, types) ==
  /\ Len(event) + Len(types) <= MaxEvents
  /\ stripe' = [stripe EXCEPT ![s] = now]
  /\ event' = event \o [i \in DOMAIN types |->
                          [type |-> types[i], of |-> s, now |-> now]]

(* The customer completes the checkout of an open session.                 *)
StripeCheckout(s) ==
  \E session \in sessions :
    /\ stripe[s] = NotSubscribed
    /\ Send(s, [status |-> "active", cancels |-> FALSE,
                plan |-> session.plan, customer |-> session.customer], <<"checkout">>)
    /\ sessions' = sessions \ {session}
    /\ UNCHANGED <<database, handler, request, history>>

(* An invoice is paid; its subscription is updated when it was behind.     *)
StripePaid(s) ==
  /\ Running(s)
  /\ Send(s, [stripe[s] EXCEPT !.status = "active"],
          IF stripe[s].status = "active" THEN <<"paid">> ELSE <<"paid", "updated">>)
  /\ UNCHANGED <<database, sessions, handler, request, history>>

(* The payment of an invoice fails, for the first time or once more, or    *)
(* Stripe has tried often enough.                                          *)
StripePaymentFails(s) ==
  \E status \in {"past_due", "unpaid"} :
    /\ stripe[s].status \in (IF status = "unpaid" THEN {"past_due"} ELSE {"active", "past_due"})
    /\ Send(s, [stripe[s] EXCEPT !.status = status],
            CASE stripe[s].status = status   -> <<"failed">>
              [] stripe[s].status = "active" -> <<"failed", "updated">>
              [] status = "unpaid"           -> <<"updated">>)
    /\ UNCHANGED <<database, sessions, handler, request, history>>

(* The customer cancels, resumes or takes another price in the billing     *)
(* portal, which getBillingPortalUrl opens to a company with a customer.   *)
StripePortal(s) ==
  /\ companyCustomer # Nobody
  /\ Running(s)
  /\ \/ Send(s, [stripe[s] EXCEPT !.cancels = ~@], <<"updated">>)
     \/ \E price \in (Plans \cup Unlisted) \ {stripe[s].plan} :
          Send(s, [stripe[s] EXCEPT !.plan = price], <<"updated">>)
  /\ UNCHANGED <<database, sessions, handler, request, history>>

StripeEnds(s) ==
  /\ Running(s)
  /\ Send(s, [stripe[s] EXCEPT !.status = "canceled"], <<"deleted">>)
  /\ UNCHANGED <<database, sessions, handler, request, history>>

StripeStep(s) ==
  StripeCheckout(s) \/ StripePaid(s) \/ StripePaymentFails(s) \/ StripePortal(s)
  \/ StripeEnds(s)

------------------------------------------------------------------------------
(* handleWebhook.                                                          *)

At(h, label) == handler[h].pc = label
Event(h) == event[handler[h].event]
Goto(h, label) == handler' = [handler EXCEPT ![h].pc = label]

(* What an event says is written to the row of s.                          *)
Order(s, number) ==
  newest' = [newest EXCEPT ![s] = IF number >= @ THEN number ELSE Disordered]

(* A delivery of an event that is not marked as processed; one of an event *)
(* that is changes nothing.                                                *)
Receive(h) ==
  \E e \in DOMAIN event \ processed :
    /\ At(h, "idle")
    /\ handler' = [handler EXCEPT ![h].pc = "received", ![h].event = e]
    /\ UNCHANGED <<database, atStripe, request, history>>

(* handleCheckoutCompleted: the company of the session's customer ...      *)
FindCompany(h) ==
  /\ At(h, "received") /\ Event(h).type = "checkout"
  /\ Goto(h, IF companyCustomer = stripe[Event(h).of].customer
             THEN "retrieving" ELSE "handled")
  /\ UNCHANGED <<database, atStripe, request, history>>

(* ... and the subscription as it is at Stripe now; nothing more is done   *)
(* when no plan has its price.                                             *)
RetrieveSubscription(h) ==
  LET now == stripe[Event(h).of]
  IN  /\ At(h, "retrieving")
      /\ IF now.plan \in Plans
         THEN handler' = [handler EXCEPT ![h].pc = "writing", ![h].seen = now]
         ELSE Goto(h, "handled")
      /\ UNCHANGED <<database, atStripe, request, history>>

(* Mutants of NewStatus: the status is stored as Stripe spells it; the end *)
(* of a subscription is not stored.                                        *)
NewStatusRaw(h) ==
  IF Event(h).type = "checkout" THEN handler[h].seen.status ELSE "ACTIVE"
NewStatusKeptAtEnd(h) ==
  IF Event(h).type = "deleted" THEN row[Event(h).of].status
  ELSE mapStripeStatus[Event(h).now.status]

(* The status a handler writes.                                            *)
NewStatus(h) ==
  CASE Event(h).type = "paid" -> "ACTIVE"
    [] Event(h).type = "failed" -> "PAST_DUE"
    [] Event(h).type = "deleted" -> "CANCELED"
    [] Event(h).type = "updated" -> mapStripeStatus[Event(h).now.status]
    [] Event(h).type = "checkout" -> mapStripeStatus[handler[h].seen.status]

(* The row after the update; only handleSubscriptionUpdated writes all of  *)
(* the columns, the plan when one has the price.                           *)
NewRow(h, old) ==
  LET now == Event(h).now
  IN  CASE Event(h).type # "updated" -> [old EXCEPT !.status = NewStatus(h)]
        [] Event(h).type = "updated" /\ now.plan \in Plans ->
             [status |-> NewStatus(h), cancels |-> now.cancels, plan |-> now.plan]
        [] OTHER -> [old EXCEPT !.status = NewStatus(h), !.cancels = now.cancels]

(* upsert for a checkout, updateMany for the others: no row, no change.    *)
Write(h) ==
  LET s == Event(h).of
  IN  /\ At(h, "writing") \/ (At(h, "received") /\ Event(h).type # "checkout")
      /\ row' = [row EXCEPT ![s] =
           IF row[s] = NoRow
           THEN IF Event(h).type # "checkout" THEN NoRow
                ELSE [NoRow EXCEPT !.status = NewStatus(h), !.plan = handler[h].seen.plan]
           ELSE NewRow(h, row[s])]
      /\ Order(s, handler[h].event)
      /\ handler' = [handler EXCEPT ![h] =
                       [IdleHandler EXCEPT !.pc = "handled", !.event = handler[h].event]]
      /\ UNCHANGED <<processed, companyCustomer, atStripe, request, crashes>>

(* Mutant of Mark: it waits until no other delivery of the event runs.     *)
MarkAlone(h) ==
  /\ At(h, "handled")
  /\ \A g \in Handlers \ {h} : handler[g].event # handler[h].event
  /\ processed' = processed \cup {handler[h].event}
  /\ handler' = [handler EXCEPT ![h] = IdleHandler]
  /\ UNCHANGED <<row, companyCustomer, atStripe, request, history>>

(* The event is marked; a second mark violates the unique index and only   *)
(* fails the delivery.                                                     *)
Mark(h) ==
  /\ At(h, "handled")
  /\ processed' = processed \cup {handler[h].event}
  /\ handler' = [handler EXCEPT ![h] = IdleHandler]
  /\ UNCHANGED <<row, companyCustomer, atStripe, request, history>>

(* The delivery fails anywhere: Stripe or the database does not answer, or *)
(* the process dies.  Stripe will deliver the event again.                 *)
Crash(h) ==
  /\ ~At(h, "idle") /\ crashes < MaxCrashes
  /\ crashes' = crashes + 1
  /\ handler' = [handler EXCEPT ![h] = IdleHandler]
  /\ UNCHANGED <<database, atStripe, request, newest>>

Handle(h) ==
  FindCompany(h) \/ RetrieveSubscription(h) \/ Write(h) \/ Mark(h)

------------------------------------------------------------------------------
(* The requests of the company's admins.                                   *)

Asking(c, label) == request[c].pc = label
Finish(c) == request' = [request EXCEPT ![c] = IdleRequest]

(* createCheckoutSession: the company's customer as it is now, if any ...  *)
(* Bound: while a subscription is left and no session is open.             *)
StartCheckout(c) ==
  /\ Asking(c, "idle") /\ sessions = {}
  /\ \E s \in Subscriptions : stripe[s] = NotSubscribed
  /\ \E plan \in Plans :
       request' = [request EXCEPT ![c].on = companyCustomer, ![c].change = [of |-> "plan", to |-> plan],
                     ![c].pc = IF companyCustomer = Nobody THEN "noCustomer" ELSE "customer"]
  /\ UNCHANGED <<database, atStripe, handler, history>>

InUse == {companyCustomer} \cup {session.customer : session \in sessions} \cup {request[c].on : c \in Clients}
           \cup {stripe[s].customer : s \in Subscriptions}

(* Mutant of CreateCustomer: the new customer is not saved.                *)
CreateCustomerUnsaved(c) ==
  \E customer \in Customers \ InUse :
    /\ Asking(c, "noCustomer")
    /\ request' = [request EXCEPT ![c].pc = "customer", ![c].on = customer]
    /\ UNCHANGED <<database, atStripe, handler, history>>

(* ... or a new one, created at Stripe ...                                 *)
CreateCustomer(c) ==
  \E customer \in Customers \ InUse :
    /\ Asking(c, "noCustomer")
    /\ request' = [request EXCEPT ![c].pc = "created", ![c].on = customer]
    /\ UNCHANGED <<database, atStripe, handler, history>>

(* ... and saved in the company; then the session is opened.               *)
SaveCustomer(c) ==
  /\ Asking(c, "created")
  /\ companyCustomer' = request[c].on
  /\ request' = [request EXCEPT ![c].pc = "customer"]
  /\ UNCHANGED <<processed, row, atStripe, handler, history>>

OpenSession(c) ==
  /\ Asking(c, "customer")
  /\ sessions' = sessions \cup {[customer |-> request[c].on, plan |-> request[c].change.to]}
  /\ Finish(c)
  /\ UNCHANGED <<database, stripe, event, handler, history>>

(* The rows that the guard, cancelSubscription, resumeSubscription and     *)
(* changePlan look for; the company is let in when there is one.           *)
ActiveRows == {s \in Subscriptions : row[s].status \in {"ACTIVE", "TRIALING"}}
canActivate == ActiveRows # {}

Find(c, s, change) ==
  /\ Asking(c, "idle")
  /\ request' = [request EXCEPT ![c] = [pc |-> "found", on |-> s, change |-> change, number |-> 0]]
  /\ UNCHANGED <<database, atStripe, handler, history>>

(* cancelSubscription finds an active row, resumeSubscription one that is  *)
(* to be canceled ...                                                      *)
FindSubscription(c) ==
  \E s \in ActiveRows, cancels \in BOOLEAN :
    /\ cancels \/ row[s].cancels
    /\ Find(c, s, [of |-> "cancels", to |-> cancels])

(* ... and changePlan an active one and the new plan ...                   *)
FindPlan(c) == \E s \in ActiveRows, plan \in Plans : Find(c, s, [of |-> "plan", to |-> plan])

(* The three ask Stripe, which refuses when the subscription has ended and *)
(* sends an event when it changes something ...                            *)
AskStripe(c) ==
  LET s == request[c].on
      now == With(stripe[s], request[c].change)
  IN  /\ Asking(c, "found")
      /\ Running(s)
      /\ IF now = stripe[s] THEN UNCHANGED <<stripe, event>> ELSE Send(s, now, <<"updated">>)
      /\ request' = [request EXCEPT ![c].pc = "agreed", ![c].number = Len(event')]
      /\ UNCHANGED <<database, sessions, handler, history>>

(* ... and write the row.                                                  *)
SaveChange(c) ==
  LET s == request[c].on
  IN  /\ Asking(c, "agreed")
      /\ row' = [row EXCEPT ![s] = With(@, request[c].change)]
      /\ Order(s, request[c].number)
      /\ Finish(c)
      /\ UNCHANGED <<processed, companyCustomer, atStripe, handler, crashes>>

(* The request fails, at Stripe, in the database or with the process.      *)
Fail(c) ==
  /\ ~Asking(c, "idle")
  /\ Finish(c)
  /\ UNCHANGED <<database, atStripe, handler, history>>

Ask(c) ==
  \/ StartCheckout(c) \/ CreateCustomer(c) \/ SaveCustomer(c) \/ OpenSession(c)
  \/ FindSubscription(c) \/ FindPlan(c) \/ AskStripe(c) \/ SaveChange(c) \/ Fail(c)

------------------------------------------------------------------------------

Next ==
  \/ \E s \in Subscriptions : StripeStep(s)
  \/ \E h \in Handlers : Receive(h) \/ Handle(h) \/ Crash(h)
  \/ \E c \in Clients : Ask(c)

(* Stripe repeats a delivery until it succeeds, and a delivery that is     *)
(* being handled goes on.                                                  *)
Fairness ==
  /\ WF_vars(\E h \in Handlers : Receive(h))
  /\ \A h \in Handlers : WF_vars(Handle(h))

Spec == Init /\ [][Next]_vars /\ Fairness

------------------------------------------------------------------------------

TypeOK ==
  /\ row \in [Subscriptions -> [status : SubscriptionStatus \cup {Nobody}, cancels : BOOLEAN,
                                plan : Plans \cup {Nobody}]]
  /\ processed \subseteq DOMAIN event /\ Len(event) <= MaxEvents
  /\ \A e \in DOMAIN event : event[e].type \in EventTypes /\ event[e].of \in Subscriptions
  /\ companyCustomer \in Customers \cup {Nobody}
  /\ sessions \subseteq [customer : Customers, plan : Plans]
  /\ \A h \in Handlers : handler[h].event \in {0} \cup DOMAIN event
  /\ crashes \in 0..MaxCrashes

(* Everything Stripe sent has been handled, and nobody is in the middle of *)
(* anything.                                                               *)
Quiet ==
  /\ processed = DOMAIN event
  /\ \A h \in Handlers : At(h, "idle")
  /\ \A c \in Clients : Asking(c, "idle")

(* Once everything has been handled, a row says what Stripe says, its      *)
(* status, whether it is to be canceled, and its plan if a plan has that   *)
(* price, unless something older was written over something younger:       *)
(* duplicates, crashes, the reads of Stripe and the requests that write    *)
(* the row themselves do no harm.                                          *)
RowFollowsStripe ==
  Quiet => \A s \in Subscriptions :
    newest[s] # Disordered /\ row[s] # NoRow =>
      /\ row[s].status = mapStripeStatus[stripe[s].status]
      /\ row[s].cancels = stripe[s].cancels
      /\ stripe[s].plan \in Plans => row[s].plan = stripe[s].plan

(* Once everything has been handled, a completed checkout has its row,     *)
(* whatever crashed, was repeated or came late, as long as one admin at a  *)
(* time starts a checkout, because its customer was saved before its       *)
(* session was opened, and the subscription has had listed prices only.    *)
(* Then the guard lets the company in exactly while it has a subscription  *)
(* in order at Stripe.                                                     *)
CheckoutIsRecorded ==
  LET subscribed == {s \in Subscriptions : stripe[s] # NotSubscribed}
      listed == {s \in subscribed :
                   \A e \in DOMAIN event : event[e].of = s => event[e].now.plan \in Plans}
  IN  Quiet /\ Cardinality(Clients) = 1 =>
        /\ \A s \in listed : row[s] # NoRow
        /\ listed = subscribed /\ (\A s \in subscribed : newest[s] # Disordered) =>
             (canActivate <=> \E s \in subscribed : stripe[s].status = "active")

(* Every event is marked in the end, and not delivered any more: crashes   *)
(* and deliveries that overlap do not make Stripe repeat one for ever.     *)
EveryEventIsProcessed == []<>(processed = DOMAIN event)
==============================================================================
