------------------------ MODULE Subscriptions_proofs -------------------------
(***************************************************************************)
(* Proofs about Subscriptions, for any subscriptions, plans, deliveries,   *)
(* admins, events and crashes.                                             *)
(***************************************************************************)
EXTENDS Subscriptions, FiniteSetTheorems, TLAPS

(* A subscription that was bought, and what else the variables hold.       *)
Bought ==
  [status : {"active", "past_due", "unpaid", "canceled"}, cancels : BOOLEAN,
   plan : Plans \cup Unlisted, customer : Customers]
Row ==
  [status : SubscriptionStatus \cup {Nobody}, cancels : BOOLEAN, plan : Plans \cup {Nobody}]
StripeEvent == [type : EventTypes, of : Subscriptions, now : Bought]
Delivery ==
  [pc : {"idle", "received", "retrieving", "writing", "handled"}, event : Nat,
   seen : Bought \cup {NotSubscribed}]
Change == [of : {"plan"}, to : Plans] \cup [of : {"cancels"}, to : BOOLEAN]
AdminRequest ==
  [pc : {"idle", "noCustomer", "created", "customer", "found", "agreed"},
   on : Customers \cup Subscriptions \cup {Nobody}, change : Change \cup {NoChange}, number : Nat]

Typed ==
  /\ stripe \in [Subscriptions -> Bought \cup {NotSubscribed}]
  /\ event \in Seq(StripeEvent) /\ Len(event) <= MaxEvents
  /\ processed \subseteq DOMAIN event
  /\ row \in [Subscriptions -> Row]
  /\ companyCustomer \in Customers \cup {Nobody}
  /\ sessions \subseteq [customer : Customers, plan : Plans]
  /\ handler \in [Handlers -> Delivery]
  /\ request \in [Clients -> AdminRequest]
  /\ crashes \in 0..MaxCrashes
  /\ newest \in [Subscriptions -> 0..Disordered]

EventsOf(s) == {e \in DOMAIN event : event[e].of = s}
ChangesOf(s) == {e \in EventsOf(s) : event[e].type # "checkout"}
UpdatesOf(s) == {e \in EventsOf(s) : event[e].type = "updated"}

(* Stripe tells everything: the events of a subscription begin with its    *)
(* checkout, the last one says how it is now, and the last update says     *)
(* which plan it has and whether it is to be canceled.                     *)
Told(s) ==
  /\ stripe[s] = NotSubscribed <=> EventsOf(s) = {}
  /\ stripe[s] # NotSubscribed =>
       /\ \E e \in EventsOf(s) : event[e].type = "checkout"
       /\ \E e \in EventsOf(s) : event[e].now = stripe[s]
  /\ \A e, f \in EventsOf(s) :
       event[e].type = "checkout" /\ f # e => e < f /\ event[f].type # "checkout"
  /\ \A e \in EventsOf(s) : (\A f \in EventsOf(s) : f <= e) => event[e].now = stripe[s]
  /\ \A e \in UpdatesOf(s) : (\A f \in UpdatesOf(s) : f <= e) =>
       event[e].now.cancels = stripe[s].cancels /\ event[e].now.plan = stripe[s].plan
  /\ UpdatesOf(s) = {} /\ stripe[s] # NotSubscribed => stripe[s].cancels = FALSE
  /\ \A e \in EventsOf(s) :
       /\ event[e].type = "paid" => event[e].now.status = "active"
       /\ event[e].type = "failed" => event[e].now.status = "past_due"
       /\ event[e].type = "deleted" => event[e].now.status = "canceled"

(* An event is settled while it is marked or about to be: what it says has *)
(* been written.  A delivery that dies unsettles its event.                *)
Settled(e) == e \in processed \/ \E h \in Handlers : At(h, "handled") /\ handler[h].event = e
Unsettled(s) == {e \in ChangesOf(s) : ~Settled(e)}

(* What a delivery holds: what it has seen of the subscription is what     *)
(* Stripe has as long as nothing has happened to it.                       *)
Holds(h) ==
  /\ handler[h].event \in {0} \cup DOMAIN event
  /\ ~At(h, "idle") => handler[h].event \in DOMAIN event
  /\ At(h, "retrieving") \/ At(h, "writing") => Event(h).type = "checkout"
  /\ At(h, "writing") =>
       /\ handler[h].seen \in Bought /\ handler[h].seen.plan \in Plans
       /\ ChangesOf(Event(h).of) = {} => handler[h].seen = stripe[Event(h).of]
       /\ UpdatesOf(Event(h).of) = {} => handler[h].seen.plan = stripe[Event(h).of].plan

Has(r, change) == IF change.of = "plan" THEN r.plan = change.to ELSE r.cancels = change.to

(* What a request holds: a customer, or a row and a change that Stripe has *)
(* made and not made again since.                                          *)
Wants(c) ==
  /\ request[c].pc \in {"noCustomer", "created", "customer"} =>
       request[c].change \in [of : {"plan"}, to : Plans]
  /\ request[c].pc \in {"created", "customer"} => request[c].on \in Customers
  /\ request[c].pc \in {"found", "agreed"} =>
       request[c].on \in Subscriptions /\ request[c].change \in Change /\ row[request[c].on] # NoRow
  /\ Asking(c, "agreed") =>
       /\ request[c].number <= Len(event)
       /\ \/ \E e \in UpdatesOf(request[c].on) : e > request[c].number
          \/ Has(stripe[request[c].on], request[c].change)

(* The row against Stripe.  The status is right when every change has been *)
(* written; the other columns already when what is still to be written, or *)
(* to be written again, are changes of the status and none is older than   *)
(* the row.                                                                *)
Follows(s) ==
  /\ newest[s] \in 0..Len(event) \cup {Disordered}
  /\ \A e \in ChangesOf(s) : Settled(e) => e <= newest[s]
  /\ row[s] # NoRow =>
       /\ row[s].status # Nobody
       /\ EventsOf(s) # {}
       /\ \A e \in EventsOf(s) : event[e].type = "checkout" => e <= newest[s]
  /\ row[s] # NoRow /\ newest[s] # Disordered /\ Unsettled(s) = {} =>
       row[s].status = mapStripeStatus[stripe[s].status]
  /\ row[s] # NoRow /\ newest[s] # Disordered
       /\ (\A e \in Unsettled(s) : e >= newest[s] /\ event[e].type # "updated") =>
       /\ row[s].cancels = stripe[s].cancels
       /\ stripe[s].plan \in Plans => row[s].plan = stripe[s].plan

IInv ==
  /\ Typed
  /\ \A s \in Subscriptions : Told(s) /\ Follows(s)
  /\ \A h \in Handlers : Holds(h)
  /\ \A c \in Clients : Wants(c)

LEMMA Statuses ==
  /\ mapStripeStatus["active"] = "ACTIVE" /\ mapStripeStatus["past_due"] = "PAST_DUE"
  /\ mapStripeStatus["canceled"] = "CANCELED" /\ mapStripeStatus["unpaid"] = "UNPAID"
  /\ {"ACTIVE", "PAST_DUE", "CANCELED", "UNPAID"} \subseteq SubscriptionStatus
  /\ Nobody \notin SubscriptionStatus
BY DEF mapStripeStatus, SubscriptionStatus, Nobody

LEMMA Idle ==
  /\ IdleHandler \in Delivery /\ IdleHandler.pc = "idle" /\ IdleHandler.event = 0
  /\ IdleRequest \in AdminRequest /\ IdleRequest.pc = "idle"
BY DEF IdleHandler, Delivery, IdleRequest, AdminRequest, NoChange

LEMMA EventsTyped ==
  ASSUME Typed
  PROVE  /\ Len(event) \in Nat /\ DOMAIN event = 1..Len(event)
         /\ \A e \in DOMAIN event :
              event[e].type \in EventTypes /\ event[e].of \in Subscriptions /\ event[e].now \in Bought
<1>1. \A e \in DOMAIN event : event[e] \in StripeEvent
  BY DEF Typed
<1>2. Len(event) \in Nat /\ DOMAIN event = 1..Len(event)
  BY DEF Typed
<1> QED
  BY <1>1, <1>2 DEF StripeEvent

LEMMA InitInv == Init => IInv
<1> SUFFICES ASSUME Init PROVE IInv
  OBVIOUS
<1>1. Typed
  BY Idle, BoundsAssumption DEF Init, Typed, NoRow, Row, Disordered
<1>2. \A s \in Subscriptions : EventsOf(s) = {} /\ UpdatesOf(s) = {} /\ ChangesOf(s) = {}
  BY DEF Init, EventsOf, UpdatesOf, ChangesOf
<1>3. \A s \in Subscriptions : Told(s) /\ Follows(s)
  BY <1>1, <1>2 DEF Init, Told, Follows, Typed, Disordered
<1>4. \A h \in Handlers : Holds(h)
  BY Idle DEF Init, Holds, At
<1>5. \A c \in Clients : Wants(c)
  BY Idle DEF Init, Wants, Asking
<1> QED
  BY <1>1, <1>3, <1>4, <1>5 DEF IInv

------------------------------------------------------------------------------
(* Nothing new from Stripe.                                                *)

LEMMA ToldStays ==
  ASSUME IInv, UNCHANGED <<stripe, event>>, NEW s \in Subscriptions
  PROVE  Told(s)'
BY DEF IInv, Told, EventsOf, UpdatesOf

LEMMA FollowsStays ==
  ASSUME IInv, UNCHANGED <<stripe, event>>, NEW s \in Subscriptions,
         row'[s] = row[s], newest'[s] = newest[s],
         \A e \in ChangesOf(s) : Settled(e)' => Settled(e)
  PROVE  Follows(s)'
<1>1. EventsOf(s)' = EventsOf(s) /\ ChangesOf(s)' = ChangesOf(s)
  BY DEF EventsOf, ChangesOf
<1>2. Unsettled(s) \subseteq Unsettled(s)'
  BY <1>1 DEF Unsettled
<1> QED
  BY <1>1, <1>2 DEF IInv, Follows

(* A delivery goes on, and writes nothing.                                 *)
LEMMA DeliveryStep ==
  ASSUME IInv, NEW h \in Handlers, NEW q \in Delivery,
         handler' = [handler EXCEPT ![h] = q],
         UNCHANGED <<row, companyCustomer, atStripe, request, newest>>,
         processed' \subseteq DOMAIN event, crashes' \in 0..MaxCrashes,
         Holds(h)', \A s \in Subscriptions : \A e \in ChangesOf(s) : Settled(e)' => Settled(e)
  PROVE  IInv'
<1>1. Typed' /\ \A g \in Handlers \ {h} : handler'[g] = handler[g]
  BY DEF IInv, Typed, atStripe
<1>2. \A s \in Subscriptions : Told(s)' /\ Follows(s)'
  BY ToldStays, FollowsStays DEF atStripe
<1>3. \A g \in Handlers \ {h} : Holds(g)'
  BY <1>1 DEF IInv, Holds, At, Event, ChangesOf, UpdatesOf, EventsOf, atStripe
<1>4. \A c \in Clients : Wants(c)'
  BY DEF IInv, Wants, Asking, UpdatesOf, EventsOf, atStripe
<1> QED
  BY <1>1, <1>2, <1>3, <1>4 DEF IInv

(* A request goes on, and writes no row.                                   *)
LEMMA AdminStep ==
  ASSUME IInv, NEW c \in Clients, NEW q \in AdminRequest,
         request' = [request EXCEPT ![c] = q],
         UNCHANGED <<processed, row, stripe, event, handler, history>>,
         companyCustomer' \in Customers \cup {Nobody},
         sessions' \subseteq [customer : Customers, plan : Plans],
         Wants(c)'
  PROVE  IInv'
<1>1. Typed' /\ \A d \in Clients \ {c} : request'[d] = request[d]
  BY DEF IInv, Typed, history
<1>2. \A s \in Subscriptions : \A e \in ChangesOf(s) : Settled(e)' => Settled(e)
  BY DEF Settled, At
<1>3. \A s \in Subscriptions : Told(s)' /\ Follows(s)'
  BY <1>2, ToldStays, FollowsStays DEF history
<1>4. \A h \in Handlers : Holds(h)'
  BY DEF IInv, Holds, At, Event, ChangesOf, UpdatesOf, EventsOf
<1>5. \A d \in Clients \ {c} : Wants(d)'
  BY <1>1 DEF IInv, Wants, Asking, UpdatesOf, EventsOf
<1> QED
  BY <1>1, <1>3, <1>4, <1>5 DEF IInv

------------------------------------------------------------------------------
(* Something new from Stripe.                                              *)

(* What is sent comes after what has been sent.                            *)
LEMMA SendAppends ==
  ASSUME IInv, NEW s \in Subscriptions, NEW now \in Bought, NEW types \in Seq(EventTypes),
         Send(s, now, types)
  PROVE  /\ Len(types) \in Nat /\ Len(event') = Len(event) + Len(types) /\ Len(event') <= MaxEvents
         /\ event' \in Seq(StripeEvent)
         /\ stripe' = [stripe EXCEPT ![s] = now]
         /\ \A e \in DOMAIN event : event'[e] = event[e]
         /\ \A i \in 1..Len(types) :
              event'[Len(event) + i] = [type |-> types[i], of |-> s, now |-> now]
         /\ DOMAIN event = 1..Len(event) /\ DOMAIN event' = 1..Len(event')
<1> DEFINE sent == [i \in DOMAIN types |-> [type |-> types[i], of |-> s, now |-> now]]
<1>1. DOMAIN types = 1..Len(types) /\ Len(types) \in Nat
  OBVIOUS
<1>2. \A i \in 1..Len(types) : [type |-> types[i], of |-> s, now |-> now] \in StripeEvent
  BY DEF StripeEvent
<1>3. sent \in [1..Len(types) -> StripeEvent]
  BY <1>1, <1>2
<1>4. \A n \in Nat : \A S : \A q \in [1..n -> S] : q \in Seq(S) /\ Len(q) = n
  OBVIOUS
<1>5. sent \in Seq(StripeEvent) /\ Len(sent) = Len(types)
  BY <1>1, <1>3, <1>4
<1>6. \A i \in 1..Len(types) : sent[i] = [type |-> types[i], of |-> s, now |-> now]
  BY <1>1
<1>7. /\ event' = event \o sent /\ stripe' = [stripe EXCEPT ![s] = now]
      /\ Len(event) + Len(types) <= MaxEvents
  BY DEF Send
<1>8. event \in Seq(StripeEvent)
  BY DEF IInv, Typed
<1> HIDE DEF sent
<1>9. /\ Len(event) \in Nat /\ DOMAIN event = 1..Len(event)
      /\ event' \in Seq(StripeEvent) /\ Len(event') = Len(event) + Len(types)
      /\ DOMAIN event' = 1..Len(event')
  BY <1>5, <1>7, <1>8
<1>10. \A e \in DOMAIN event : event'[e] = event[e]
  BY <1>5, <1>7, <1>8
<1>11. ASSUME NEW i \in 1..Len(types)
       PROVE  event'[Len(event) + i] = [type |-> types[i], of |-> s, now |-> now]
  <2>1. event'[Len(event) + i] = sent[i]
    BY <1>5, <1>7, <1>8, <1>1
  <2> QED
    BY <2>1, <1>6
<1> QED
  BY <1>1, <1>7, <1>9, <1>10, <1>11

(* The events of the other subscriptions are what they were, and nothing   *)
(* that is sent is settled.                                                *)
LEMMA SendTells ==
  ASSUME IInv, NEW s \in Subscriptions, NEW now \in Bought, NEW types \in Seq(EventTypes),
         Send(s, now, types), UNCHANGED <<processed, handler>>
  PROVE  /\ stripe'[s] = now /\ \A t \in Subscriptions \ {s} : stripe'[t] = stripe[t]
         /\ \A t \in Subscriptions : EventsOf(t) \subseteq 1..Len(event)
         /\ \A t \in Subscriptions \ {s} :
              EventsOf(t)' = EventsOf(t) /\ ChangesOf(t)' = ChangesOf(t) /\ UpdatesOf(t)' = UpdatesOf(t)
         /\ EventsOf(s)' = EventsOf(s) \cup ((Len(event) + 1)..Len(event'))
         /\ \A e : Settled(e)' <=> Settled(e)
         /\ \A e : Settled(e) => e \in DOMAIN event
<1>1. stripe'[s] = now /\ \A t \in Subscriptions \ {s} : stripe'[t] = stripe[t]
  BY SendAppends DEF IInv, Typed
<1>2. \A t \in Subscriptions : EventsOf(t) \subseteq 1..Len(event)
  BY SendAppends DEF EventsOf
<1>3. Len(event) \in Nat /\ Len(types) \in Nat /\ Len(event') = Len(event) + Len(types)
  BY SendAppends DEF IInv, Typed
<1>4. \A e \in DOMAIN event' : e \in DOMAIN event \/
         (e \in (Len(event) + 1)..Len(event') /\ event'[e].of = s)
  <2>1. ASSUME NEW e \in DOMAIN event', e \notin DOMAIN event
        PROVE  e \in (Len(event) + 1)..Len(event') /\ event'[e].of = s
    <3>1. e \in (Len(event) + 1)..Len(event')
      BY <2>1, <1>3, SendAppends
    <3>2. PICK i \in 1..Len(types) : e = Len(event) + i
      <4>1. e \in Int /\ e - Len(event) \in 1..Len(types) /\ e = Len(event) + (e - Len(event))
        BY <3>1, <1>3
      <4> QED
        BY <4>1
    <3>3. event'[e] = [type |-> types[i], of |-> s, now |-> now]
      BY <3>2, SendAppends
    <3> QED
      BY <3>1, <3>3
  <2> QED
    BY <2>1
<1>5. \A e \in (Len(event) + 1)..Len(event') : e \in DOMAIN event' /\ e \notin DOMAIN event
  BY <1>3, SendAppends
<1>6. /\ \A e \in DOMAIN event : event'[e] = event[e]
      /\ DOMAIN event \subseteq DOMAIN event'
  BY <1>3, SendAppends
<1>7. \A t \in Subscriptions \ {s} : EventsOf(t)' = EventsOf(t)
  BY <1>4, <1>6 DEF EventsOf
<1>8. \A t \in Subscriptions \ {s} : ChangesOf(t)' = ChangesOf(t) /\ UpdatesOf(t)' = UpdatesOf(t)
  BY <1>6, <1>7 DEF EventsOf, ChangesOf, UpdatesOf
<1>9. EventsOf(s)' = EventsOf(s) \cup ((Len(event) + 1)..Len(event'))
  BY <1>4, <1>5, <1>6 DEF EventsOf
<1>10. \A e : Settled(e)' <=> Settled(e)
  BY DEF Settled, At
<1>11. \A e : Settled(e) => e \in DOMAIN event
  BY DEF IInv, Typed, Settled, Holds, At
<1> QED
  BY <1>1, <1>2, <1>7, <1>8, <1>9, <1>10, <1>11

LEMMA OthersKeep ==
  ASSUME IInv, NEW s \in Subscriptions, NEW now \in Bought, NEW types \in Seq(EventTypes),
         Send(s, now, types), UNCHANGED <<processed, row, handler, newest>>,
         NEW t \in Subscriptions \ {s}
  PROVE  Told(t)' /\ Follows(t)'
<1>1. /\ EventsOf(t)' = EventsOf(t) /\ ChangesOf(t)' = ChangesOf(t)
      /\ UpdatesOf(t)' = UpdatesOf(t) /\ stripe'[t] = stripe[t]
      /\ \A e : Settled(e)' <=> Settled(e)
  BY SendTells
<1>2. \A e \in EventsOf(t) : event'[e] = event[e]
  BY SendAppends DEF EventsOf
<1>3. Unsettled(t)' = Unsettled(t)
  BY <1>1 DEF Unsettled
<1>4. /\ ChangesOf(t) \subseteq EventsOf(t) /\ UpdatesOf(t) \subseteq EventsOf(t)
      /\ Unsettled(t) \subseteq EventsOf(t)
  BY DEF ChangesOf, UpdatesOf, Unsettled
<1>5. Told(t) /\ Follows(t)
  BY DEF IInv
<1>6. Told(t)'
  BY <1>1, <1>2, <1>4, <1>5 DEF Told
<1>7. Len(event) \in Nat /\ Len(event') \in Nat /\ Len(event) <= Len(event')
  <2>1. Len(types) \in Nat /\ Len(event') = Len(event) + Len(types)
    BY SendAppends
  <2> QED
    BY <2>1, EventsTyped DEF IInv
<1>8. Follows(t)'
  BY <1>1, <1>2, <1>3, <1>4, <1>5, <1>7 DEF Follows
<1> QED
  BY <1>6, <1>8

(* A change of s at Stripe, told by events that fit it; the last of them   *)
(* is an update unless only the status has changed.                        *)
Fits(type, now) ==
  /\ type \in EventTypes \ {"checkout"}
  /\ type = "paid" => now.status = "active"
  /\ type = "failed" => now.status = "past_due"
  /\ type = "deleted" => now.status = "canceled"
TellsOf(s, now, types) ==
  /\ stripe[s] # NotSubscribed /\ now \in Bought
  /\ types \in Seq(EventTypes) /\ types # <<>>
  /\ \A i \in 1..Len(types) : Fits(types[i], now)
  /\ \/ types[Len(types)] = "updated"
     \/ /\ \A i \in 1..Len(types) : types[i] # "updated"
        /\ now.cancels = stripe[s].cancels /\ now.plan = stripe[s].plan

LEMMA SendChanges ==
  ASSUME IInv, NEW s \in Subscriptions, NEW now, NEW types, TellsOf(s, now, types),
         Send(s, now, types), UNCHANGED <<processed, handler>>
  PROVE  /\ Len(event) \in Nat /\ Len(event') \in Nat /\ Len(event') > Len(event)
         /\ \A e \in EventsOf(s)' :
              \/ e \in EventsOf(s) /\ e <= Len(event) /\ event'[e] = event[e]
              \/ /\ e \notin DOMAIN event /\ e > Len(event) /\ e <= Len(event')
                 /\ event'[e].now = now /\ Fits(event'[e].type, now)
         /\ \A e \in EventsOf(s) : e \in EventsOf(s)' /\ event'[e] = event[e] /\ e \in Nat /\ e <= Len(event)
         /\ Len(event') \in EventsOf(s)' /\ Len(event') \notin DOMAIN event
         /\ \/ event'[Len(event')].type = "updated"
            \/ /\ UpdatesOf(s)' = UpdatesOf(s)
               /\ \A e \in EventsOf(s)' : event'[e].type = "updated" => e \in UpdatesOf(s)
               /\ now.cancels = stripe[s].cancels /\ now.plan = stripe[s].plan
<1> USE DEF TellsOf
<1>1. /\ Len(event) \in Nat /\ Len(types) \in Nat /\ Len(types) > 0
      /\ Len(event') = Len(event) + Len(types) /\ DOMAIN event = 1..Len(event)
  BY SendAppends DEF IInv, Typed
<1>2. ASSUME NEW e \in (Len(event) + 1)..Len(event')
      PROVE  \E i \in 1..Len(types) :
               e = Len(event) + i /\ event'[e].type = types[i] /\ event'[e].now = now
  <2>1. PICK i \in 1..Len(types) : e = Len(event) + i
    <3>1. e \in Int /\ e - Len(event) \in 1..Len(types) /\ e = Len(event) + (e - Len(event))
      BY <1>1
    <3> QED
      BY <3>1
  <2>2. event'[Len(event) + i] = [type |-> types[i], of |-> s, now |-> now]
    BY SendAppends
  <2> QED
    BY <2>1, <2>2
<1>3. \A e \in DOMAIN event : event'[e] = event[e]
  BY SendAppends
<1>4. /\ EventsOf(s)' = EventsOf(s) \cup ((Len(event) + 1)..Len(event'))
      /\ EventsOf(s) \subseteq 1..Len(event)
  BY SendTells
<1>5. ASSUME NEW e \in EventsOf(s)'
      PROVE  \/ e \in EventsOf(s) /\ e <= Len(event) /\ event'[e] = event[e]
             \/ /\ e \notin DOMAIN event /\ e > Len(event) /\ e <= Len(event')
                /\ event'[e].now = now /\ Fits(event'[e].type, now)
  <2>1. CASE e \in EventsOf(s)
    BY <2>1, <1>1, <1>3, <1>4
  <2>2. CASE e \in (Len(event) + 1)..Len(event')
    <3>1. PICK i \in 1..Len(types) : event'[e].type = types[i] /\ event'[e].now = now
      BY <2>2, <1>2
    <3>2. Fits(event'[e].type, now)
      BY <3>1
    <3> QED
      BY <3>1, <3>2, <2>2, <1>1
  <2> QED
    BY <2>1, <2>2, <1>4
<1>6. \A e \in EventsOf(s) : e \in EventsOf(s)' /\ event'[e] = event[e] /\ e \in Nat /\ e <= Len(event)
  BY <1>1, <1>3, <1>4
<1>7. Len(event') \in (Len(event) + 1)..Len(event') /\ Len(event') \notin DOMAIN event
  BY <1>1
<1>8. CASE types[Len(types)] = "updated"
  <2>1. PICK i \in 1..Len(types) :
          Len(event') = Len(event) + i /\ event'[Len(event')].type = types[i]
    BY <1>2, <1>7
  <2>2. i = Len(types)
    BY <2>1, <1>1
  <2>3. event'[Len(event')].type = "updated"
    BY <2>1, <2>2, <1>8
  <2> QED
    BY <2>3, <1>1, <1>4, <1>5, <1>6, <1>7
<1>9. CASE /\ \A i \in 1..Len(types) : types[i] # "updated"
           /\ now.cancels = stripe[s].cancels /\ now.plan = stripe[s].plan
  <2>1. ASSUME NEW e \in (Len(event) + 1)..Len(event')
        PROVE  event'[e].type # "updated"
    <3>1. PICK i \in 1..Len(types) : event'[e].type = types[i]
      BY <1>2
    <3> QED
      BY <3>1, <1>9
  <2>2. UpdatesOf(s)' = UpdatesOf(s)
    BY <2>1, <1>4, <1>6 DEF UpdatesOf
  <2>3. \A e \in EventsOf(s)' : event'[e].type = "updated" => e \in UpdatesOf(s)
    BY <2>2 DEF UpdatesOf
  <2> QED
    BY <2>2, <2>3, <1>9, <1>1, <1>4, <1>5, <1>6, <1>7
<1> QED
  BY <1>8, <1>9

LEMMA ChangeKeeps ==
  ASSUME IInv, NEW s \in Subscriptions, NEW now, NEW types, TellsOf(s, now, types),
         Send(s, now, types), UNCHANGED <<processed, row, handler, newest>>
  PROVE  /\ \A t \in Subscriptions : Told(t)' /\ Follows(t)'
         /\ \A h \in Handlers : Holds(h)'
         /\ \A c \in Clients : request'[c] = request[c] => Wants(c)'
<1>0. PICK n : n = Len(event')
  OBVIOUS
<1>1. /\ Len(event) \in Nat /\ n \in Nat /\ n > Len(event)
      /\ n \in EventsOf(s)' /\ n \notin DOMAIN event
  BY <1>0, SendChanges
<1>2. \A e \in EventsOf(s)' :
        \/ e \in EventsOf(s) /\ e <= Len(event) /\ event'[e] = event[e]
        \/ /\ e \notin DOMAIN event /\ e > Len(event) /\ e <= n
           /\ event'[e].now = now /\ Fits(event'[e].type, now)
  BY <1>0, SendChanges
<1>3. \A e \in EventsOf(s) : e \in EventsOf(s)' /\ event'[e] = event[e] /\ e \in Nat /\ e <= Len(event)
  BY <1>0, SendChanges
<1>4. \/ event'[n].type = "updated"
      \/ /\ UpdatesOf(s)' = UpdatesOf(s)
         /\ \A e \in EventsOf(s)' : event'[e].type = "updated" => e \in UpdatesOf(s)
         /\ now.cancels = stripe[s].cancels /\ now.plan = stripe[s].plan
  BY <1>0, SendChanges
<1>5. /\ stripe'[s] = now /\ now \in Bought /\ now # NotSubscribed /\ stripe[s] # NotSubscribed
      /\ \A t \in Subscriptions \ {s} : stripe'[t] = stripe[t]
      /\ \A t \in Subscriptions \ {s} :
           EventsOf(t)' = EventsOf(t) /\ ChangesOf(t)' = ChangesOf(t) /\ UpdatesOf(t)' = UpdatesOf(t)
      /\ \A e : Settled(e)' <=> Settled(e)
      /\ \A e : Settled(e) => e \in DOMAIN event
  BY SendTells DEF TellsOf, Bought, NotSubscribed, Nobody
<1>6. \A e \in DOMAIN event : e \in DOMAIN event' /\ event'[e] = event[e]
  BY <1>0, <1>1, SendAppends DEF TellsOf
<1>7. \A e \in EventsOf(s)' : e \in Nat /\ e <= n
  BY <1>1, <1>2, <1>3, <1>0, SendAppends DEF TellsOf, EventsOf
<1>8. event'[n].now = now /\ event'[n].type # "checkout" /\ n \in ChangesOf(s)' /\ ~Settled(n)'
  <2>1. event'[n].now = now /\ Fits(event'[n].type, now)
    BY <1>1, <1>2
  <2>2. ~Settled(n)'
    BY <1>1, <1>5
  <2>3. event'[n].type # "checkout" 
    BY <2>1 DEF Fits
  <2> QED
    BY <2>1, <2>2, <2>3, <1>1 DEF ChangesOf
<1>9. UpdatesOf(s) \subseteq UpdatesOf(s)' /\ ChangesOf(s) \subseteq ChangesOf(s)'
  BY <1>3 DEF UpdatesOf, ChangesOf
<1>10. event'[n].type = "updated" => n \in UpdatesOf(s)'
  BY <1>1 DEF UpdatesOf
<1>11. ASSUME NEW t \in Subscriptions PROVE Told(t)' /\ Follows(t)'
  <2>1. CASE t # s
    BY <2>1, OthersKeep DEF TellsOf
  <2>2. CASE t = s
    <3>0. Told(s) /\ Follows(s)
      BY DEF IInv
    <3>1. Told(s)'
      <4>1. EventsOf(s) # {} /\ EventsOf(s)' # {}
        BY <3>0, <1>1, <1>5 DEF Told
      <4>2. \E e \in EventsOf(s)' : event'[e].type = "checkout"
        BY <3>0, <1>3, <1>5 DEF Told
      <4>3. ASSUME NEW e \in EventsOf(s)', NEW f \in EventsOf(s)', event'[e].type = "checkout", f # e
            PROVE  e < f /\ event'[f].type # "checkout"
        <5>1. e \in EventsOf(s) /\ event[e].type = "checkout" /\ e \in Nat /\ e <= Len(event)
          BY <4>3, <1>2, <1>3 DEF Fits
        <5>2. CASE f \in EventsOf(s)
          BY <5>1, <5>2, <4>3, <3>0, <1>3 DEF Told
        <5>3. CASE f > Len(event) /\ Fits(event'[f].type, now)
          <6>1. f \in Nat
            BY <4>3, <1>7
          <6>2. e < f
            BY <5>1, <5>3, <6>1, <1>1
          <6>3. event'[f].type # "checkout"
            BY <5>3 DEF Fits
          <6> QED
            BY <6>2, <6>3
        <5> QED
          BY <5>2, <5>3, <1>2
      <4>4. ASSUME NEW e \in EventsOf(s)', \A f \in EventsOf(s)' : f <= e
            PROVE  event'[e].now = now
        <5>1. e = n
          BY <4>4, <1>1, <1>7
        <5> QED
          BY <5>1, <1>8
      <4>5. ASSUME NEW e \in UpdatesOf(s)', \A f \in UpdatesOf(s)' : f <= e
            PROVE  event'[e].now.cancels = now.cancels /\ event'[e].now.plan = now.plan
        <5>1. CASE event'[n].type = "updated"
          <6>1. e = n
            BY <4>5, <5>1, <1>1, <1>7, <1>10 DEF UpdatesOf
          <6> QED
            BY <6>1, <1>8
        <5>2. CASE UpdatesOf(s)' = UpdatesOf(s) /\ now.cancels = stripe[s].cancels /\ now.plan = stripe[s].plan
          <6>1. e \in UpdatesOf(s) /\ (\A f \in UpdatesOf(s) : f <= e) /\ event'[e] = event[e]
            BY <4>5, <5>2, <1>3 DEF UpdatesOf
          <6> QED
            BY <6>1, <5>2, <3>0 DEF Told
        <5> QED
          BY <5>1, <5>2, <1>4
      <4>6. UpdatesOf(s)' = {} => now.cancels = FALSE
        BY <1>4, <1>5, <1>10, <3>0 DEF Told
      <4>7. ASSUME NEW e \in EventsOf(s)'
            PROVE  /\ event'[e].type = "paid" => event'[e].now.status = "active"
                   /\ event'[e].type = "failed" => event'[e].now.status = "past_due"
                   /\ event'[e].type = "deleted" => event'[e].now.status = "canceled"
        <5>1. CASE e \in EventsOf(s) /\ event'[e] = event[e]
          BY <5>1, <3>0 DEF Told
        <5>2. CASE event'[e].now = now /\ Fits(event'[e].type, now)
          BY <5>2 DEF Fits
        <5> QED
          BY <5>1, <5>2, <1>2
      <4>8. \E e \in EventsOf(s)' : event'[e].now = now
        BY <1>1, <1>8
      <4> QED
        BY <4>1, <4>2, <4>3, <4>4, <4>5, <4>6, <4>7, <4>8, <1>5 DEF Told
    <3>2. Follows(s)'
      <4>1. newest'[s] = newest[s] /\ row'[s] = row[s]
        OBVIOUS
      <4>2. newest'[s] \in 0..n \cup {Disordered}
        BY <3>0, <4>1, <1>1 DEF Follows
      <4>3. \A e \in ChangesOf(s)' : Settled(e)' => e <= newest'[s]
        <5>1. ASSUME NEW e \in ChangesOf(s)', Settled(e)' PROVE e \in ChangesOf(s)
          <6>1. e \in EventsOf(s) /\ event'[e] = event[e]
            BY <5>1, <1>2, <1>5 DEF ChangesOf
          <6> QED
            BY <5>1, <6>1 DEF ChangesOf
        <5> QED
          BY <5>1, <4>1, <1>5, <3>0 DEF Follows
      <4>4. row'[s] # NoRow =>
              /\ row'[s].status # Nobody
              /\ EventsOf(s)' # {}
              /\ \A e \in EventsOf(s)' : event'[e].type = "checkout" => e <= newest'[s]
        <5>1. \A e \in EventsOf(s)' : event'[e].type = "checkout" =>
                e \in EventsOf(s) /\ event[e].type = "checkout"
          BY <1>2 DEF Fits
        <5> QED
          BY <5>1, <4>1, <3>0, <1>1 DEF Follows
      <4>5. Unsettled(s)' # {}
        BY <1>8 DEF Unsettled
      <4>6. ASSUME row'[s] # NoRow, newest'[s] # Disordered,
                   \A e \in Unsettled(s)' : e >= newest'[s] /\ event'[e].type # "updated"
            PROVE  row'[s].cancels = now.cancels /\ (now.plan \in Plans => row'[s].plan = now.plan)
        <5>1. event'[n].type # "updated"
          BY <4>6, <1>8 DEF Unsettled
        <5>2. now.cancels = stripe[s].cancels /\ now.plan = stripe[s].plan
          BY <5>1, <1>4
        <5>3. ASSUME NEW e \in Unsettled(s) PROVE e >= newest[s] /\ event[e].type # "updated"
          <6>1. e \in Unsettled(s)' /\ event'[e] = event[e]
            BY <1>3, <1>5, <1>9 DEF Unsettled, ChangesOf
          <6> QED
            BY <6>1, <4>1, <4>6
        <5> QED
          BY <4>1, <4>6, <5>2, <5>3, <3>0 DEF Follows
      <4> QED
        BY <4>2, <4>3, <4>4, <4>5, <4>6, <1>0, <1>5 DEF Follows
    <3> QED
      BY <2>2, <3>1, <3>2
  <2> QED
    BY <2>1, <2>2
<1>12. ASSUME NEW h \in Handlers PROVE Holds(h)'
  <2>0. Holds(h) /\ handler'[h] = handler[h]
    BY DEF IInv
  <2>1. /\ handler'[h].event \in {0} \cup DOMAIN event'
        /\ ~At(h, "idle")' => handler'[h].event \in DOMAIN event'
    BY <2>0, <1>6 DEF Holds, At
  <2>2. ~At(h, "idle") => Event(h)' = Event(h) /\ Event(h) = event[handler[h].event]
    BY <2>0, <1>6 DEF Holds, Event
  <2>3. CASE At(h, "writing") /\ Event(h).of = s
    <3>1. ChangesOf(s)' # {} /\ (UpdatesOf(s)' = {} => now.plan = stripe[s].plan /\ UpdatesOf(s) = {})
      BY <1>4, <1>8, <1>9, <1>10
    <3>2. Event(h)' = Event(h)
      BY <2>2, <2>3 DEF At
    <3> QED
      BY <3>1, <3>2, <2>0, <2>1, <2>3, <1>5 DEF Holds, At
  <2>4. CASE At(h, "writing") /\ Event(h).of # s
    <3>1. Event(h)' = Event(h) /\ handler[h].event \in DOMAIN event
      BY <2>0, <2>2, <2>4 DEF At, Holds
    <3>2. \A e \in DOMAIN event : event[e].of \in Subscriptions
      BY EventsTyped DEF IInv
    <3>3. PICK r \in Subscriptions : r = Event(h).of
      BY <3>1, <3>2 DEF Event
    <3>4. ChangesOf(r)' = ChangesOf(r) /\ UpdatesOf(r)' = UpdatesOf(r) /\ stripe'[r] = stripe[r]
      BY <3>3, <2>4, <1>5
    <3> QED
      BY <3>1, <3>3, <3>4, <2>0, <2>1, <2>4 DEF Holds, At
  <2>5. CASE ~At(h, "writing")
    BY <2>0, <2>1, <2>2, <2>5 DEF Holds, At
  <2> QED
    BY <2>3, <2>4, <2>5
<1>13. ASSUME NEW c \in Clients, request'[c] = request[c] PROVE Wants(c)'
  <2>0. Wants(c)
    BY DEF IInv
  <2>1. CASE Asking(c, "agreed")
    <3>0. PICK r \in Subscriptions : r = request[c].on
      BY <2>0, <2>1 DEF Wants, Asking
    <3>1. request[c].number <= Len(event) /\ request[c].number \in Nat
      BY <2>0, <2>1 DEF Wants, Asking, IInv, Typed, AdminRequest
    <3>2. UpdatesOf(r) \subseteq UpdatesOf(r)'
      BY <1>5, <1>9
    <3>3. CASE \E e \in UpdatesOf(r) : e > request[c].number
      BY <3>0, <3>1, <3>2, <3>3, <2>0, <2>1, <1>13, <1>0, <1>1 DEF Wants, Asking
    <3>4. CASE r = s /\ event'[n].type = "updated"
      <4>1. n \in UpdatesOf(r)' /\ n > request[c].number
        BY <3>0, <3>1, <3>4, <1>1, <1>10
      <4> QED
        BY <3>0, <3>1, <4>1, <2>0, <2>1, <1>13, <1>0, <1>1 DEF Wants, Asking
    <3>5. CASE Has(stripe[r], request[c].change) /\ ~(r = s /\ event'[n].type = "updated")
      <4>1. Has(stripe'[r], request[c].change)
        BY <3>0, <3>5, <1>4, <1>5 DEF Has
      <4> QED
        BY <3>0, <3>1, <4>1, <2>0, <2>1, <1>13, <1>0, <1>1 DEF Wants, Asking
    <3> QED
      BY <3>0, <3>3, <3>4, <3>5, <2>0, <2>1 DEF Wants
  <2>2. CASE ~Asking(c, "agreed")
    BY <2>0, <2>2, <1>13 DEF Wants, Asking
  <2> QED
    BY <2>1, <2>2
<1> QED
  BY <1>11, <1>12, <1>13

LEMMA SendTyped ==
  ASSUME IInv, NEW s \in Subscriptions, NEW now \in Bought, NEW types \in Seq(EventTypes),
         Send(s, now, types), UNCHANGED <<database, handler, history>>,
         sessions' \subseteq sessions, request' \in [Clients -> AdminRequest]
  PROVE  Typed'
<1>1. event' \in Seq(StripeEvent) /\ Len(event') <= MaxEvents
  BY SendAppends
<1>2. DOMAIN event \subseteq DOMAIN event'
  <2>1. Len(event) \in Nat /\ Len(types) \in Nat /\ Len(event') = Len(event) + Len(types)
        /\ DOMAIN event = 1..Len(event) /\ DOMAIN event' = 1..Len(event')
    BY SendAppends, EventsTyped DEF IInv
  <2> QED
    BY <2>1
<1>3. stripe' \in [Subscriptions -> Bought \cup {NotSubscribed}]
  BY DEF Send, IInv, Typed
<1> QED
  BY <1>1, <1>2, <1>3 DEF IInv, Typed, database, history

LEMMA ChangeStep ==
  ASSUME IInv, NEW s \in Subscriptions, NEW now, NEW types, TellsOf(s, now, types),
         Send(s, now, types), UNCHANGED <<database, sessions, handler, request, history>>
  PROVE  IInv'
<1>1. UNCHANGED <<processed, row, handler, newest, request>>
  BY DEF database, history
<1>2. Typed'
  BY SendTyped DEF TellsOf, IInv, Typed
<1> QED
  BY <1>1, <1>2, ChangeKeeps DEF IInv

(* What Stripe has sold has a status, and each of its columns can change.  *)
LEMMA RunningIsBought ==
  ASSUME IInv, NEW s \in Subscriptions, stripe[s].status # Nobody
  PROVE  stripe[s] \in Bought /\ stripe[s] # NotSubscribed
BY DEF IInv, Typed, NotSubscribed

(* What happens to a subscription is told and leaves it whose it was.      *)
LEMMA StripeTells ==
  ASSUME IInv, NEW s \in Subscriptions,
         StripePaid(s) \/ StripePaymentFails(s) \/ StripePortal(s) \/ StripeEnds(s)
  PROVE  /\ UNCHANGED <<database, sessions, handler, request, history>>
         /\ \E now, types :
              now.customer = stripe[s].customer /\ TellsOf(s, now, types) /\ Send(s, now, types)
<1>0. UNCHANGED <<database, sessions, handler, request, history>>
  BY DEF StripePaid, StripePaymentFails, StripePortal, StripeEnds
<1> SUFFICES \E now, types :
      now.customer = stripe[s].customer /\ TellsOf(s, now, types) /\ Send(s, now, types)
  BY <1>0
<1>1. stripe[s] \in Bought /\ stripe[s] # NotSubscribed
  BY RunningIsBought
     DEF StripePaid, StripePaymentFails, StripePortal, StripeEnds, Running, Nobody
<1>2. CASE StripePaid(s)
  <2> DEFINE now == [stripe[s] EXCEPT !.status = "active"]
  <2>1. /\ now \in Bought /\ now.status = "active" /\ now.customer = stripe[s].customer
        /\ now.cancels = stripe[s].cancels /\ now.plan = stripe[s].plan
    BY <1>1 DEF Bought
  <2>2. CASE stripe[s].status = "active"
    <3>1. Send(s, now, <<"paid">>)
      BY <1>2, <2>2 DEF StripePaid
    <3> HIDE DEF now
    <3>2. TellsOf(s, now, <<"paid">>)
      BY <1>1, <2>1 DEF TellsOf, Fits, EventTypes
    <3> QED
      BY <2>1, <3>1, <3>2
  <2>3. CASE stripe[s].status # "active"
    <3>1. Send(s, now, <<"paid", "updated">>)
      BY <1>2, <2>3 DEF StripePaid
    <3> HIDE DEF now
    <3>2. TellsOf(s, now, <<"paid", "updated">>)
      BY <1>1, <2>1 DEF TellsOf, Fits, EventTypes
    <3> QED
      BY <2>1, <3>1, <3>2
  <2> QED
    BY <2>2, <2>3
<1>3. CASE StripePaymentFails(s)
  <2>1. PICK status \in {"past_due", "unpaid"} :
          /\ stripe[s].status \in (IF status = "unpaid" THEN {"past_due"} ELSE {"active", "past_due"})
          /\ Send(s, [stripe[s] EXCEPT !.status = status],
                  CASE stripe[s].status = status   -> <<"failed">>
                    [] stripe[s].status = "active" -> <<"failed", "updated">>
                    [] status = "unpaid"           -> <<"updated">>)
    BY <1>3 DEF StripePaymentFails
  <2> DEFINE now == [stripe[s] EXCEPT !.status = status]
  <2>2. /\ now \in Bought /\ now.status = status /\ now.customer = stripe[s].customer
        /\ now.cancels = stripe[s].cancels /\ now.plan = stripe[s].plan
    BY <1>1, <2>1 DEF Bought
  <2>3. \/ status = "past_due" /\ Send(s, now, <<"failed">>)
        \/ status = "past_due" /\ Send(s, now, <<"failed", "updated">>)
        \/ Send(s, now, <<"updated">>)
    BY <2>1
  <2> HIDE DEF now
  <2>4. CASE status = "past_due" /\ Send(s, now, <<"failed">>)
    <3>1. TellsOf(s, now, <<"failed">>)
      BY <1>1, <2>2, <2>4 DEF TellsOf, Fits, EventTypes
    <3> QED
      BY <2>2, <2>4, <3>1
  <2>5. CASE status = "past_due" /\ Send(s, now, <<"failed", "updated">>)
    <3>1. TellsOf(s, now, <<"failed", "updated">>)
      BY <1>1, <2>2, <2>5 DEF TellsOf, Fits, EventTypes
    <3> QED
      BY <2>2, <2>5, <3>1
  <2>6. CASE Send(s, now, <<"updated">>)
    <3>1. TellsOf(s, now, <<"updated">>)
      BY <1>1, <2>2 DEF TellsOf, Fits, EventTypes
    <3> QED
      BY <2>2, <2>6, <3>1
  <2> QED
    BY <2>3, <2>4, <2>5, <2>6
<1>4. CASE StripePortal(s)
  <2>1. PICK now \in Bought : now.customer = stripe[s].customer /\ Send(s, now, <<"updated">>)
    <3>1. /\ [stripe[s] EXCEPT !.cancels = ~@] \in Bought
          /\ [stripe[s] EXCEPT !.cancels = ~@].customer = stripe[s].customer
      BY <1>1 DEF Bought
    <3>2. \A price \in Plans \cup Unlisted :
            /\ [stripe[s] EXCEPT !.plan = price] \in Bought
            /\ [stripe[s] EXCEPT !.plan = price].customer = stripe[s].customer
      BY <1>1 DEF Bought
    <3> QED
      BY <1>4, <3>1, <3>2 DEF StripePortal
  <2>2. TellsOf(s, now, <<"updated">>)
    BY <1>1, <2>1 DEF TellsOf, Fits, EventTypes
  <2> QED
    BY <2>1, <2>2
<1>5. CASE StripeEnds(s)
  <2> DEFINE now == [stripe[s] EXCEPT !.status = "canceled"]
  <2>1. /\ now \in Bought /\ now.status = "canceled" /\ now.customer = stripe[s].customer
        /\ now.cancels = stripe[s].cancels /\ now.plan = stripe[s].plan
    BY <1>1 DEF Bought
  <2>2. Send(s, now, <<"deleted">>)
    BY <1>5 DEF StripeEnds
  <2> HIDE DEF now
  <2>3. TellsOf(s, now, <<"deleted">>)
    BY <1>1, <2>1 DEF TellsOf, Fits, EventTypes
  <2> QED
    BY <2>1, <2>2, <2>3
<1> QED
  BY <1>2, <1>3, <1>4, <1>5

LEMMA StripeChangeStep ==
  ASSUME IInv, NEW s \in Subscriptions,
         StripePaid(s) \/ StripePaymentFails(s) \/ StripePortal(s) \/ StripeEnds(s)
  PROVE  IInv'
BY StripeTells, ChangeStep

(* The first event of a subscription is the one of its checkout.           *)
LEMMA StripeCheckoutStep ==
  ASSUME IInv, NEW s \in Subscriptions, StripeCheckout(s)
  PROVE  IInv'
<1>1. PICK session \in sessions :
        /\ stripe[s] = NotSubscribed
        /\ Send(s, [status |-> "active", cancels |-> FALSE,
                    plan |-> session.plan, customer |-> session.customer], <<"checkout">>)
        /\ sessions' = sessions \ {session}
        /\ UNCHANGED <<database, handler, request, history>>
  BY DEF StripeCheckout
<1>2. PICK now \in Bought :
        Send(s, now, <<"checkout">>) /\ now.cancels = FALSE /\ now # NotSubscribed
  <2>1. session.plan \in Plans /\ session.customer \in Customers
    BY DEF IInv, Typed
  <2>2. [status |-> "active", cancels |-> FALSE, plan |-> session.plan,
         customer |-> session.customer] \in Bought
    BY <2>1 DEF Bought
  <2> QED
    BY <1>1, <2>2 DEF NotSubscribed, Nobody
<1>3. <<"checkout">> \in Seq(EventTypes) /\ Len(<<"checkout">>) = 1 /\ <<"checkout">>[1] = "checkout"
  BY DEF EventTypes
<1>4. UNCHANGED <<processed, row, handler, request, newest, companyCustomer, crashes>>
  BY <1>1 DEF database, history
<1>5. Typed'
  BY <1>1, <1>2, <1>3, SendTyped DEF IInv, Typed
<1>6. EventsOf(s) = {} /\ ChangesOf(s) = {} /\ UpdatesOf(s) = {} /\ row[s] = NoRow
  BY <1>1 DEF IInv, Told, Follows, ChangesOf, UpdatesOf
<1>7. PICK n : n = Len(event) + 1
  OBVIOUS
<1>8. /\ n = Len(event') /\ n > Len(event) /\ n \in Nat /\ Len(event) \in Nat
      /\ DOMAIN event = 1..Len(event) /\ DOMAIN event' = 1..n
      /\ \A e \in DOMAIN event : event'[e] = event[e]
  <2>1. Len(event) \in Nat
    BY EventsTyped DEF IInv
  <2>2. Len(event') = Len(event) + 1 /\ DOMAIN event = 1..Len(event) /\ DOMAIN event' = 1..Len(event')
    BY <1>2, <1>3, SendAppends
  <2>3. \A e \in DOMAIN event : event'[e] = event[e]
    BY <1>2, <1>3, SendAppends
  <2> QED
    BY <2>1, <2>2, <2>3, <1>7
<1>9. event'[n].type = "checkout" /\ event'[n].of = s /\ event'[n].now = now
  <2>1. PICK types \in Seq(EventTypes) : types = <<"checkout">>
    BY <1>3
  <2>2. 1 \in 1..Len(types) /\ types[1] = "checkout" /\ Send(s, now, types)
    BY <2>1, <1>2
  <2>3. event'[Len(event) + 1] = [type |-> types[1], of |-> s, now |-> now]
    BY <2>2, SendAppends
  <2> QED
    BY <2>2, <2>3, <1>7
<1>10. /\ stripe'[s] = now
       /\ \A t \in Subscriptions \ {s} : stripe'[t] = stripe[t]
       /\ \A t \in Subscriptions \ {s} :
            EventsOf(t)' = EventsOf(t) /\ ChangesOf(t)' = ChangesOf(t) /\ UpdatesOf(t)' = UpdatesOf(t)
       /\ \A e : Settled(e)' <=> Settled(e)
  BY <1>2, <1>3, <1>4, SendTells
<1>11. EventsOf(s)' = {n} /\ ChangesOf(s)' = {} /\ UpdatesOf(s)' = {}
  <2>1. EventsOf(s)' = (Len(event) + 1)..Len(event')
    BY <1>2, <1>3, <1>4, <1>6, SendTells
  <2>2. EventsOf(s)' = {n}
    BY <2>1, <1>7, <1>8
  <2> QED
    BY <2>2, <1>9 DEF ChangesOf, UpdatesOf
<1>12. ASSUME NEW t \in Subscriptions PROVE Told(t)' /\ Follows(t)'
  <2>0. Told(t) /\ Follows(t)
    BY DEF IInv
  <2>1. CASE t = s
    <3>1. Told(s)'
      BY <1>2, <1>8, <1>9, <1>10, <1>11 DEF Told
    <3>2. Follows(s)'
      BY <2>0, <2>1, <1>4, <1>6, <1>8, <1>11 DEF Follows
    <3> QED
      BY <2>1, <3>1, <3>2
  <2>2. CASE t # s
    BY <2>2, <1>2, <1>3, <1>4, OthersKeep
  <2> QED
    BY <2>1, <2>2
<1>13. ASSUME NEW h \in Handlers PROVE Holds(h)'
  <2>0. Holds(h) /\ handler'[h] = handler[h]
    BY <1>4 DEF IInv
  <2>1. /\ handler'[h].event \in {0} \cup DOMAIN event'
        /\ ~At(h, "idle")' => handler'[h].event \in DOMAIN event'
    BY <2>0, <1>8 DEF Holds, At
  <2>2. ~At(h, "idle") => handler[h].event \in DOMAIN event /\ Event(h)' = Event(h)
    BY <2>0, <1>8 DEF Holds, Event
  <2>3. CASE At(h, "writing")
    <3>1. handler[h].event \in DOMAIN event /\ Event(h)' = Event(h)
      BY <2>2, <2>3 DEF At
    <3>2. PICK r \in Subscriptions : r = Event(h).of
      BY <3>1, EventsTyped DEF IInv, Event
    <3>3. handler[h].event \in EventsOf(r)
      BY <3>1, <3>2 DEF EventsOf, Event
    <3>4. ChangesOf(r)' = ChangesOf(r) /\ UpdatesOf(r)' = UpdatesOf(r) /\ stripe'[r] = stripe[r]
      BY <3>3, <1>6, <1>10
    <3> QED
      BY <2>0, <2>1, <2>3, <3>1, <3>2, <3>4 DEF Holds, At
  <2>4. CASE ~At(h, "writing")
    BY <2>0, <2>1, <2>2, <2>4 DEF Holds, At
  <2> QED
    BY <2>3, <2>4
<1>14. ASSUME NEW c \in Clients PROVE Wants(c)'
  <2>0. Wants(c) /\ request'[c] = request[c]
    BY <1>4 DEF IInv
  <2>1. CASE Asking(c, "agreed")
    <3>1. PICK r \in Subscriptions : r = request[c].on /\ r # s
      BY <2>0, <2>1, <1>6 DEF Wants, Asking
    <3>2. UpdatesOf(r)' = UpdatesOf(r) /\ stripe'[r] = stripe[r]
      BY <3>1, <1>10
    <3>3. request[c].number \in Nat
      BY DEF IInv, Typed, AdminRequest
    <3> QED
      BY <2>0, <2>1, <3>1, <3>2, <3>3, <1>4, <1>8 DEF Wants, Asking
  <2>2. CASE ~Asking(c, "agreed")
    BY <2>0, <2>2, <1>4 DEF Wants, Asking
  <2> QED
    BY <2>1, <2>2
<1> QED
  BY <1>5, <1>12, <1>13, <1>14 DEF IInv

------------------------------------------------------------------------------
(* The deliveries.                                                         *)

LEMMA HandlerNow ==
  ASSUME IInv, NEW h \in Handlers, NEW q, handler' = [handler EXCEPT ![h] = q]
  PROVE  /\ handler'[h] = q /\ \A g \in Handlers \ {h} : handler'[g] = handler[g]
         /\ handler[h] \in Delivery
BY DEF IInv, Typed

LEMMA ReceiveStep ==
  ASSUME IInv, NEW h \in Handlers, Receive(h)
  PROVE  IInv'
<1>1. PICK e \in DOMAIN event : 
        /\ At(h, "idle")
        /\ handler' = [handler EXCEPT ![h].pc = "received", ![h].event = e]
        /\ UNCHANGED <<database, atStripe, request, history>>
  BY DEF Receive
<1> DEFINE q == [handler[h] EXCEPT !.pc = "received", !.event = e]
<1>2. q \in Delivery /\ q.pc = "received" /\ q.event = e
  <2>1. e \in Nat /\ handler[h] \in Delivery
    BY EventsTyped DEF IInv, Typed
  <2> QED
    BY <2>1 DEF Delivery
<1>3. handler' = [handler EXCEPT ![h] = q]
  BY <1>1
<1> HIDE DEF q
<1>4. handler'[h] = q /\ \A g \in Handlers \ {h} : handler'[g] = handler[g]
  BY <1>3, HandlerNow
<1>5. Holds(h)'
  BY <1>1, <1>2, <1>4 DEF Holds, At, atStripe
<1>6. \A s \in Subscriptions : \A f \in ChangesOf(s) : Settled(f)' => Settled(f)
  BY <1>1, <1>2, <1>4 DEF Settled, At, database
<1> QED
  BY <1>1, <1>2, <1>3, <1>5, <1>6, DeliveryStep DEF IInv, Typed, database, history

LEMMA FindCompanyStep ==
  ASSUME IInv, NEW h \in Handlers, FindCompany(h)
  PROVE  IInv'
<1>1. PICK label \in {"retrieving", "handled"} : Goto(h, label)
  BY DEF FindCompany
<1>2. /\ At(h, "received") /\ Event(h).type = "checkout"
      /\ UNCHANGED <<database, atStripe, request, history>>
  BY DEF FindCompany
<1> DEFINE q == [handler[h] EXCEPT !.pc = label]
<1>3. q \in Delivery /\ q.pc = label /\ q.event = handler[h].event
  BY <1>1 DEF IInv, Typed, Delivery
<1>4. handler' = [handler EXCEPT ![h] = q]
  BY <1>1 DEF Goto
<1> HIDE DEF q
<1>5. handler'[h] = q /\ \A g \in Handlers \ {h} : handler'[g] = handler[g]
  BY <1>4, HandlerNow
<1>6. handler[h].event \in DOMAIN event /\ Holds(h)
  BY <1>2 DEF IInv, Holds, At
<1>7. Event(h)' = Event(h)
  BY <1>2, <1>3, <1>5 DEF Event, atStripe
<1>8. Holds(h)'
  BY <1>2, <1>3, <1>5, <1>6, <1>7 DEF Holds, At, atStripe
<1>9. ASSUME NEW s \in Subscriptions, NEW f \in ChangesOf(s), Settled(f)' PROVE Settled(f)
  <2>1. f # handler[h].event
    BY <1>2, <1>6 DEF ChangesOf, Event
  <2> QED
    BY <2>1, <1>9, <1>2, <1>3, <1>5 DEF Settled, At, database
<1> QED
  BY <1>2, <1>3, <1>4, <1>8, <1>9, DeliveryStep DEF IInv, Typed, database, history

LEMMA RetrieveSubscriptionStep ==
  ASSUME IInv, NEW h \in Handlers, RetrieveSubscription(h)
  PROVE  IInv'
<1>1. /\ At(h, "retrieving") /\ UNCHANGED <<database, atStripe, request, history>>
      /\ Event(h).type = "checkout" /\ handler[h].event \in DOMAIN event /\ Holds(h)
  BY DEF RetrieveSubscription, IInv, Holds, At
<1>2. PICK s \in Subscriptions : s = Event(h).of
  BY <1>1, EventsTyped DEF IInv, Event
<1>3. stripe[s] \in Bought
  <2>1. handler[h].event \in EventsOf(s)
    BY <1>1, <1>2 DEF EventsOf, Event
  <2> QED
    BY <2>1 DEF IInv, Told, Typed
<1>4. PICK q \in Delivery :
        /\ handler' = [handler EXCEPT ![h] = q] /\ q.event = handler[h].event
        /\ \/ q.pc = "writing" /\ q.seen = stripe[s] /\ stripe[s].plan \in Plans
           \/ q.pc = "handled"
  <2>1. CASE stripe[s].plan \in Plans
    <3> DEFINE q == [handler[h] EXCEPT !.pc = "writing", !.seen = stripe[s]]
    <3>1. q \in Delivery /\ q.event = handler[h].event /\ q.pc = "writing" /\ q.seen = stripe[s]
      BY <1>3 DEF IInv, Typed, Delivery
    <3>2. handler' = [handler EXCEPT ![h] = q]
      BY <2>1, <1>2 DEF RetrieveSubscription
    <3> QED
      BY <2>1, <3>1, <3>2
  <2>2. CASE stripe[s].plan \notin Plans
    <3> DEFINE q == [handler[h] EXCEPT !.pc = "handled"]
    <3>1. q \in Delivery /\ q.event = handler[h].event /\ q.pc = "handled"
      BY DEF IInv, Typed, Delivery
    <3>2. handler' = [handler EXCEPT ![h] = q]
      BY <2>2, <1>2 DEF RetrieveSubscription, Goto
    <3> QED
      BY <3>1, <3>2
  <2> QED
    BY <2>1, <2>2
<1>5. handler'[h] = q /\ \A g \in Handlers \ {h} : handler'[g] = handler[g]
  BY <1>4, HandlerNow
<1>6. Event(h)' = Event(h)
  BY <1>1, <1>4, <1>5 DEF Event, atStripe
<1>7. Holds(h)'
  <2>1. stripe' = stripe /\ event' = event
    BY <1>1 DEF atStripe
  <2>2. ChangesOf(s)' = ChangesOf(s) /\ UpdatesOf(s)' = UpdatesOf(s)
    BY <2>1 DEF ChangesOf, UpdatesOf, EventsOf
  <2>3. handler'[h].event \in DOMAIN event'
    BY <1>1, <1>4, <1>5, <2>1
  <2>4. handler'[h].pc = "writing" => handler'[h].seen = stripe'[s] /\ stripe'[s] \in Bought
        /\ stripe'[s].plan \in Plans
    BY <1>3, <1>4, <1>5, <2>1
  <2> QED
    BY <1>1, <1>2, <1>6, <2>2, <2>3, <2>4 DEF Holds, At
<1>8. ASSUME NEW r \in Subscriptions, NEW f \in ChangesOf(r), Settled(f)' PROVE Settled(f)
  <2>1. f # handler[h].event
    BY <1>1 DEF ChangesOf, Event
  <2> QED
    BY <2>1, <1>8, <1>1, <1>4, <1>5 DEF Settled, At, database
<1> QED
  BY <1>1, <1>4, <1>7, <1>8, DeliveryStep DEF IInv, Typed, database, history

(* A delivery ends, marked or not.                                         *)
LEMMA EndStep ==
  ASSUME IInv, NEW h \in Handlers, Mark(h) \/ Crash(h)
  PROVE  IInv'
<1>1. /\ handler' = [handler EXCEPT ![h] = IdleHandler]
      /\ UNCHANGED <<row, companyCustomer, atStripe, request, newest>>
      /\ crashes' \in 0..MaxCrashes
  BY BoundsAssumption DEF Mark, Crash, database, history, IInv, Typed
<1>2. handler'[h] = IdleHandler /\ \A g \in Handlers \ {h} : handler'[g] = handler[g]
  BY <1>1, HandlerNow
<1>3. Holds(h)'
  BY <1>2, Idle DEF Holds, At
<1>4. processed' = processed \/ (At(h, "handled") /\ processed' = processed \cup {handler[h].event})
  BY DEF Mark, Crash, database
<1>5. processed' \subseteq DOMAIN event
  BY <1>4 DEF IInv, Typed, Holds, At
<1>6. \A s \in Subscriptions : \A f \in ChangesOf(s) : Settled(f)' => Settled(f)
  BY <1>2, <1>4, Idle DEF Settled, At
<1> QED
  BY <1>1, <1>3, <1>5, <1>6, Idle, DeliveryStep

(* What an event says is written.                                          *)
LEMMA WriteStep ==
  ASSUME IInv, NEW h \in Handlers, Write(h)
  PROVE  /\ IInv'
         /\ \A t \in Subscriptions : row[t] # NoRow => row'[t] # NoRow
         /\ \A t \in Subscriptions :
              Event(h).type = "checkout" /\ Event(h).of = t => row'[t] # NoRow
<1>1. PICK e \in DOMAIN event, s \in Subscriptions :
        /\ e = handler[h].event /\ s = event[e].of /\ Event(h) = event[e] /\ Event(h).of = s
        /\ e \in EventsOf(s) /\ e \in Nat
  <2>1. handler[h].event \in DOMAIN event
    BY DEF Write, IInv, Holds, At
  <2> QED
    BY <2>1, EventsTyped DEF IInv, Event, EventsOf
<1>2. /\ event[e].type \in EventTypes /\ event[e].now \in Bought
      /\ (At(h, "writing") /\ event[e].type = "checkout") \/ (At(h, "received") /\ event[e].type # "checkout")
  <2>1. event[e].type \in EventTypes /\ event[e].now \in Bought
    BY EventsTyped DEF IInv
  <2>2. At(h, "writing") => event[e].type = "checkout"
    BY <1>1 DEF IInv, Holds
  <2> QED
    BY <1>1, <2>1, <2>2 DEF Write
<1>3. UNCHANGED <<processed, companyCustomer, stripe, event, sessions, request, crashes>>
  BY DEF Write, atStripe
<1>4. Told(s) /\ Follows(s) /\ Holds(h) /\ row[s] \in Row /\ newest[s] \in 0..Disordered
  BY DEF IInv, Typed
(* The status that is written, and the row.                                *)
<1>5. /\ NewStatus(h) \in SubscriptionStatus
      /\ event[e].type = "checkout" => NewStatus(h) = mapStripeStatus[handler[h].seen.status]
      /\ event[e].type # "checkout" => NewStatus(h) = mapStripeStatus[event[e].now.status]
  <2>1. \A status \in {"active", "past_due", "unpaid", "canceled"} : mapStripeStatus[status] \in SubscriptionStatus
    BY Statuses DEF SubscriptionStatus
  <2>2. event[e].now.status \in {"active", "past_due", "unpaid", "canceled"}
    BY <1>2 DEF Bought
  <2>3. event[e].type = "checkout" => handler[h].seen.status \in {"active", "past_due", "unpaid", "canceled"}
    BY <1>2, <1>4 DEF Holds, Bought
  <2>4. /\ event[e].type = "paid" => event[e].now.status = "active"
        /\ event[e].type = "failed" => event[e].now.status = "past_due"
        /\ event[e].type = "deleted" => event[e].now.status = "canceled"
    BY <1>1, <1>4 DEF Told
  <2>5. /\ event[e].type = "paid" => NewStatus(h) = "ACTIVE"
        /\ event[e].type = "failed" => NewStatus(h) = "PAST_DUE"
        /\ event[e].type = "deleted" => NewStatus(h) = "CANCELED"
        /\ event[e].type = "updated" => NewStatus(h) = mapStripeStatus[event[e].now.status]
        /\ event[e].type = "checkout" => NewStatus(h) = mapStripeStatus[handler[h].seen.status]
    BY <1>1 DEF NewStatus
  <2>6. event[e].type \in {"paid", "failed", "deleted", "updated", "checkout"}
    BY <1>2 DEF EventTypes
  <2>7. event[e].type # "checkout" => NewStatus(h) = mapStripeStatus[event[e].now.status]
    BY <2>4, <2>5, <2>6, Statuses
  <2> QED
    BY <2>1, <2>2, <2>3, <2>5, <2>7
<1>6. PICK r \in Row :
        /\ row' = [row EXCEPT ![s] = r]
        /\ row[s] = NoRow /\ event[e].type # "checkout" => r = NoRow
        /\ row[s] = NoRow /\ event[e].type = "checkout" =>
             r.status = NewStatus(h) /\ r.cancels = FALSE /\ r.plan = handler[h].seen.plan
        /\ row[s] # NoRow =>
             /\ r.status = NewStatus(h)
             /\ event[e].type # "updated" => r.cancels = row[s].cancels /\ r.plan = row[s].plan
             /\ event[e].type = "updated" =>
                  /\ r.cancels = event[e].now.cancels
                  /\ event[e].now.plan \in Plans => r.plan = event[e].now.plan
  <2> DEFINE new == IF row[s] = NoRow
                     THEN IF Event(h).type # "checkout" THEN NoRow
                          ELSE [NoRow EXCEPT !.status = NewStatus(h), !.plan = handler[h].seen.plan]
                     ELSE NewRow(h, row[s])
  <2>1. row' = [row EXCEPT ![s] = new]
    BY <1>1 DEF Write
  <2>2. CASE row[s] = NoRow /\ event[e].type # "checkout"
    <3>1. new = NoRow
      BY <2>2, <1>1
    <3> QED
      BY <2>1, <2>2, <3>1, <1>4
  <2>3. CASE row[s] = NoRow /\ event[e].type = "checkout"
    <3>1. new = [NoRow EXCEPT !.status = NewStatus(h), !.plan = handler[h].seen.plan]
      BY <2>3, <1>1
    <3>2. handler[h].seen.plan \in Plans
      BY <2>3, <1>2, <1>4 DEF Holds
    <3>3. /\ new \in Row /\ new.status = NewStatus(h) /\ new.cancels = FALSE
          /\ new.plan = handler[h].seen.plan
      BY <3>1, <3>2, <1>5 DEF NoRow, Row
    <3> QED
      BY <2>1, <2>3, <3>3
  <2>4. CASE row[s] # NoRow /\ event[e].type # "updated"
    <3>1. new = [row[s] EXCEPT !.status = NewStatus(h)]
      BY <2>4, <1>1 DEF NewRow
    <3>2. /\ new \in Row /\ new.status = NewStatus(h) /\ new.cancels = row[s].cancels
          /\ new.plan = row[s].plan
      BY <3>1, <1>4, <1>5 DEF Row
    <3> QED
      BY <2>1, <2>4, <3>2
  <2>5. CASE row[s] # NoRow /\ event[e].type = "updated" /\ event[e].now.plan \in Plans
    <3>1. new = [status |-> NewStatus(h), cancels |-> event[e].now.cancels, plan |-> event[e].now.plan]
      BY <2>5, <1>1 DEF NewRow
    <3>2. /\ new \in Row /\ new.status = NewStatus(h) /\ new.cancels = event[e].now.cancels
          /\ new.plan = event[e].now.plan
      BY <2>5, <3>1, <1>2, <1>5 DEF Row, Bought
    <3> QED
      BY <2>1, <2>5, <3>2
  <2>6. CASE row[s] # NoRow /\ event[e].type = "updated" /\ event[e].now.plan \notin Plans
    <3>1. new = [row[s] EXCEPT !.status = NewStatus(h), !.cancels = event[e].now.cancels]
      BY <2>6, <1>1 DEF NewRow
    <3>2. new \in Row /\ new.status = NewStatus(h) /\ new.cancels = event[e].now.cancels
      BY <3>1, <1>2, <1>4, <1>5 DEF Row, Bought
    <3> QED
      BY <2>1, <2>6, <3>2
  <2> QED
    BY <2>2, <2>3, <2>4, <2>5, <2>6
<1>7. /\ row'[s] = r /\ \A t \in Subscriptions \ {s} : row'[t] = row[t]
      /\ newest'[s] = (IF e >= newest[s] THEN e ELSE Disordered)
      /\ \A t \in Subscriptions \ {s} : newest'[t] = newest[t]
  BY <1>1, <1>6 DEF IInv, Typed, Write, Order
<1>8. PICK q \in Delivery :
        /\ handler' = [handler EXCEPT ![h] = q]
        /\ q.pc = "handled" /\ q.event = e
  <2> DEFINE q == [IdleHandler EXCEPT !.pc = "handled", !.event = handler[h].event]
  <2>1. q \in Delivery /\ q.pc = "handled" /\ q.event = e
    BY <1>1 DEF IdleHandler, Delivery
  <2>2. handler' = [handler EXCEPT ![h] = q]
    BY DEF Write
  <2> QED
    BY <2>1, <2>2
<1>9. handler'[h] = q /\ \A g \in Handlers \ {h} : handler'[g] = handler[g]
  BY <1>8, HandlerNow
<1>10. Len(event) \in Nat /\ DOMAIN event = 1..Len(event) /\ Len(event) <= MaxEvents
  BY EventsTyped DEF IInv, Typed
<1>11. Typed'
  <2>1. row' \in [Subscriptions -> Row] /\ handler' \in [Handlers -> Delivery]
    BY <1>6, <1>8 DEF IInv, Typed
  <2>2. newest' \in [Subscriptions -> 0..Disordered]
    <3>1. (IF e >= newest[s] THEN e ELSE Disordered) \in 0..Disordered
      BY <1>1, <1>10, BoundsAssumption DEF Disordered
    <3>2. newest' = [newest EXCEPT ![s] = IF e >= newest[s] THEN e ELSE Disordered]
      BY <1>1 DEF Write, Order
    <3> QED
      BY <3>1, <3>2 DEF IInv, Typed
  <2> QED
    BY <2>1, <2>2, <1>3 DEF IInv, Typed
<1>12. \A f : Settled(f)' <=> Settled(f) \/ f = e
  BY <1>2, <1>3, <1>8, <1>9 DEF Settled, At
<1>13. \A t : /\ EventsOf(t)' = EventsOf(t) /\ ChangesOf(t)' = ChangesOf(t)
              /\ UpdatesOf(t)' = UpdatesOf(t)
  BY <1>3 DEF EventsOf, ChangesOf, UpdatesOf
<1>14. \A t \in Subscriptions : Told(t)'
  BY <1>3, ToldStays
<1>15. ASSUME NEW t \in Subscriptions \ {s} PROVE Follows(t)'
  <2>1. \A f \in ChangesOf(t) : Settled(f)' => Settled(f)
    BY <1>1, <1>12 DEF ChangesOf, EventsOf
  <2> QED
    BY <2>1, <1>3, <1>7, FollowsStays
<1>16. Follows(s)'
  <2>1. newest'[s] \in 0..Len(event) \cup {Disordered}
    BY <1>7, <1>10
  <2>2. /\ newest[s] <= newest'[s] /\ e <= newest'[s]
        /\ newest'[s] # Disordered => newest'[s] = e /\ newest[s] <= e /\ newest[s] # Disordered
    BY <1>1, <1>4, <1>7, <1>10, BoundsAssumption DEF Disordered
  <2>3. /\ \A f \in ChangesOf(s) : f \in Nat /\ f \in EventsOf(s) /\ event[f].type # "checkout"
        /\ \A f \in EventsOf(s) : f \in Nat
        /\ newest[s] \in Nat /\ newest'[s] \in Nat
    BY <1>4, <1>10, <2>1, BoundsAssumption DEF ChangesOf, EventsOf, Disordered
  <2>4. \A f \in ChangesOf(s) : Settled(f)' => f <= newest'[s]
    <3>1. \A f \in ChangesOf(s) : Settled(f) => f <= newest[s]
      BY <1>4 DEF Follows
    <3> QED
      BY <3>1, <1>1, <1>12, <2>2, <2>3
  <2>5. row'[s] # NoRow => row'[s].status # Nobody
    BY <1>5, <1>6, <1>7, Statuses
  <2>6. row'[s] # NoRow => \A f \in EventsOf(s) : event[f].type = "checkout" => f <= newest'[s]
    <3>1. CASE row[s] # NoRow
      <4>1. \A f \in EventsOf(s) : event[f].type = "checkout" => f <= newest[s]
        BY <3>1, <1>4 DEF Follows
      <4> QED
        BY <4>1, <2>2, <2>3
    <3>2. CASE row[s] = NoRow /\ row'[s] # NoRow
      <4>1. event[e].type = "checkout"
        BY <3>2, <1>6, <1>7
      <4>2. \A f \in EventsOf(s) : event[f].type = "checkout" => f = e
        BY <4>1, <1>1, <1>4 DEF Told
      <4> QED
        BY <4>2, <2>2
    <3> QED
      BY <3>1, <3>2
  (* The first event is of the checkout, and comes before every change.    *)
  <2>7. event[e].type = "checkout" => \A f \in ChangesOf(s) : e < f
    BY <1>1, <1>4, <2>3 DEF Told
  <2>8. ASSUME row'[s] # NoRow, newest'[s] # Disordered, \A f \in ChangesOf(s) : Settled(f)'
        PROVE  row'[s].status = mapStripeStatus[stripe[s].status]
    <3>1. \A f \in ChangesOf(s) : f <= e
      BY <2>2, <2>4, <2>8
    <3>2. CASE event[e].type = "checkout"
      <4>1. ChangesOf(s) = {}
        BY <3>1, <3>2, <2>3, <2>7, <1>1
      <4>2. handler[h].seen = stripe[s]
        BY <3>2, <4>1, <1>1, <1>2, <1>4 DEF Holds
      <4> QED
        BY <3>2, <4>2, <1>5, <1>6, <1>7
    <3>3. CASE event[e].type # "checkout"
      <4>1. \A f \in EventsOf(s) : f <= e
        BY <3>1, <3>3, <1>1, <1>4, <2>3 DEF Told, ChangesOf
      <4>2. event[e].now = stripe[s]
        BY <4>1, <1>1, <1>4 DEF Told
      <4>3. row[s] # NoRow
        BY <2>8, <3>3, <1>6, <1>7
      <4> QED
        BY <3>3, <4>2, <4>3, <1>5, <1>6, <1>7
    <3> QED
      BY <3>2, <3>3
  <2>9. ASSUME row'[s] # NoRow, newest'[s] # Disordered,
               \A f \in ChangesOf(s) : ~Settled(f)' => f >= e /\ event[f].type # "updated"
        PROVE  row'[s].cancels = stripe[s].cancels
              /\ (stripe[s].plan \in Plans => row'[s].plan = stripe[s].plan)
    <3>1. \A f \in UpdatesOf(s) : f \in ChangesOf(s) /\ f <= e
      <4>1. \A f \in UpdatesOf(s) : f \in ChangesOf(s) /\ event[f].type = "updated"
        BY DEF UpdatesOf, ChangesOf
      <4> QED
        BY <4>1, <2>2, <2>4, <2>9
    <3>2. CASE row[s] = NoRow
      <4>1. event[e].type = "checkout"
        BY <3>2, <2>9, <1>6, <1>7
      <4>2. UpdatesOf(s) = {}
        BY <3>1, <4>1, <2>3, <2>7, <1>1
      <4>3. stripe[s].cancels = FALSE
        BY <4>2, <1>1, <1>4 DEF Told
      <4>4. handler[h].seen.plan = stripe[s].plan
        BY <4>1, <4>2, <1>1, <1>2, <1>4 DEF Holds
      <4> QED
        BY <3>2, <4>1, <4>3, <4>4, <1>6, <1>7
    <3>3. CASE row[s] # NoRow /\ event[e].type = "updated"
      <4>1. e \in UpdatesOf(s)
        BY <3>3, <1>1 DEF UpdatesOf
      <4>2. event[e].now.cancels = stripe[s].cancels /\ event[e].now.plan = stripe[s].plan
        BY <3>1, <4>1, <1>4 DEF Told
      <4> QED
        BY <3>3, <4>2, <1>6, <1>7
    <3>4. CASE row[s] # NoRow /\ event[e].type # "updated"
      <4>1. row'[s].cancels = row[s].cancels /\ row'[s].plan = row[s].plan
        BY <3>4, <1>6, <1>7
      <4>2. ASSUME NEW f \in Unsettled(s) PROVE f >= newest[s] /\ event[f].type # "updated"
        <5>1. f \in ChangesOf(s) /\ ~Settled(f)
          BY DEF Unsettled
        <5> QED
          BY <5>1, <3>4, <1>1, <1>12, <2>2, <2>3, <2>9
      <4> QED
        BY <3>4, <4>1, <4>2, <2>2, <2>9, <1>4 DEF Follows
    <3> QED
      BY <3>2, <3>3, <3>4
  <2>10. Unsettled(s)' = {f \in ChangesOf(s) : ~Settled(f)'}
    BY <1>13 DEF Unsettled
  <2>11. row'[s] # NoRow /\ newest'[s] # Disordered /\ Unsettled(s)' = {} =>
           row'[s].status = mapStripeStatus[stripe[s].status]
    BY <2>8, <2>10
  <2>12. row'[s] # NoRow /\ newest'[s] # Disordered
           /\ (\A f \in Unsettled(s)' : f >= newest'[s] /\ event'[f].type # "updated") =>
           row'[s].cancels = stripe[s].cancels /\ (stripe[s].plan \in Plans => row'[s].plan = stripe[s].plan)
    BY <2>2, <2>9, <2>10, <1>3
  <2> QED
    BY <2>1, <2>4, <2>5, <2>6, <2>11, <2>12, <1>1, <1>3, <1>13 DEF Follows
<1>17. ASSUME NEW g \in Handlers PROVE Holds(g)'
  <2>1. CASE g = h
    BY <2>1, <1>1, <1>3, <1>8, <1>9 DEF Holds, At
  <2>2. CASE g # h
    <3>1. handler'[g] = handler[g] /\ Event(g)' = Event(g) /\ Holds(g)
      BY <2>2, <1>3, <1>9 DEF Event, IInv
    <3>2. PICK x : x = Event(g).of
      OBVIOUS
    <3> QED
      BY <3>1, <3>2, <1>3, <1>13 DEF Holds, At
  <2> QED
    BY <2>1, <2>2
<1>18. /\ \A t \in Subscriptions : row[t] # NoRow => row'[t] # NoRow
       /\ event[e].type = "checkout" => row'[s] # NoRow
  BY <1>5, <1>6, <1>7, Statuses DEF NoRow
<1>19. ASSUME NEW c \in Clients PROVE Wants(c)'
  <2>1. Wants(c) /\ request'[c] = request[c]
    BY <1>3 DEF IInv
  <2>2. PICK x : x = request[c].on
    OBVIOUS
  <2> QED
    BY <2>1, <2>2, <1>3, <1>13, <1>18 DEF Wants, Asking
<1> QED
  BY <1>1, <1>11, <1>14, <1>15, <1>16, <1>17, <1>18, <1>19 DEF IInv

------------------------------------------------------------------------------
(* The requests of the admins.                                             *)

LEMMA RequestNow ==
  ASSUME IInv, NEW c \in Clients, NEW q, request' = [request EXCEPT ![c] = q]
  PROVE  /\ request'[c] = q /\ \A d \in Clients \ {c} : request'[d] = request[d]
         /\ request[c] \in AdminRequest
BY DEF IInv, Typed

LEMMA FinishKeeps ==
  ASSUME IInv, NEW c \in Clients, Finish(c)
  PROVE  Wants(c)'
<1>1. request'[c] = IdleRequest
  BY RequestNow DEF Finish
<1> QED
  BY <1>1, Idle DEF Wants, Asking

LEMMA CheckoutSteps ==
  ASSUME IInv, NEW c \in Clients,
         StartCheckout(c) \/ CreateCustomer(c) \/ SaveCustomer(c) \/ OpenSession(c) \/ Fail(c)
  PROVE  IInv'
<1>0. request[c] \in AdminRequest /\ Wants(c) /\ companyCustomer \in Customers \cup {Nobody}
  BY DEF IInv, Typed
<1>1. CASE StartCheckout(c)
  <2>1. PICK plan \in Plans :
          request' = [request EXCEPT ![c].on = companyCustomer, ![c].change = [of |-> "plan", to |-> plan],
                        ![c].pc = IF companyCustomer = Nobody THEN "noCustomer" ELSE "customer"]
    BY <1>1 DEF StartCheckout
  <2> DEFINE q == [request[c] EXCEPT !.on = companyCustomer, !.change = [of |-> "plan", to |-> plan],
                     !.pc = IF companyCustomer = Nobody THEN "noCustomer" ELSE "customer"]
  <2>2. request' = [request EXCEPT ![c] = q]
    BY <2>1
  <2>3. /\ q.on = companyCustomer /\ q.change = [of |-> "plan", to |-> plan]
        /\ q.pc = IF companyCustomer = Nobody THEN "noCustomer" ELSE "customer"
    BY <1>0 DEF AdminRequest
  <2>4. q \in AdminRequest
    BY <1>0 DEF AdminRequest, Change
  <2> HIDE DEF q
  <2>5. request'[c] = q
    BY <2>2, RequestNow
  <2>6. Wants(c)'
    BY <1>0, <2>3, <2>5 DEF Wants, Asking
  <2> QED
    BY <1>1, <2>2, <2>4, <2>6, AdminStep DEF StartCheckout, database, atStripe, IInv, Typed
<1>2. CASE CreateCustomer(c)
  <2>1. PICK customer \in Customers :
          request' = [request EXCEPT ![c].pc = "created", ![c].on = customer]
    BY <1>2 DEF CreateCustomer
  <2> DEFINE q == [request[c] EXCEPT !.pc = "created", !.on = customer]
  <2>2. request' = [request EXCEPT ![c] = q]
    BY <2>1
  <2>3. q \in AdminRequest /\ q.on = customer /\ q.pc = "created" /\ q.change = request[c].change
    BY <1>0 DEF AdminRequest
  <2> HIDE DEF q
  <2>4. request'[c] = q
    BY <2>2, RequestNow
  <2>5. Wants(c)'
    BY <1>0, <1>2, <2>3, <2>4 DEF Wants, Asking, CreateCustomer
  <2> QED
    BY <1>2, <2>2, <2>3, <2>5, AdminStep DEF CreateCustomer, database, atStripe, IInv, Typed
<1>3. CASE SaveCustomer(c)
  <2> DEFINE q == [request[c] EXCEPT !.pc = "customer"]
  <2>1. request' = [request EXCEPT ![c] = q]
    BY <1>3 DEF SaveCustomer
  <2>2. q \in AdminRequest /\ q.on = request[c].on /\ q.pc = "customer" /\ q.change = request[c].change
    BY <1>0 DEF AdminRequest
  <2> HIDE DEF q
  <2>3. request'[c] = q
    BY <2>1, RequestNow
  <2>4. Wants(c)' /\ request[c].on \in Customers
    BY <1>0, <1>3, <2>2, <2>3 DEF Wants, Asking, SaveCustomer
  <2> QED
    BY <1>3, <2>1, <2>2, <2>4, AdminStep DEF SaveCustomer, atStripe, IInv, Typed
<1>4. CASE OpenSession(c)
  <2>1. sessions' \subseteq [customer : Customers, plan : Plans]
    <3>1. request[c].on \in Customers /\ request[c].change.to \in Plans
      BY <1>0, <1>4 DEF Wants, Asking, OpenSession
    <3> QED
      BY <3>1, <1>4 DEF OpenSession, IInv, Typed
  <2>2. Wants(c)' /\ request' = [request EXCEPT ![c] = IdleRequest]
    BY <1>4, FinishKeeps DEF OpenSession, Finish
  <2> QED
    BY <1>0, <1>4, <2>1, <2>2, Idle, AdminStep DEF OpenSession, database
<1>5. CASE Fail(c)
  <2>1. Wants(c)' /\ request' = [request EXCEPT ![c] = IdleRequest]
    BY <1>5, FinishKeeps DEF Fail, Finish
  <2> QED
    BY <1>5, <2>1, Idle, AdminStep DEF Fail, database, atStripe, IInv, Typed
<1> QED
  BY <1>1, <1>2, <1>3, <1>4, <1>5

LEMMA FindStep ==
  ASSUME IInv, NEW c \in Clients, FindSubscription(c) \/ FindPlan(c)
  PROVE  IInv'
<1>1. PICK s \in ActiveRows, change \in Change : Find(c, s, change)
  BY DEF FindSubscription, FindPlan, Change
<1>2. s \in Subscriptions /\ row[s] # NoRow
  BY <1>1 DEF ActiveRows, NoRow, Nobody
<1> DEFINE q == [pc |-> "found", on |-> s, change |-> change, number |-> 0]
<1>3. q \in AdminRequest /\ q.pc = "found" /\ q.on = s /\ q.change = change
  BY <1>2 DEF AdminRequest
<1>4. request' = [request EXCEPT ![c] = q] /\ UNCHANGED <<database, atStripe, handler, history>>
  BY <1>1 DEF Find
<1> HIDE DEF q
<1>5. request'[c] = q
  BY <1>4, RequestNow
<1>6. Wants(c)'
  BY <1>2, <1>3, <1>4, <1>5 DEF Wants, Asking, database
<1> QED
  BY <1>3, <1>4, <1>6, AdminStep DEF database, atStripe, IInv, Typed

LEMMA AskStripeStep ==
  ASSUME IInv, NEW c \in Clients, AskStripe(c)
  PROVE  IInv'
<1>1. PICK s \in Subscriptions : s = request[c].on
  BY DEF AskStripe, IInv, Wants, Asking
<1>2. PICK change \in Change : change = request[c].change
  BY DEF AskStripe, IInv, Wants, Asking
<1>3. PICK now : now = With(stripe[s], change)
  OBVIOUS
<1>4. stripe[s] \in Bought /\ stripe[s] # NotSubscribed
  BY <1>1, RunningIsBought DEF AskStripe, Running, Nobody
<1>5. now \in Bought /\ Has(now, change)
  BY <1>2, <1>3, <1>4 DEF With, Has, Bought, Change
<1> DEFINE q == [request[c] EXCEPT !.pc = "agreed", !.number = Len(event')]
<1>6. /\ request' = [request EXCEPT ![c] = q] /\ request[c] \in AdminRequest /\ Wants(c)
      /\ Asking(c, "found") /\ UNCHANGED <<database, sessions, handler, history>>
  BY DEF AskStripe, IInv, Typed
<1>7. q.on = s /\ q.change = change /\ q.number = Len(event') /\ q.pc = "agreed"
  BY <1>1, <1>2, <1>6 DEF AdminRequest
<1>8. Len(event') \in Nat => q \in AdminRequest
  BY <1>6 DEF AdminRequest
<1> HIDE DEF q
<1>9. request'[c] = q /\ \A d \in Clients \ {c} : request'[d] = request[d]
  BY <1>6, RequestNow
<1>10. row'[s] # NoRow
  BY <1>1, <1>6 DEF Wants, Asking, database
<1>11. stripe'[s] = now /\ Len(event') \in Nat => Wants(c)'
  BY <1>5, <1>7, <1>9, <1>10 DEF Wants, Asking
<1>12. CASE now = stripe[s]
  <2>1. UNCHANGED <<stripe, event>> /\ Len(event') \in Nat
    BY <1>1, <1>2, <1>3, <1>12, EventsTyped DEF AskStripe, IInv
  <2> QED
    BY <2>1, <1>6, <1>8, <1>11, <1>12, AdminStep DEF database, IInv, Typed
<1>13. CASE now # stripe[s]
  <2>1. Send(s, now, <<"updated">>)
    BY <1>1, <1>2, <1>3, <1>13 DEF AskStripe
  <2>2. TellsOf(s, now, <<"updated">>)
    BY <1>4, <1>5 DEF TellsOf, Fits, EventTypes
  <2>3. UNCHANGED <<processed, row, handler, newest>>
    BY <1>6 DEF database, history
  <2>4. Len(event') \in Nat /\ stripe'[s] = now
    BY <2>1, <2>2, <2>3, <1>5, SendChanges, SendTells DEF TellsOf
  <2>5. request' \in [Clients -> AdminRequest]
    BY <2>4, <1>6, <1>8 DEF IInv, Typed
  <2>6. Typed'
    BY <2>1, <2>2, <2>5, <1>5, <1>6, SendTyped DEF TellsOf
  <2>7. Wants(c)' /\ \A d \in Clients \ {c} : Wants(d)'
    BY <2>1, <2>2, <2>3, <2>4, <1>9, <1>11, ChangeKeeps
  <2> QED
    BY <2>1, <2>2, <2>3, <2>6, <2>7, ChangeKeeps DEF IInv
<1> QED
  BY <1>12, <1>13

(* What Stripe agreed to is written.                                       *)
LEMMA SaveChangeStep ==
  ASSUME IInv, NEW c \in Clients, SaveChange(c)
  PROVE  IInv' /\ \A t \in Subscriptions : row[t] # NoRow => row'[t] # NoRow
<1>1. PICK s \in Subscriptions : s = request[c].on /\ row[s] # NoRow
  BY DEF SaveChange, IInv, Wants, Asking
<1>2. PICK change \in Change : change = request[c].change
  BY DEF SaveChange, IInv, Wants, Asking
<1>3. PICK k \in 0..Len(event) :
        /\ k = request[c].number
        /\ (\E e \in UpdatesOf(s) : e > k) \/ Has(stripe[s], change)
  BY <1>1, <1>2 DEF SaveChange, IInv, Wants, Asking, Typed, AdminRequest
<1>4. PICK r \in Row :
        /\ row' = [row EXCEPT ![s] = r] /\ r.status = row[s].status
        /\ change.of = "plan" => r.plan = change.to /\ r.cancels = row[s].cancels
        /\ change.of # "plan" => r.cancels = change.to /\ r.plan = row[s].plan
  <2> DEFINE r == With(row[s], change)
  <2>1. row[s] \in Row
    BY DEF IInv, Typed
  <2>2. /\ r \in Row /\ r.status = row[s].status
        /\ change.of = "plan" => r.plan = change.to /\ r.cancels = row[s].cancels
        /\ change.of # "plan" => r.cancels = change.to /\ r.plan = row[s].plan
    BY <2>1 DEF With, Row, Change
  <2>3. row' = [row EXCEPT ![s] = r]
    BY <1>1, <1>2 DEF SaveChange
  <2> QED
    BY <2>2, <2>3
<1>5. /\ request' = [request EXCEPT ![c] = IdleRequest]
      /\ newest' = [newest EXCEPT ![s] = IF k >= newest[s] THEN k ELSE Disordered]
      /\ UNCHANGED <<processed, companyCustomer, stripe, event, sessions, handler, crashes>>
  BY <1>1, <1>3 DEF SaveChange, Finish, Order, atStripe
<1>6. /\ row'[s] = r /\ \A t \in Subscriptions \ {s} : row'[t] = row[t]
      /\ newest'[s] = (IF k >= newest[s] THEN k ELSE Disordered)
      /\ \A t \in Subscriptions \ {s} : newest'[t] = newest[t]
  BY <1>4, <1>5 DEF IInv, Typed
<1>7. Len(event) \in Nat /\ DOMAIN event = 1..Len(event) /\ Len(event) <= MaxEvents
  BY EventsTyped DEF IInv, Typed
<1>8. Typed'
  <2>1. (IF k >= newest[s] THEN k ELSE Disordered) \in 0..Disordered
    BY <1>3, <1>7, BoundsAssumption DEF Disordered
  <2> QED
    BY <2>1, <1>4, <1>5, Idle DEF IInv, Typed
<1>9. /\ \A e : Settled(e)' <=> Settled(e)
      /\ \A t : /\ EventsOf(t)' = EventsOf(t) /\ ChangesOf(t)' = ChangesOf(t)
                /\ UpdatesOf(t)' = UpdatesOf(t) /\ Unsettled(t)' = Unsettled(t)
  BY <1>5 DEF Settled, At, EventsOf, ChangesOf, UpdatesOf, Unsettled
<1>10. \A t \in Subscriptions : Told(t)'
  BY <1>5, ToldStays
<1>11. ASSUME NEW t \in Subscriptions \ {s} PROVE Follows(t)'
  BY <1>5, <1>6, <1>9, FollowsStays
<1>12. Follows(s)'
  <2>0. Follows(s) /\ newest[s] \in 0..Disordered
    BY DEF IInv, Typed
  <2>1. /\ newest'[s] \in 0..Len(event) \cup {Disordered} /\ newest[s] <= newest'[s]
        /\ newest'[s] # Disordered => newest'[s] = k /\ newest[s] <= k /\ newest[s] # Disordered
    BY <2>0, <1>3, <1>6, <1>7, BoundsAssumption DEF Disordered
  <2>2. /\ newest[s] \in Nat /\ newest'[s] \in Nat /\ k \in Nat
        /\ \A f \in EventsOf(s) : f \in Nat
    BY <1>3, <1>7, <2>0, <2>1, BoundsAssumption DEF EventsOf, Disordered
  <2>3. UpdatesOf(s) \subseteq ChangesOf(s) /\ ChangesOf(s) \subseteq EventsOf(s)
    BY DEF UpdatesOf, ChangesOf
  <2>4. /\ \A f \in ChangesOf(s) : Settled(f) => f <= newest'[s]
        /\ \A f \in EventsOf(s) : event[f].type = "checkout" => f <= newest'[s]
        /\ row'[s].status # Nobody /\ EventsOf(s) # {}
    BY <2>0, <2>1, <2>2, <2>3, <1>1, <1>4, <1>6 DEF Follows
  <2>5. newest'[s] # Disordered /\ Unsettled(s) = {} => row'[s].status = mapStripeStatus[stripe[s].status]
    BY <2>0, <2>1, <1>1, <1>4, <1>6 DEF Follows
  <2>6. ASSUME newest'[s] # Disordered, \A f \in Unsettled(s) : f >= newest'[s] /\ event[f].type # "updated"
        PROVE  row'[s].cancels = stripe[s].cancels
              /\ (stripe[s].plan \in Plans => row'[s].plan = stripe[s].plan)
    <3>1. ASSUME NEW f \in Unsettled(s) PROVE f >= newest[s] /\ event[f].type # "updated"
      <4>1. f \in Nat
        BY <2>2, <2>3 DEF Unsettled
      <4> QED
        BY <4>1, <2>1, <2>2, <2>6
    <3>2. row[s].cancels = stripe[s].cancels /\ (stripe[s].plan \in Plans => row[s].plan = stripe[s].plan)
      BY <3>1, <2>0, <2>1, <2>6, <1>1 DEF Follows
    <3>3. ASSUME NEW e \in UpdatesOf(s) PROVE ~(e > k)
      <4>1. e \in ChangesOf(s) /\ event[e].type = "updated" /\ e \in Nat
        BY <2>2, <2>3 DEF UpdatesOf
      <4>2. Settled(e)
        BY <4>1, <2>6 DEF Unsettled
      <4> QED
        BY <4>1, <4>2, <2>1, <2>2, <2>4, <2>6
    <3>4. Has(stripe[s], change)
      BY <3>3, <1>3
    <3> QED
      BY <3>2, <3>4, <1>4, <1>6 DEF Has
  <2> QED
    BY <2>1, <2>4, <2>5, <2>6, <1>5, <1>9 DEF Follows
<1>13. ASSUME NEW h \in Handlers PROVE Holds(h)'
  <2>1. handler'[h] = handler[h] /\ Event(h)' = Event(h) /\ Holds(h)
    BY <1>5 DEF Event, IInv
  <2>2. PICK x : x = Event(h).of
    OBVIOUS
  <2> QED
    BY <2>1, <2>2, <1>5, <1>9 DEF Holds, At
<1>14. \A t \in Subscriptions : row[t] # NoRow => row'[t] # NoRow
  <2>1. row[s].status # Nobody
    BY <1>1 DEF IInv, Follows
  <2>2. row'[s] # NoRow
    BY <2>1, <1>4, <1>6 DEF NoRow
  <2> QED
    BY <2>2, <1>6
<1>15. ASSUME NEW d \in Clients PROVE Wants(d)'
  <2>1. CASE d = c
    BY <2>1, <1>5, FinishKeeps DEF Finish
  <2>2. CASE d # c
    <3>1. Wants(d) /\ request'[d] = request[d]
      BY <2>2, <1>5 DEF IInv
    <3>2. PICK x : x = request[d].on
      OBVIOUS
    <3> QED
      BY <3>1, <3>2, <1>5, <1>9, <1>14 DEF Wants, Asking
  <2> QED
    BY <2>1, <2>2
<1> QED
  BY <1>8, <1>10, <1>11, <1>12, <1>13, <1>14, <1>15 DEF IInv

------------------------------------------------------------------------------

LEMMA StepInv == IInv /\ [Next]_vars => IInv'
<1> SUFFICES ASSUME IInv, [Next]_vars PROVE IInv'
  OBVIOUS
<1>1. CASE UNCHANGED vars
  <2>1. UNCHANGED <<stripe, event, sessions, processed, row, companyCustomer, handler, request,
        crashes, newest>>
    BY <1>1 DEF vars, database, atStripe, history
  <2>2. Typed'
    BY <2>1 DEF IInv, Typed
  <2>3. \A s \in Subscriptions : \A e \in ChangesOf(s) : Settled(e)' => Settled(e)
    BY <2>1 DEF Settled, At
  <2>4. \A s \in Subscriptions : Told(s)' /\ Follows(s)'
    BY <2>1, <2>3, ToldStays, FollowsStays
  <2>5. \A h \in Handlers : Holds(h)'
    BY <2>1 DEF IInv, Holds, At, Event, ChangesOf, UpdatesOf, EventsOf
  <2>6. \A c \in Clients : Wants(c)'
    BY <2>1 DEF IInv, Wants, Asking, UpdatesOf, EventsOf
  <2> QED
    BY <2>2, <2>4, <2>5, <2>6 DEF IInv
<1>2. CASE \E s \in Subscriptions : StripeStep(s)
  BY <1>2, StripeCheckoutStep, StripeChangeStep DEF StripeStep
<1>3. CASE \E h \in Handlers : Receive(h) \/ Handle(h) \/ Crash(h)
  BY <1>3, ReceiveStep, FindCompanyStep, RetrieveSubscriptionStep, WriteStep, EndStep DEF Handle
<1>4. CASE \E c \in Clients : Ask(c)
  BY <1>4, CheckoutSteps, FindStep, AskStripeStep, SaveChangeStep DEF Ask
<1> QED
  BY <1>1, <1>2, <1>3, <1>4 DEF Next

LEMMA InvHolds == Spec => []IInv
BY InitInv, StepInv, PTL DEF Spec

(* Every row, event, session and delivery of the model has its type:       *)
(* what the webhook and the requests of the admins write never leaves      *)
(* the columns of the subscriptions table.                                 *)
THEOREM TypesHold == Spec => []TypeOK
<1>1. IInv => TypeOK
  BY EventsTyped DEF IInv, Typed, TypeOK, Row, Holds
<1> QED
  BY <1>1, InvHolds, PTL

(* Once everything has been handled, the rows say what Stripe says unless  *)
(* something older was written over something younger, for any number of   *)
(* subscriptions, deliveries at a time, admins, events and crashes.        *)
THEOREM RowFollows == Spec => []RowFollowsStripe
<1>1. IInv => RowFollowsStripe
  <2> SUFFICES ASSUME IInv, Quiet, NEW s \in Subscriptions, newest[s] # Disordered, row[s] # NoRow
               PROVE  /\ row[s].status = mapStripeStatus[stripe[s].status]
                      /\ row[s].cancels = stripe[s].cancels
                      /\ stripe[s].plan \in Plans => row[s].plan = stripe[s].plan
    BY DEF RowFollowsStripe
  <2>1. Unsettled(s) = {}
    BY DEF Unsettled, ChangesOf, EventsOf, Settled, Quiet
  <2> QED
    BY <2>1 DEF IInv, Follows
<1> QED
  BY <1>1, InvHolds, PTL

------------------------------------------------------------------------------
(* One admin at a time.  Every session and every subscription is of the    *)
(* customer that the company has, so a checkout finds its company.         *)

SameCustomer ==
  /\ \A session \in sessions : session.customer = companyCustomer
  /\ \A s \in Subscriptions : stripe[s] # NotSubscribed => stripe[s].customer = companyCustomer
  /\ \A c \in Clients :
       /\ request[c].pc \in {"noCustomer", "created"} => companyCustomer = Nobody
       /\ request[c].pc = "customer" => request[c].on = companyCustomer /\ companyCustomer # Nobody

(* A checkout that is settled has its row, unless the subscription has had *)
(* a price that no plan has.                                               *)
Recorded(s) ==
  \A e \in EventsOf(s) : event[e].type = "checkout" /\ Settled(e) =>
    row[s] # NoRow \/ \E f \in EventsOf(s) : event[f].now.plan \notin Plans

OneAdmin == Cardinality(Clients) = 1
OneInv == IInv /\ (OneAdmin => SameCustomer /\ \A s \in Subscriptions : Recorded(s))

LEMMA TheAdmin == OneAdmin => \E c : Clients = {c}
BY ClientsAssumption, FS_Singleton DEF OneAdmin

LEMMA InitOne == Init => OneInv
<1>1. Init => SameCustomer
  BY Idle DEF Init, SameCustomer
<1>2. Init => \A s \in Subscriptions : Recorded(s)
  BY DEF Init, Recorded, EventsOf
<1> QED
  BY <1>1, <1>2, InitInv DEF OneInv

LEMMA SameCustomerStep ==
  ASSUME IInv, SameCustomer, OneAdmin, Next
  PROVE  SameCustomer'
<1>1. PICK admin : Clients = {admin}
  BY TheAdmin
<1>2. /\ companyCustomer = Nobody =>
           sessions = {} /\ \A s \in Subscriptions : stripe[s] = NotSubscribed
      /\ request[admin] \in AdminRequest
      /\ \A s \in Subscriptions : stripe[s] = NotSubscribed \/ stripe[s] \in Bought
  <2>1. Nobody \notin Customers
    BY CustomersAssumption DEF Nobody
  <2>2. \A session \in sessions : session.customer \in Customers
    BY DEF IInv, Typed
  <2>3. \A s \in Subscriptions : stripe[s] = NotSubscribed \/ stripe[s] \in Bought
    BY DEF IInv, Typed
  <2>4. \A s \in Subscriptions : stripe[s] = NotSubscribed \/ stripe[s].customer \in Customers
    BY <2>3 DEF Bought
  <2> QED
    BY <2>1, <2>2, <2>3, <2>4, <1>1 DEF SameCustomer, IInv, Typed
<1>3. ASSUME NEW s \in Subscriptions,
             StripePaid(s) \/ StripePaymentFails(s) \/ StripePortal(s) \/ StripeEnds(s)
      PROVE  SameCustomer'
  <2>1. PICK now : now.customer = stripe[s].customer /\ stripe' = [stripe EXCEPT ![s] = now]
        /\ stripe[s] # NotSubscribed
    BY <1>3, StripeTells DEF Send, TellsOf
  <2>2. UNCHANGED <<companyCustomer, sessions, request>>
    BY <1>3, StripeTells DEF database
  <2>3. \A t \in Subscriptions : stripe'[t] # NotSubscribed => stripe'[t].customer = companyCustomer
    BY <2>1 DEF SameCustomer, IInv, Typed
  <2> QED
    BY <2>2, <2>3 DEF SameCustomer
<1>4. ASSUME NEW s \in Subscriptions, StripeCheckout(s) PROVE SameCustomer'
  <2>1. PICK session \in sessions :
          /\ stripe' = [stripe EXCEPT ![s] = [status |-> "active", cancels |-> FALSE,
                         plan |-> session.plan, customer |-> session.customer]]
          /\ sessions' = sessions \ {session}
    BY <1>4 DEF StripeCheckout, Send
  <2>2. UNCHANGED <<companyCustomer, request>>
    BY <1>4 DEF StripeCheckout, database
  <2>3. \A t \in Subscriptions : stripe'[t] # NotSubscribed => stripe'[t].customer = companyCustomer
    BY <2>1 DEF SameCustomer, IInv, Typed
  <2> QED
    BY <2>1, <2>2, <2>3 DEF SameCustomer
<1>5. ASSUME NEW h \in Handlers, Receive(h) \/ Handle(h) \/ Crash(h) PROVE SameCustomer'
  BY <1>5 DEF SameCustomer, Receive, Handle, FindCompany, RetrieveSubscription, Write, Mark, Crash,
              database, atStripe
<1>6. ASSUME NEW q, request' = [request EXCEPT ![admin] = q], UNCHANGED <<stripe, companyCustomer>>,
             \A session \in sessions' : session.customer = companyCustomer,
             q.pc \in {"noCustomer", "created"} => companyCustomer = Nobody,
             q.pc = "customer" => q.on = companyCustomer /\ companyCustomer # Nobody
      PROVE  SameCustomer'
  <2>1. request'[admin] = q
    BY <1>1, <1>6, RequestNow
  <2> QED
    BY <2>1, <1>1, <1>6 DEF SameCustomer
<1>7. ASSUME StartCheckout(admin) PROVE SameCustomer'
  <2>1. PICK plan \in Plans :
          request' = [request EXCEPT ![admin].on = companyCustomer,
                ![admin].change = [of |-> "plan", to |-> plan],
                        ![admin].pc = IF companyCustomer = Nobody THEN "noCustomer" ELSE "customer"]
    BY <1>7 DEF StartCheckout
  <2> DEFINE q == [request[admin] EXCEPT !.on = companyCustomer, !.change = [of |-> "plan", to |-> plan],
                     !.pc = IF companyCustomer = Nobody THEN "noCustomer" ELSE "customer"]
  <2>2. request' = [request EXCEPT ![admin] = q]
    BY <2>1
  <2>3. q.on = companyCustomer /\ q.pc = IF companyCustomer = Nobody THEN "noCustomer" ELSE "customer"
    BY <1>2 DEF AdminRequest
  <2> HIDE DEF q
  <2>4. UNCHANGED <<stripe, companyCustomer, sessions>>
    BY <1>7 DEF StartCheckout, database, atStripe
  <2> QED
    BY <2>2, <2>3, <2>4, <1>6 DEF SameCustomer
<1>8. ASSUME CreateCustomer(admin) PROVE SameCustomer'
  <2>1. PICK customer \in Customers :
          request' = [request EXCEPT ![admin].pc = "created", ![admin].on = customer]
    BY <1>8 DEF CreateCustomer
  <2> DEFINE q == [request[admin] EXCEPT !.pc = "created", !.on = customer]
  <2>2. request' = [request EXCEPT ![admin] = q]
    BY <2>1
  <2>3. q.pc = "created"
    BY <1>2 DEF AdminRequest
  <2> HIDE DEF q
  <2>4. UNCHANGED <<stripe, companyCustomer, sessions>> /\ companyCustomer = Nobody
    BY <1>1, <1>8 DEF CreateCustomer, database, atStripe, Asking, SameCustomer
  <2> QED
    BY <2>2, <2>3, <2>4, <1>6 DEF SameCustomer
(* The customer is saved before there is a session.                        *)
<1>9. ASSUME SaveCustomer(admin) PROVE SameCustomer'
  <2> DEFINE q == [request[admin] EXCEPT !.pc = "customer"]
  <2>1. request' = [request EXCEPT ![admin] = q]
    BY <1>9 DEF SaveCustomer
  <2>2. q.pc = "customer" /\ q.on = request[admin].on
    BY <1>2 DEF AdminRequest
  <2> HIDE DEF q
  <2>3. request'[admin] = q
    BY <1>1, <2>1, RequestNow
  <2>4. companyCustomer' = request[admin].on /\ request[admin].on \in Customers
    BY <1>1, <1>9 DEF SaveCustomer, IInv, Wants, Asking
  <2>5. companyCustomer = Nobody /\ UNCHANGED <<stripe, sessions>>
    BY <1>1, <1>9 DEF SaveCustomer, SameCustomer, Asking, atStripe
  <2>6. sessions' = {} /\ \A s \in Subscriptions : stripe'[s] = NotSubscribed
    BY <2>5, <1>2
  <2> QED
    BY <2>2, <2>3, <2>4, <2>6, <1>1, CustomersAssumption DEF SameCustomer, Nobody
<1>10. ASSUME OpenSession(admin) PROVE SameCustomer'
  <2>1. request[admin].on = companyCustomer
    BY <1>1, <1>10 DEF OpenSession, SameCustomer, Asking
  <2>2. \A session \in sessions' : session.customer = companyCustomer
    BY <2>1, <1>10 DEF OpenSession, SameCustomer
  <2> QED
    BY <2>2, <1>6, <1>10, Idle DEF OpenSession, Finish, database
<1>11. ASSUME FindSubscription(admin) \/ FindPlan(admin) \/ SaveChange(admin) \/ Fail(admin)
       PROVE  SameCustomer'
  <2>1. PICK q : request' = [request EXCEPT ![admin] = q] /\ q.pc \in {"found", "idle"}
    BY <1>11, Idle DEF FindSubscription, FindPlan, Find, SaveChange, Fail, Finish
  <2>2. UNCHANGED <<stripe, companyCustomer, sessions>>
    BY <1>11 DEF FindSubscription, FindPlan, Find, SaveChange, Fail, database, atStripe
  <2> QED
    BY <2>1, <2>2, <1>6 DEF SameCustomer
<1>12. ASSUME AskStripe(admin) PROVE SameCustomer'
  <2>1. UNCHANGED <<companyCustomer, sessions>>
    BY <1>12 DEF AskStripe, database
  <2>2. request'[admin].pc = "agreed"
    <3> DEFINE q == [request[admin] EXCEPT !.pc = "agreed", !.number = Len(event')]
    <3>1. request' = [request EXCEPT ![admin] = q] /\ q.pc = "agreed"
      BY <1>2, <1>12 DEF AskStripe, AdminRequest
    <3> HIDE DEF q
    <3> QED
      BY <3>1, <1>1, RequestNow
  <2> DEFINE s == request[admin].on
             change == request[admin].change
  <2>3. s \in Subscriptions
    BY <1>1, <1>12 DEF AskStripe, IInv, Wants, Asking
  <2> DEFINE now == With(stripe[s], change)
  <2>4. stripe' = stripe \/ stripe' = [stripe EXCEPT ![s] = now]
    BY <1>12 DEF AskStripe, Send
  <2>5. stripe[s] \in Bought /\ stripe[s] # NotSubscribed
    BY <1>12, <2>3, RunningIsBought DEF AskStripe, Running, Nobody
  <2> HIDE DEF s, change
  <2>6. now.customer = stripe[s].customer
    BY <2>5 DEF With, Bought
  <2> HIDE DEF now
  <2>7. \A t \in Subscriptions : stripe'[t] # NotSubscribed => stripe'[t].customer = companyCustomer
    BY <2>3, <2>4, <2>5, <2>6 DEF SameCustomer, IInv, Typed
  <2> QED
    BY <2>1, <2>2, <2>7, <1>1 DEF SameCustomer
<1> QED
  BY <1>1, <1>3, <1>4, <1>5, <1>7, <1>8, <1>9, <1>10, <1>11, <1>12 DEF Next, StripeStep, Ask

(* Nothing is settled, no row goes away and Stripe takes nothing back.     *)
LEMMA RecordedStays ==
  ASSUME IInv, NEW s \in Subscriptions, Recorded(s),
         \A e \in DOMAIN event : e \in DOMAIN event' /\ event'[e] = event[e],
         \A e : event'[e].type = "checkout" /\ Settled(e)' => e \in DOMAIN event /\ Settled(e),
         row[s] # NoRow => row'[s] # NoRow
  PROVE  Recorded(s)'
<1>1. \A e \in EventsOf(s) : e \in EventsOf(s)' /\ event'[e] = event[e]
  BY DEF EventsOf
<1>2. ASSUME NEW e \in EventsOf(s)', event'[e].type = "checkout", Settled(e)'
      PROVE  e \in EventsOf(s) /\ event[e].type = "checkout" /\ Settled(e)
  <2>1. e \in DOMAIN event /\ Settled(e)
    BY <1>2
  <2> QED
    BY <2>1, <1>2 DEF EventsOf
<1> QED
  BY <1>1, <1>2 DEF Recorded

LEMMA RecordedStep ==
  ASSUME IInv, IInv', SameCustomer, NEW s \in Subscriptions, Recorded(s), Next
  PROVE  Recorded(s)'
<1>1. \A e : Settled(e) => e \in DOMAIN event
  BY DEF IInv, Typed, Settled, Holds, At
<1>2. ASSUME NEW t \in Subscriptions, NEW now \in Bought, NEW types \in Seq(EventTypes),
             Send(t, now, types), UNCHANGED <<processed, handler, row>>
      PROVE  Recorded(s)'
  <2>1. \A e \in DOMAIN event : e \in DOMAIN event' /\ event'[e] = event[e]
    <3>1. /\ \A e \in DOMAIN event : event'[e] = event[e]
          /\ Len(types) \in Nat /\ Len(event') = Len(event) + Len(types)
          /\ DOMAIN event = 1..Len(event) /\ DOMAIN event' = 1..Len(event')
      BY <1>2, SendAppends
    <3>2. Len(event) \in Nat
      BY EventsTyped DEF IInv
    <3> QED
      BY <3>1, <3>2
  <2>2. \A e : Settled(e)' <=> Settled(e)
    BY <1>2 DEF Settled, At
  <2> QED
    BY <2>1, <2>2, <1>1, <1>2, RecordedStays
<1>3. ASSUME NEW t \in Subscriptions, StripeStep(t) PROVE Recorded(s)'
  <2>1. CASE StripeCheckout(t)
    <3>1. PICK session \in sessions :
            Send(t, [status |-> "active", cancels |-> FALSE,
                     plan |-> session.plan, customer |-> session.customer], <<"checkout">>)
      BY <2>1 DEF StripeCheckout
    <3>2. session.plan \in Plans /\ session.customer \in Customers
      BY DEF IInv, Typed
    <3>3. [status |-> "active", cancels |-> FALSE, plan |-> session.plan,
           customer |-> session.customer] \in Bought /\ <<"checkout">> \in Seq(EventTypes)
      BY <3>2 DEF Bought, EventTypes
    <3> QED
      BY <2>1, <3>1, <3>3, <1>2 DEF StripeCheckout, database
  <2>2. CASE StripePaid(t) \/ StripePaymentFails(t) \/ StripePortal(t) \/ StripeEnds(t)
    <3>1. PICK now, types : TellsOf(t, now, types) /\ Send(t, now, types)
      BY <2>2, StripeTells
    <3>2. UNCHANGED <<database, handler>>
      BY <2>2, StripeTells
    <3> QED
      BY <3>1, <3>2, <1>2 DEF TellsOf, database
  <2> QED
    BY <1>3, <2>1, <2>2 DEF StripeStep
<1>4. ASSUME NEW c \in Clients, Ask(c), UNCHANGED event PROVE Recorded(s)'
  <2>1. UNCHANGED <<processed, handler>>
    BY <1>4 DEF Ask, StartCheckout, CreateCustomer, SaveCustomer, OpenSession, FindSubscription, FindPlan, Find,
                AskStripe, SaveChange, Fail, database
  <2>2. row[s] # NoRow => row'[s] # NoRow
    <3>1. SaveChange(c) \/ row' = row
      BY <1>4 DEF Ask, StartCheckout, CreateCustomer, SaveCustomer, OpenSession, FindSubscription,
            FindPlan, Find,
                  AskStripe, Fail, database
    <3> QED
      BY <3>1, SaveChangeStep
  <2>3. \A e : Settled(e)' <=> Settled(e)
    BY <2>1 DEF Settled, At
  <2> QED
    BY <2>2, <2>3, <1>1, <1>4, RecordedStays
<1>5. ASSUME NEW c \in Clients, Ask(c) PROVE Recorded(s)'
  <2>1. CASE UNCHANGED event
    BY <1>4, <1>5, <2>1
  <2>2. CASE ~UNCHANGED event
    <3>1. AskStripe(c)
      BY <1>5, <2>2 DEF Ask, StartCheckout, CreateCustomer, SaveCustomer, OpenSession,
            FindSubscription, FindPlan,
                        Find, SaveChange, Fail, atStripe
    <3>2. PICK t \in Subscriptions, change \in Change : t = request[c].on /\ change = request[c].change
      BY <3>1 DEF AskStripe, IInv, Wants, Asking
    <3>3. stripe[t] \in Bought
      BY <3>1, <3>2, RunningIsBought DEF AskStripe, Running, Nobody
    <3>4. PICK now \in Bought : now = With(stripe[t], change)
      BY <3>2, <3>3 DEF With, Bought, Change
    <3>5. Send(t, now, <<"updated">>) /\ <<"updated">> \in Seq(EventTypes)
      BY <3>1, <3>2, <3>4, <2>2 DEF AskStripe, EventTypes
    <3> QED
      BY <3>1, <3>5, <1>2 DEF AskStripe, database
  <2> QED
    BY <2>1, <2>2
(* The deliveries: a checkout is not written when its subscription has at  *)
(* Stripe a price that no plan has, and the event that told it remains.    *)
<1>6. ASSUME NEW h \in Handlers, Receive(h) \/ Mark(h) \/ Crash(h) PROVE Recorded(s)'
  <2>1. UNCHANGED <<event, row>>
    BY <1>6 DEF Receive, Mark, Crash, database, atStripe
  <2>2. PICK q : handler' = [handler EXCEPT ![h] = q] /\ q.pc # "handled"
    <3>1. CASE Receive(h)
      <4>1. PICK e \in DOMAIN event :
              handler' = [handler EXCEPT ![h].pc = "received", ![h].event = e]
        BY <3>1 DEF Receive
      <4> DEFINE q == [handler[h] EXCEPT !.pc = "received", !.event = e]
      <4>2. handler' = [handler EXCEPT ![h] = q]
        BY <4>1
      <4>3. q.pc = "received"
        BY DEF IInv, Typed, Delivery
      <4> QED
        BY <4>2, <4>3
    <3>2. CASE Mark(h) \/ Crash(h)
      BY <3>2, Idle DEF Mark, Crash
    <3> QED
      BY <1>6, <3>1, <3>2
  <2>3. handler'[h] = q /\ \A g \in Handlers \ {h} : handler'[g] = handler[g]
    BY <2>2, HandlerNow
  <2>4. processed' = processed \/ (At(h, "handled") /\ processed' = processed \cup {handler[h].event})
    BY <1>6 DEF Receive, Mark, Crash, database
  <2>5. \A e : Settled(e)' => Settled(e)
    BY <2>2, <2>3, <2>4 DEF Settled, At
  <2> QED
    BY <2>1, <2>5, <1>1, RecordedStays
<1>7. ASSUME NEW h \in Handlers, FindCompany(h) PROVE Recorded(s)'
  <2>1. UNCHANGED <<event, row, processed>>
    BY <1>7 DEF FindCompany, database, atStripe
  <2>2. companyCustomer = stripe[Event(h).of].customer
    <3>1. handler[h].event \in DOMAIN event
      BY <1>7 DEF FindCompany, IInv, Holds, At
    <3>2. PICK t \in Subscriptions : t = Event(h).of
      BY <3>1, EventsTyped DEF IInv, Event
    <3>3. handler[h].event \in EventsOf(t)
      BY <3>1, <3>2 DEF EventsOf, Event
    <3>4. stripe[t] # NotSubscribed
      BY <3>3 DEF IInv, Told
    <3> QED
      BY <3>2, <3>4 DEF SameCustomer
  <2>3. Goto(h, "retrieving")
    BY <1>7, <2>2 DEF FindCompany
  <2>4. handler'[h].pc = "retrieving" /\ \A g \in Handlers \ {h} : handler'[g] = handler[g]
    BY <2>3 DEF Goto, IInv, Typed, Delivery
  <2>5. \A e : Settled(e)' => Settled(e)
    BY <2>1, <2>4 DEF Settled, At
  <2> QED
    BY <2>1, <2>5, <1>1, RecordedStays
<1>8. ASSUME NEW h \in Handlers, Write(h) \/ RetrieveSubscription(h) PROVE Recorded(s)'
  <2>1. UNCHANGED <<stripe, event, processed>>
    BY <1>8 DEF Write, RetrieveSubscription, database, atStripe
  <2>2. row[s] # NoRow => row'[s] # NoRow
    BY <1>8, WriteStep DEF RetrieveSubscription, database
  <2>3. \A g \in Handlers \ {h} : handler'[g] = handler[g]
    BY <1>8 DEF Write, RetrieveSubscription, Goto, IInv, Typed
  <2>4. handler'[h].event = handler[h].event
    <3>1. handler \in [Handlers -> Delivery] /\ handler[h] \in Delivery
      BY DEF IInv, Typed
    <3>2. CASE Write(h)
      <4>1. handler'[h] = [IdleHandler EXCEPT !.pc = "handled", !.event = handler[h].event]
        BY <3>1, <3>2 DEF Write
      <4> QED
        BY <4>1 DEF IdleHandler
    <3>3. CASE RetrieveSubscription(h)
      <4>1. \/ handler'[h] = [handler[h] EXCEPT !.pc = "handled"]
            \/ \E seen : handler'[h] = [handler[h] EXCEPT !.pc = "writing", !.seen = seen]
        BY <3>1, <3>3 DEF RetrieveSubscription, Goto
      <4> QED
        BY <3>1, <4>1 DEF Delivery
    <3> QED
      BY <1>8, <3>2, <3>3
  <2>5. \A e : Settled(e)' => Settled(e) \/ (e = handler[h].event /\ At(h, "handled")')
    BY <2>1, <2>3, <2>4 DEF Settled, At
  <2>6. ASSUME NEW e \in EventsOf(s), event[e].type = "checkout", e = handler[h].event, At(h, "handled")'
        PROVE  row'[s] # NoRow \/ \E f \in EventsOf(s) : event[f].now.plan \notin Plans
    <3>1. Event(h).of = s /\ Event(h).type = "checkout"
      BY <2>6 DEF Event, EventsOf
    <3>2. CASE Write(h)
      BY <3>1, <3>2, WriteStep
    <3>3. CASE RetrieveSubscription(h)
      <4>1. stripe[s].plan \notin Plans
        BY <2>6, <3>1, <3>3 DEF RetrieveSubscription, At, IInv, Typed, Delivery
      <4>2. \E f \in EventsOf(s) : event[f].now = stripe[s]
        BY <2>6 DEF IInv, Told
      <4> QED
        BY <4>1, <4>2
    <3> QED
      BY <1>8, <3>2, <3>3
  <2>7. EventsOf(s)' = EventsOf(s)
    BY <2>1 DEF EventsOf
  <2> QED
    BY <2>1, <2>2, <2>5, <2>6, <2>7 DEF Recorded
<1> QED
  BY <1>3, <1>5, <1>6, <1>7, <1>8 DEF Next, Handle

LEMMA StepOne == OneInv /\ [Next]_vars => OneInv'
<1> SUFFICES ASSUME OneInv, [Next]_vars PROVE OneInv'
  OBVIOUS
<1>1. IInv'
  BY StepInv DEF OneInv
<1>2. ASSUME OneAdmin, Next PROVE SameCustomer' /\ \A s \in Subscriptions : Recorded(s)'
  BY <1>1, <1>2, SameCustomerStep, RecordedStep DEF OneInv
<1>3. ASSUME OneAdmin, UNCHANGED vars PROVE SameCustomer' /\ \A s \in Subscriptions : Recorded(s)'
  <2>1. UNCHANGED <<stripe, event, sessions, processed, row, companyCustomer, handler, request>>
    BY <1>3 DEF vars, database, atStripe
  <2>2. SameCustomer'
    BY <1>3, <2>1 DEF SameCustomer, OneInv
  <2>3. ASSUME NEW s \in Subscriptions PROVE Recorded(s)'
    BY <1>3, <2>1 DEF Recorded, EventsOf, Settled, At, OneInv
  <2> QED
    BY <2>2, <2>3
<1> QED
  BY <1>1, <1>2, <1>3 DEF OneInv, OneAdmin

(* With one admin at a time every checkout that has been handled has its   *)
(* row unless the subscription has had a price that no plan has; and if    *)
(* all prices are listed and nothing was written out of order, the guard   *)
(* lets the company in exactly while it has an active subscription.        *)
THEOREM CheckoutHasItsRow == Spec => []CheckoutIsRecorded
<1>1. ASSUME OneInv, Quiet, OneAdmin, NEW s \in Subscriptions, stripe[s] # NotSubscribed,
             \A e \in DOMAIN event : event[e].of = s => event[e].now.plan \in Plans
      PROVE  row[s] # NoRow
  <2>1. PICK e \in EventsOf(s) : event[e].type = "checkout"
    BY <1>1 DEF OneInv, IInv, Told
  <2>2. Settled(e)
    BY <1>1 DEF Settled, Quiet, EventsOf
  <2> QED
    BY <1>1, <2>1, <2>2 DEF OneInv, Recorded, EventsOf
<1>2. ASSUME OneInv, Quiet, NEW s \in Subscriptions, row[s] # NoRow, newest[s] # Disordered
      PROVE  row[s].status \in {"ACTIVE", "TRIALING"} <=> stripe[s].status = "active"
  <2>1. row[s].status = mapStripeStatus[stripe[s].status]
    <3>1. Unsettled(s) = {}
      BY <1>2 DEF Unsettled, ChangesOf, EventsOf, Settled, Quiet
    <3> QED
      BY <1>2, <3>1 DEF OneInv, IInv, Follows
  <2>2. stripe[s].status \in {"active", "past_due", "unpaid", "canceled"}
    BY <1>2 DEF OneInv, IInv, Follows, Told, Typed, Bought
  <2> QED
    BY <2>1, <2>2, Statuses
<1>3. ASSUME OneInv, NEW s \in Subscriptions, stripe[s] = NotSubscribed PROVE row[s] = NoRow
  BY <1>3 DEF OneInv, IInv, Told, Follows
<1>4. OneInv => CheckoutIsRecorded
  <2> SUFFICES ASSUME OneInv, Quiet, OneAdmin PROVE CheckoutIsRecorded
    BY DEF CheckoutIsRecorded, OneAdmin
  <2> DEFINE subscribed == {s \in Subscriptions : stripe[s] # NotSubscribed}
             listed == {s \in subscribed :
                          \A e \in DOMAIN event : event[e].of = s => event[e].now.plan \in Plans}
  <2>1. \A s \in listed : row[s] # NoRow
    BY <1>1
  <2>2. ASSUME listed = subscribed, \A s \in subscribed : newest[s] # Disordered
        PROVE  canActivate <=> \E s \in subscribed : stripe[s].status = "active"
    <3>1. \A s \in subscribed : row[s].status \in {"ACTIVE", "TRIALING"} <=> stripe[s].status = "active"
      BY <2>1, <2>2, <1>2
    <3>2. \A s \in Subscriptions : row[s].status \in {"ACTIVE", "TRIALING"} => s \in subscribed
      BY <1>3 DEF NoRow, Nobody
    <3> QED
      BY <3>1, <3>2 DEF canActivate, ActiveRows
  <2> QED
    BY <2>1, <2>2 DEF CheckoutIsRecorded
<1>5. Spec => []OneInv
  BY InitOne, StepOne, PTL DEF Spec
<1> QED
  BY <1>4, <1>5, PTL
==============================================================================
