-------------------------- MODULE Customers_proofs ---------------------------
(* Proofs about Customers and DeskReports, for any customers, phones,      *)
(* clients, orders and rows of a page.                                     *)
EXTENDS DeskReports, FiniteSetTheorems, SequenceTheorems, TLAPS

Status == DOMAIN Allowed \ {"absent"}
Change == [of : Orders \cup {Nobody}, to : DOMAIN Allowed]
HeldRequest == [pc : Labels, on : CustomerIds \cup {Nobody}, phone : Phones \cup {Nobody}, change : Change]

Typed ==
  /\ customer \in [CustomerIds -> Phones \cup {Nobody}]
  /\ order \in [Orders -> [state : DOMAIN Allowed, of : CustomerIds \cup {Nobody}]]
  /\ req \in [Clients -> HeldRequest]

(* An order has a status exactly when it is there, and then its customer   *)
(* is there too.                                                           *)
Belongs(o) ==
  \/ order[o] = NoOrder
  \/ order[o].state \in Status /\ order[o].of \in CustomerIds /\ Exists(order[o].of)

(* What the requests hold: the customer, the phone, an order that is there.*)
InHand(c) ==
  /\ req[c].pc \in {"phoneFree", "found", "phoneFreeForUpdate"} =>
       req[c].on \in CustomerIds /\ req[c].phone \in Phones
  /\ req[c].pc \in {"removing", "counted", "customerChecked"} => req[c].on \in CustomerIds
  /\ req[c].pc = "statusChecked" =>
       /\ req[c].change.of \in Orders /\ order[req[c].change.of] # NoOrder
       /\ req[c].change.to \in Status

IInv == Typed /\ (\A o \in Orders : Belongs(o)) /\ (\A c \in Clients : InHand(c))

LEMMA InitInv == Init => IInv
BY DEF Init, IInv, Typed, Belongs, InHand, HeldRequest, Change, IdleRequest, NoChange, NoOrder, Labels,
       Allowed, Nobody

LEMMA IdleIsRequest == IdleRequest \in HeldRequest /\ IdleRequest.pc = "idle"
BY DEF IdleRequest, NoChange, HeldRequest, Change, Labels, Allowed

(* A step that only gives client c another request keeps the invariant if  *)
(* the new request is one that may be held.                                *)
LEMMA RequestStep ==
  ASSUME IInv, NEW c \in Clients, NEW q \in HeldRequest, UNCHANGED tables,
         req' = [req EXCEPT ![c] = q], InHand(c)'
  PROVE  IInv'
<1>1. Typed'
  BY DEF IInv, Typed, tables
<1>2. \A o \in Orders : Belongs(o)'
  BY DEF IInv, Belongs, Exists, tables
<1>3. \A d \in Clients \ {c} : InHand(d)'
  BY DEF IInv, Typed, InHand, tables
<1> QED
  BY <1>1, <1>2, <1>3 DEF IInv

LEMMA StepInv == IInv /\ [Next]_vars => IInv'
<1> SUFFICES ASSUME IInv, [Next]_vars PROVE IInv'
  OBVIOUS
<1>0. Typed /\ (\A o \in Orders : Belongs(o)) /\ (\A c \in Clients : InHand(c))
  BY DEF IInv
(* Finishing, with or without a change of a row.                           *)
<1>f. ASSUME NEW c \in Clients, Finish(c)
      PROVE  /\ req' \in [Clients -> HeldRequest]
             /\ req'[c].pc = "idle" /\ \A d \in Clients \ {c} : req'[d] = req[d]
  BY <1>0, <1>f, IdleIsRequest DEF Finish, Typed
<1>g. ASSUME NEW c \in Clients, Finish(c), UNCHANGED tables PROVE IInv'
  BY <1>0, <1>f, <1>g DEF IInv, Typed, Belongs, InHand, Exists, tables
<1>h. ASSUME NEW c \in Clients, NEW q \in HeldRequest, UNCHANGED tables, req' = [req EXCEPT ![c] = q]
      PROVE  req'[c] = q
  BY <1>0, <1>h DEF Typed
<1>1. ASSUME NEW c \in Clients, CheckPhone(c) PROVE IInv'
  <2>1. PICK k \in CustomerIds, phone \in Phones :
          req' = [req EXCEPT ![c] = [IdleRequest EXCEPT !.pc = "phoneFree", !.on = k, !.phone = phone]]
    BY <1>1 DEF CheckPhone
  <2> DEFINE q == [IdleRequest EXCEPT !.pc = "phoneFree", !.on = k, !.phone = phone]
  <2>2. q \in HeldRequest /\ q.pc = "phoneFree" /\ q.on = k /\ q.phone = phone
    BY IdleIsRequest DEF HeldRequest, Labels
  <2>3. UNCHANGED tables
    BY <1>1 DEF CheckPhone
  <2> HIDE DEF q
  <2>4. req'[c] = q
    BY <1>h, <2>1, <2>2, <2>3 DEF q
  <2>5. InHand(c)'
    BY <2>2, <2>4 DEF InHand
  <2> QED
    BY <2>1, <2>2, <2>3, <2>5, RequestStep DEF q
<1>2. ASSUME NEW c \in Clients, InsertCustomer(c) PROVE IInv'
  <2>1. /\ req[c].on \in CustomerIds /\ req[c].phone \in Phones /\ order' = order
        /\ customer' = [customer EXCEPT ![req[c].on] = req[c].phone] /\ Finish(c)
    BY <1>0, <1>2 DEF InsertCustomer, At, InHand
  <2>2. \A k \in CustomerIds : Exists(k) => Exists(k)'
    BY <1>0, <2>1, NobodyAssumption DEF Exists, Typed
  <2> QED
    BY <1>0, <1>f, <2>1, <2>2 DEF IInv, Typed, Belongs, InHand
<1>3. ASSUME NEW c \in Clients, FindForUpdate(c) PROVE IInv'
  <2>1. PICK k \in CustomerIds, phone \in Phones :
          req' = [req EXCEPT ![c] = [IdleRequest EXCEPT !.pc = "found", !.on = k, !.phone = phone]]
    BY <1>3 DEF FindForUpdate
  <2> DEFINE q == [IdleRequest EXCEPT !.pc = "found", !.on = k, !.phone = phone]
  <2>2. q \in HeldRequest /\ q.pc = "found" /\ q.on = k /\ q.phone = phone
    BY IdleIsRequest DEF HeldRequest, Labels
  <2>3. UNCHANGED tables
    BY <1>3 DEF FindForUpdate
  <2> HIDE DEF q
  <2>4. req'[c] = q
    BY <1>h, <2>1, <2>2, <2>3 DEF q
  <2>5. InHand(c)'
    BY <2>2, <2>4 DEF InHand
  <2> QED
    BY <2>1, <2>2, <2>3, <2>5, RequestStep DEF q
<1>4. ASSUME NEW c \in Clients, FindForRemove(c) \/ CheckCustomer(c) PROVE IInv'
  <2>1. PICK k \in CustomerIds, l \in {"removing", "customerChecked"} :
          req' = [req EXCEPT ![c] = [IdleRequest EXCEPT !.pc = l, !.on = k]]
    BY <1>4 DEF FindForRemove, CheckCustomer
  <2> DEFINE q == [IdleRequest EXCEPT !.pc = l, !.on = k]
  <2>2. q \in HeldRequest /\ q.pc = l /\ q.on = k
    BY IdleIsRequest DEF HeldRequest, Labels
  <2>3. UNCHANGED tables
    BY <1>4 DEF FindForRemove, CheckCustomer
  <2> HIDE DEF q
  <2>4. req'[c] = q
    BY <1>h, <2>1, <2>2, <2>3 DEF q
  <2>5. InHand(c)'
    BY <2>2, <2>4 DEF InHand
  <2> QED
    BY <2>1, <2>2, <2>3, <2>5, RequestStep DEF q
<1>5. ASSUME NEW c \in Clients, NEW l \in {"phoneFreeForUpdate", "counted", "reading"},
             req' = [req EXCEPT ![c].pc = l], UNCHANGED tables,
             l = "phoneFreeForUpdate" => req[c].pc = "found",
             l = "counted" => req[c].pc = "removing"
      PROVE  IInv'
  <2> DEFINE q == [req[c] EXCEPT !.pc = l]
  <2>1. req[c] \in HeldRequest /\ req' = [req EXCEPT ![c] = q]
    BY <1>0, <1>5 DEF Typed
  <2>2. /\ q \in HeldRequest /\ q.pc = l /\ q.on = req[c].on /\ q.phone = req[c].phone
    BY <2>1 DEF HeldRequest, Labels
  <2> HIDE DEF q
  <2>3. InHand(c)'
    BY <1>0, <1>5, <1>h, <2>1, <2>2 DEF InHand
  <2> QED
    BY <1>5, <2>1, <2>2, <2>3, RequestStep
<1>6. ASSUME NEW c \in Clients, UpdateCustomer(c) PROVE IInv'
  <2>1. /\ req[c].on \in CustomerIds /\ req[c].phone \in Phones /\ order' = order
        /\ customer' = [customer EXCEPT ![req[c].on] = IF @ = Nobody THEN @ ELSE req[c].phone]
        /\ Finish(c)
    BY <1>0, <1>6 DEF UpdateCustomer, At, InHand
  <2>2. \A k \in CustomerIds : Exists(k) => Exists(k)'
    BY <1>0, <2>1, NobodyAssumption DEF Exists, Typed
  <2>3. customer' \in [CustomerIds -> Phones \cup {Nobody}]
    BY <1>0, <2>1 DEF Typed
  <2> QED
    BY <1>0, <1>f, <2>1, <2>2, <2>3 DEF IInv, Typed, Belongs, InHand
(* The foreign key: a customer with orders stays.                          *)
<1>7. ASSUME NEW c \in Clients, DeleteCustomer(c) PROVE IInv'
  <2>1. /\ req[c].on \in CustomerIds /\ order' = order /\ Finish(c)
        /\ customer' = [customer EXCEPT ![req[c].on] = IF OrdersOf(req[c].on) = {} THEN Nobody ELSE @]
    BY <1>0, <1>7 DEF DeleteCustomer, At, InHand
  <2>2. ASSUME NEW o \in Orders, order[o].of \in CustomerIds, Exists(order[o].of)
        PROVE  Exists(order[o].of)'
    BY <1>0, <2>1, <2>2 DEF Exists, Typed, OrdersOf
  <2>3. customer' \in [CustomerIds -> Phones \cup {Nobody}]
    BY <1>0, <2>1 DEF Typed
  <2>4. \A o \in Orders : Belongs(o)'
    BY <1>0, <2>1, <2>2 DEF Belongs
  <2> QED
    BY <1>0, <1>f, <2>1, <2>3, <2>4 DEF IInv, Typed, InHand
<1>8. ASSUME NEW c \in Clients, InsertOrder(c) PROVE IInv'
  <2>1. PICK o \in Orders : order' = [order EXCEPT ![o] = [state |-> "active", of |-> req[c].on]]
    BY <1>8 DEF InsertOrder
  <2>2. req[c].on \in CustomerIds /\ Exists(req[c].on) /\ customer' = customer /\ Finish(c)
    BY <1>0, <1>8 DEF InsertOrder, At, InHand
  <2>3. "active" \in Status /\ [state |-> "active", of |-> req[c].on] # NoOrder
    BY DEF Status, Allowed, NoOrder
  <2>4. order' \in [Orders -> [state : DOMAIN Allowed, of : CustomerIds \cup {Nobody}]]
    BY <1>0, <2>1, <2>2, <2>3 DEF Typed, Status
  <2>5. \A p \in Orders : Belongs(p)'
    BY <1>0, <2>1, <2>2, <2>3 DEF Typed, Belongs, Exists
  <2>6. \A p \in Orders : order[p] # NoOrder => order'[p] # NoOrder
    BY <1>0, <2>1, <2>3 DEF Typed
  <2> QED
    BY <1>0, <1>f, <2>2, <2>4, <2>5, <2>6 DEF IInv, Typed, InHand
<1>9. ASSUME NEW c \in Clients, CheckStatus(c) PROVE IInv'
  <2>1. PICK o \in Orders : \E to \in Allowed[order[o].state] :
          req' = [req EXCEPT ![c] = [IdleRequest EXCEPT !.pc = "statusChecked",
                                                        !.change = [of |-> o, to |-> to]]]
    BY <1>9 DEF CheckStatus
  <2>2. PICK to \in Allowed[order[o].state] :
          req' = [req EXCEPT ![c] = [IdleRequest EXCEPT !.pc = "statusChecked",
                                                        !.change = [of |-> o, to |-> to]]]
    BY <2>1
  <2>3. to \in Status /\ order[o] # NoOrder
    BY <1>0 DEF Typed, Allowed, Status, NoOrder
  <2> DEFINE q == [IdleRequest EXCEPT !.pc = "statusChecked", !.change = [of |-> o, to |-> to]]
  <2>4. q \in HeldRequest /\ q.pc = "statusChecked" /\ q.change = [of |-> o, to |-> to]
    BY <2>3, IdleIsRequest DEF HeldRequest, Labels, Change, Status
  <2>5. UNCHANGED tables
    BY <1>9 DEF CheckStatus
  <2> HIDE DEF q
  <2>6. req'[c] = q
    BY <1>h, <2>2, <2>4, <2>5 DEF q
  <2>7. InHand(c)'
    BY <2>3, <2>4, <2>5, <2>6 DEF InHand, tables
  <2> QED
    BY <2>2, <2>4, <2>5, <2>7, RequestStep DEF q
<1>10. ASSUME NEW c \in Clients, CommitStatus(c) PROVE IInv'
  <2> DEFINE o == req[c].change.of
             to == req[c].change.to
  <2>1. /\ o \in Orders /\ order[o] # NoOrder /\ to \in Status
        /\ order' = [order EXCEPT ![o].state = to] /\ customer' = customer /\ Finish(c)
    BY <1>0, <1>10 DEF CommitStatus, At, InHand
  <2> HIDE DEF o, to
  <2>2. order' \in [Orders -> [state : DOMAIN Allowed, of : CustomerIds \cup {Nobody}]]
    BY <1>0, <2>1 DEF Typed, Status
  <2>3. order'[o].state = to /\ order'[o].of = order[o].of /\ order'[o] # NoOrder
    BY <1>0, <2>1 DEF Typed, Status, NoOrder
  <2>4. \A p \in Orders \ {o} : order'[p] = order[p]
    BY <1>0, <2>1 DEF Typed
  <2>5. \A p \in Orders : Belongs(p)'
    BY <1>0, <2>1, <2>3, <2>4 DEF Belongs, Exists
  <2> QED
    BY <1>0, <1>f, <2>1, <2>2, <2>3, <2>4, <2>5 DEF IInv, Typed, InHand
<1>11. ASSUME NEW c \in Clients, CheckConflict(c) \/ CountOrders(c) \/ ReadingStep(c) \/ Fail(c)
       PROVE  IInv'
  BY <1>5, <1>11, <1>g
  DEF CheckConflict, CountOrders, ReadingStep, StartReading, StopReading, Fail, At
<1>12. CASE UNCHANGED vars
  BY <1>0, <1>12 DEF vars, IInv, Typed, Belongs, InHand, Exists
<1> QED
  BY <1>1, <1>2, <1>3, <1>4, <1>6, <1>7, <1>8, <1>9, <1>10, <1>11, <1>12
  DEF Next, CustomerStep, OrderStep

LEMMA InvHolds == Spec => []IInv
BY InitInv, StepInv, PTL DEF Spec

(* The tables and the requests hold the values the code writes, always.    *)
THEOREM TypesHold == Spec => []TypeOK
<1>1. IInv => TypeOK
  BY DEF IInv, Typed, HeldRequest, Change, TypeOK
<1> QED
  BY <1>1, InvHolds, PTL

(* No order ever loses its customer, whatever remove and create overlap    *)
(* with: the foreign key decides when the row is deleted or inserted.      *)
THEOREM EveryOrderKeepsItsCustomer == Spec => []EveryOrderHasItsCustomer
<1>1. IInv => EveryOrderHasItsCustomer
  BY DEF IInv, Belongs, EveryOrderHasItsCustomer
<1> QED
  BY <1>1, InvHolds, PTL

------------------------------------------------------------------------------

(* The customers that have a phone or may still be given it: those that a  *)
(* request has found free to take it are counted with those who have it.   *)
Claiming(phone) ==
  {c \in Clients : req[c].pc \in {"phoneFree", "phoneFreeForUpdate"} /\ req[c].phone = phone}
Holders(phone) ==
  {k \in CustomerIds : customer[k] = phone} \cup {req[c].on : c \in Claiming(phone)}
HoldersBounded(phone) ==
  IsFiniteSet(Holders(phone)) /\ Cardinality(Holders(phone)) <= Cardinality(Clients)

(* A set of customers the requests are about is no larger than the set of  *)
(* clients, and neither is one that has shrunk.                            *)
LEMMA OnePerClient ==
  ASSUME NEW f, NEW S, S \subseteq {f[c] : c \in Clients}
  PROVE  IsFiniteSet(S) /\ Cardinality(S) <= Cardinality(Clients)
<1> DEFINE T == {f[c] : c \in Clients}
           g == [c \in Clients |-> f[c]]
<1>1. g \in Surjection(Clients, T)
  BY DEF Surjection
<1> HIDE DEF g
<1>2. IsFiniteSet(T) /\ Cardinality(T) <= Cardinality(Clients)
  BY <1>1, ClientsAssumption, FS_Surjection
<1>3. IsFiniteSet(S) /\ Cardinality(S) <= Cardinality(T)
  BY <1>2, FS_Subset
<1> QED
  BY <1>2, <1>3, ClientsAssumption, FS_CardinalityType

LEMMA StillBounded ==
  ASSUME NEW S, NEW T, IsFiniteSet(S), Cardinality(S) <= Cardinality(Clients), T \subseteq S
  PROVE  IsFiniteSet(T) /\ Cardinality(T) <= Cardinality(Clients)
BY ClientsAssumption, FS_Subset, FS_CardinalityType

LEMMA InitHolders == Init => \A phone \in Phones : HoldersBounded(phone)
<1> SUFFICES ASSUME Init, NEW phone \in Phones PROVE HoldersBounded(phone)
  OBVIOUS
<1>1. Holders(phone) = {}
  BY NobodyAssumption DEF Init, Holders, Claiming, IdleRequest
<1> QED
  BY <1>1, OnePerClient DEF HoldersBounded

(* A check that finds the phone free starts the count anew; whoever writes *)
(* it was counted before.                                                  *)
LEMMA HoldersStep ==
  ASSUME IInv, NEW phone \in Phones, HoldersBounded(phone), [Next]_vars
  PROVE  HoldersBounded(phone)'
<1>0. Typed /\ \A c \in Clients : InHand(c)
  BY DEF IInv
<1>1. ASSUME Holders(phone)' \subseteq Holders(phone) PROVE HoldersBounded(phone)'
  BY <1>1, StillBounded DEF HoldersBounded
<1>2. ASSUME Holders(phone)' \subseteq {req'[c].on : c \in Clients} PROVE HoldersBounded(phone)'
  <2> DEFINE f == [c \in Clients |-> req'[c].on]
  <2>1. Holders(phone)' \subseteq {f[c] : c \in Clients}
    BY <1>2
  <2> HIDE DEF f
  <2> QED
    BY <2>1, OnePerClient DEF HoldersBounded
<1>3. ASSUME NEW c \in Clients, \A d \in Clients \ {c} : req'[d] = req[d],
             req'[c].pc \notin {"phoneFree", "phoneFreeForUpdate"} \/ req'[c].phone # phone,
             \A k \in CustomerIds : customer'[k] = phone => k \in Holders(phone)
      PROVE  HoldersBounded(phone)'
  <2>1. Claiming(phone)' \subseteq Claiming(phone) \ {c}
    BY <1>3 DEF Claiming
  <2>2. \A d \in Claiming(phone)' : req'[d].on = req[d].on
    BY <1>3, <2>1 DEF Claiming
  <2> QED
    BY <1>1, <1>3, <2>1, <2>2 DEF Holders
<1>4. \A k \in CustomerIds : customer[k] = phone => k \in Holders(phone)
  BY DEF Holders
<1>5. ASSUME NEW c \in Clients, Finish(c)
      PROVE  req'[c].pc = "idle" /\ \A d \in Clients \ {c} : req'[d] = req[d]
  BY <1>0, <1>5, IdleIsRequest DEF Finish, Typed
<1>6. ASSUME NEW c \in Clients, CheckPhone(c) PROVE HoldersBounded(phone)'
  <2>1. PICK k \in CustomerIds, p \in Phones :
          /\ ~Exists(k) /\ ~PhoneTaken(p, k)
          /\ req' = [req EXCEPT ![c] = [IdleRequest EXCEPT !.pc = "phoneFree", !.on = k, !.phone = p]]
    BY <1>6 DEF CheckPhone
  <2>2. (\A d \in Clients \ {c} : req'[d] = req[d]) /\ customer' = customer
    BY <1>0, <1>6, <2>1 DEF CheckPhone, Typed, tables
  <2>3. req'[c].phone = p
    BY <1>0, <2>1 DEF Typed, IdleRequest
  <2>4. CASE p # phone
    BY <1>3, <1>4, <2>2, <2>3, <2>4
  <2>5. CASE p = phone
    <3>1. \A l \in CustomerIds : customer'[l] # phone
      BY <2>1, <2>2, <2>5, NobodyAssumption DEF Exists, PhoneTaken
    <3> QED
      BY <1>2, <3>1 DEF Holders, Claiming
  <2> QED
    BY <2>4, <2>5
<1>7. ASSUME NEW c \in Clients, CheckConflict(c) PROVE HoldersBounded(phone)'
  <2>1. customer' = customer /\ req[c].pc = "found"
    BY <1>7 DEF CheckConflict, At, tables
  <2>2. CASE Finish(c)
    BY <1>3, <1>4, <1>5, <2>1, <2>2
  <2>3. CASE ~PhoneTaken(req[c].phone, req[c].on) /\ req' = [req EXCEPT ![c].pc = "phoneFreeForUpdate"]
    <3>1. /\ \A d \in Clients \ {c} : req'[d] = req[d]
          /\ req'[c].on = req[c].on /\ req'[c].phone = req[c].phone
      BY <1>0, <2>3 DEF Typed, HeldRequest
    <3>2. CASE req[c].phone # phone
      BY <1>3, <1>4, <2>1, <3>1, <3>2
    <3>3. CASE req[c].phone = phone
      <4>1. \A l \in CustomerIds : customer'[l] = phone => l = req'[c].on
        BY <2>1, <2>3, <3>1, <3>3 DEF PhoneTaken
      <4> QED
        BY <1>2, <4>1 DEF Holders, Claiming
    <3> QED
      BY <3>2, <3>3
  <2> QED
    BY <1>7, <2>2, <2>3 DEF CheckConflict
<1>8. ASSUME NEW c \in Clients, InsertCustomer(c) \/ UpdateCustomer(c) PROVE HoldersBounded(phone)'
  <2>1. /\ req[c].pc \in {"phoneFree", "phoneFreeForUpdate"} /\ Finish(c)
        /\ \A k \in CustomerIds : customer'[k] = customer[k] \/ (k = req[c].on /\ customer'[k] = req[c].phone)
    BY <1>0, <1>8 DEF InsertCustomer, UpdateCustomer, At, Typed
  <2>2. \A k \in CustomerIds : customer'[k] = phone => k \in Holders(phone)
    BY <1>4, <2>1 DEF Holders, Claiming
  <2> QED
    BY <1>3, <1>5, <2>1, <2>2
<1>9. ASSUME NEW c \in Clients, DeleteCustomer(c) PROVE HoldersBounded(phone)'
  <2>1. /\ Finish(c)
        /\ customer' = [customer EXCEPT ![req[c].on] = IF OrdersOf(req[c].on) = {} THEN Nobody ELSE @]
    BY <1>9 DEF DeleteCustomer
  <2>2. \A k \in CustomerIds : customer'[k] = phone => customer[k] = phone
    BY <1>0, <2>1, NobodyAssumption DEF Typed
  <2> QED
    BY <1>3, <1>4, <1>5, <2>1, <2>2
<1>10. ASSUME NEW c \in Clients, customer' = customer, \A d \in Clients \ {c} : req'[d] = req[d],
              req'[c].pc \notin {"phoneFree", "phoneFreeForUpdate"}
       PROVE  HoldersBounded(phone)'
  BY <1>3, <1>4, <1>10
<1>11. ASSUME NEW c \in Clients,
              \/ FindForUpdate(c) \/ FindForRemove(c) \/ CountOrders(c) \/ OrderStep(c)
              \/ ReadingStep(c) \/ Fail(c)
       PROVE  HoldersBounded(phone)'
  <2>1. customer' = customer
    BY <1>11
    DEF FindForUpdate, FindForRemove, CountOrders, OrderStep, CheckCustomer, InsertOrder, CheckStatus,
        CommitStatus, ReadingStep, StartReading, StopReading, Fail, tables
  <2>2. ASSUME Finish(c) PROVE HoldersBounded(phone)'
    BY <1>5, <1>10, <2>1, <2>2
  <2>3. ASSUME NEW q, req' = [req EXCEPT ![c] = q], q.pc \notin {"phoneFree", "phoneFreeForUpdate"}
        PROVE  HoldersBounded(phone)'
    <3>1. req'[c] = q /\ \A d \in Clients \ {c} : req'[d] = req[d]
      BY <1>0, <2>3 DEF Typed
    <3> QED
      BY <1>10, <2>1, <2>3, <3>1
  <2>4. ASSUME NEW l \in {"counted", "reading"}, req' = [req EXCEPT ![c].pc = l]
        PROVE  HoldersBounded(phone)'
    <3>1. req'[c].pc = l /\ \A d \in Clients \ {c} : req'[d] = req[d]
      BY <1>0, <2>4 DEF Typed, HeldRequest
    <3> QED
      BY <1>10, <2>1, <3>1
  <2>5. CASE FindForUpdate(c)
    <3>1. PICK k \in CustomerIds, p \in Phones :
            req' = [req EXCEPT ![c] = [IdleRequest EXCEPT !.pc = "found", !.on = k, !.phone = p]]
      BY <2>5 DEF FindForUpdate
    <3>2. [IdleRequest EXCEPT !.pc = "found", !.on = k, !.phone = p].pc = "found"
      BY DEF IdleRequest
    <3> QED
      BY <2>3, <3>1, <3>2
  <2>6. CASE FindForRemove(c) \/ CheckCustomer(c)
    <3>1. PICK k \in CustomerIds, l \in {"removing", "customerChecked"} :
            req' = [req EXCEPT ![c] = [IdleRequest EXCEPT !.pc = l, !.on = k]]
      BY <2>6 DEF FindForRemove, CheckCustomer
    <3>2. [IdleRequest EXCEPT !.pc = l, !.on = k].pc = l
      BY DEF IdleRequest
    <3> QED
      BY <2>3, <3>1, <3>2
  <2>7. CASE CheckStatus(c)
    <3>1. PICK o \in Orders : \E to \in Allowed[order[o].state] :
            req' = [req EXCEPT ![c] = [IdleRequest EXCEPT !.pc = "statusChecked",
                                                          !.change = [of |-> o, to |-> to]]]
      BY <2>7 DEF CheckStatus
    <3>2. PICK to \in Allowed[order[o].state] :
            req' = [req EXCEPT ![c] = [IdleRequest EXCEPT !.pc = "statusChecked",
                                                          !.change = [of |-> o, to |-> to]]]
      BY <3>1
    <3>3. [IdleRequest EXCEPT !.pc = "statusChecked", !.change = [of |-> o, to |-> to]].pc
            = "statusChecked"
      BY DEF IdleRequest
    <3> QED
      BY <2>3, <3>2, <3>3
  <2>8. CASE CountOrders(c) \/ ReadingStep(c) \/ InsertOrder(c) \/ CommitStatus(c) \/ Fail(c)
    BY <2>2, <2>4, <2>8
    DEF CountOrders, ReadingStep, StartReading, StopReading, InsertOrder, CommitStatus, Fail
  <2> QED
    BY <1>11, <2>5, <2>6, <2>7, <2>8 DEF OrderStep
<1>12. CASE UNCHANGED vars
  BY <1>1, <1>12 DEF vars, Holders, Claiming
<1> QED
  BY <1>6, <1>7, <1>8, <1>9, <1>11, <1>12 DEF Next, CustomerStep

(* Duplicates of a phone come from overlapping checks only, and there are  *)
(* never more of them than clients, for any number of customers.           *)
THEOREM DuplicatesAreBounded == Spec => []DuplicatesBoundedByClients
<1> DEFINE Bounded == \A phone \in Phones : HoldersBounded(phone)
<1>1. IInv /\ Bounded /\ [Next]_vars => Bounded'
  BY HoldersStep
<1>2. Bounded => DuplicatesBoundedByClients
  <2> SUFFICES ASSUME Bounded, NEW phone \in Phones
               PROVE  Cardinality({k \in CustomerIds : customer[k] = phone}) <= Cardinality(Clients)
    BY DEF DuplicatesBoundedByClients
  <2>1. {k \in CustomerIds : customer[k] = phone} \subseteq Holders(phone)
    BY DEF Holders
  <2> QED
    BY <2>1, StillBounded DEF HoldersBounded
<1>3. Init => Bounded
  BY InitHolders
<1> HIDE DEF Bounded
<1> QED
  BY <1>1, <1>2, <1>3, InvHolds, PTL DEF Spec

------------------------------------------------------------------------------
(* The readers.  The desk only adds to Customers: what is proved of Spec   *)
(* holds of DeskSpec too.                                                  *)

LEMMA DeskStep == [DeskNext]_deskVars => [Next]_vars
BY DEF DeskNext, WriteStep, ReadStep, StartWalk, FindMany, Count, NextPage, EndWalk, StartAlone, Stop,
       getRevenueSummary, getRepairStats, EndReport, ReadFirst, ReadSecond, InsertFirst, DeleteFromList,
       InsertOnBoard, ChangeOnBoard, UpdateUrgency, Elsewhere, Next, CustomerStep, OrderStep, ReadingStep,
       deskVars

(* The readers change nothing of what Customers does.                      *)
THEOREM DeskImplementsCustomers == DeskSpec => Spec
BY DeskStep, PTL DEF DeskSpec, DeskInit, Spec

LEMMA DeskInv == DeskSpec => []IInv
BY DeskImplementsCustomers, InvHolds, PTL

(* Where the rows of a list are after an insertion or a removal.           *)
LEMMA Inserted ==
  ASSUME NEW S, NEW s \in Seq(S), NEW i \in 1..Len(s) + 1, NEW e \in S
  PROVE  /\ InsertAt(s, i, e) \in Seq(S)
         /\ \A j \in DOMAIN s : \E k \in DOMAIN InsertAt(s, i, e) : k >= j /\ InsertAt(s, i, e)[k] = s[j]
<1> DEFINE a == SubSeq(s, 1, i - 1)
           b == SubSeq(s, i, Len(s))
           ae == a \o <<e>>
           r == ae \o b
<1>1. DOMAIN s = 1..Len(s) /\ Len(s) \in Nat /\ \A j \in 1..Len(s) : s[j] \in S
  OBVIOUS
<1>2. a \in Seq(S) /\ Len(a) = i - 1 /\ \A j \in 1..(i - 1) : a[j] = s[j]
  BY <1>1, SubSeqProperties
<1>3. b \in Seq(S) /\ Len(b) = Len(s) - i + 1 /\ \A j \in 1..(Len(s) - i + 1) : b[j] = s[i + j - 1]
  BY <1>1, SubSeqProperties
<1>4. <<e>> \in Seq(S) /\ Len(<<e>>) = 1
  OBVIOUS
<1> HIDE DEF a, b
<1>5. ae \in Seq(S) /\ Len(ae) = i /\ \A j \in 1..(i - 1) : ae[j] = a[j]
  BY <1>2, <1>4, ConcatProperties
<1> HIDE DEF ae
<1>6. /\ r \in Seq(S) /\ Len(r) = Len(s) + 1
      /\ \A j \in 1..Len(s) + 1 : r[j] = IF j <= i THEN ae[j] ELSE b[j - i]
  BY <1>3, <1>5, ConcatProperties
<1>7. r = InsertAt(s, i, e)
  BY DEF r, ae, a, b, InsertAt
<1> HIDE DEF r
<1>8. ASSUME NEW j \in DOMAIN s PROVE \E k \in DOMAIN r : k >= j /\ r[k] = s[j]
  <2>1. CASE j < i
    <3>1. j \in DOMAIN r /\ j <= i /\ j \in 1..(i - 1)
      BY <1>1, <1>6, <2>1
    <3>2. r[j] = s[j]
      BY <1>2, <1>5, <1>6, <3>1
    <3> QED
      BY <3>1, <3>2
  <2>2. CASE j >= i
    <3>1. j + 1 \in DOMAIN r /\ ~(j + 1 <= i) /\ j + 1 - i \in 1..(Len(s) - i + 1) /\ j + 1 \in 1..Len(s) + 1
      BY <1>1, <1>6, <2>2
    <3>2. r[j + 1] = b[j + 1 - i]
      BY <1>6, <3>1
    <3>3. b[j + 1 - i] = s[j]
      BY <1>1, <1>3, <3>1
    <3> QED
      BY <1>1, <3>1, <3>2, <3>3
  <2> QED
    BY <1>1, <2>1, <2>2
<1> QED
  BY <1>6, <1>7, <1>8

LEMMA Removed ==
  ASSUME NEW S, NEW s \in Seq(S), NEW i \in DOMAIN s
  PROVE  RemoveAt(s, i) \in Seq(S) /\ Len(RemoveAt(s, i)) = Len(s) - 1
<1> DEFINE a == SubSeq(s, 1, i - 1)
           b == SubSeq(s, i + 1, Len(s))
<1>1. DOMAIN s = 1..Len(s) /\ Len(s) \in Nat /\ \A j \in 1..Len(s) : s[j] \in S
  OBVIOUS
<1>2. a \in Seq(S) /\ Len(a) = i - 1
  BY <1>1, SubSeqProperties
<1>3. b \in Seq(S) /\ Len(b) = Len(s) - i
  BY <1>1, SubSeqProperties
<1>4. RemoveAt(s, i) = a \o b
  BY DEF RemoveAt
<1> HIDE DEF a, b
<1>5. a \o b \in Seq(S) /\ Len(a \o b) = Len(a) + Len(b)
  BY <1>2, <1>3, ConcatProperties
<1> QED
  BY <1>1, <1>2, <1>3, <1>4, <1>5

LEMMA Pages ==
  ASSUME NEW page \in Nat \ {0}
  PROVE  skip(page) \in Nat /\ skip(page) + Limit = page * Limit /\ skip(page + 1) = page * Limit
BY LimitAssumption DEF skip

------------------------------------------------------------------------------

Items == CustomerIds \cup Orders
Statements == {"findMany", "count"}
Walk == [list : {"none", "customers", "orders"}, page : Nat \ {0}, statements : SUBSET Statements,
         total : Nat, unseen : SUBSET Items, moved : BOOLEAN, late : BOOLEAN]

(* A walk w over the rows: what it has not seen lies behind the pages it   *)
(* has read, and the number of rows it was told reaches that far, unless   *)
(* it is excused.                                                          *)
Passed(w) == IF "findMany" \in w.statements THEN skip(w.page) ELSE w.page * Limit
Ahead(w, rows) == \A u \in w.unseen : \E j \in DOMAIN rows : j > Passed(w) /\ rows[j] = u
Announced(w, rows) ==
  "count" \notin w.statements =>
    IF "findMany" \in w.statements THEN w.total = Len(rows) ELSE w.unseen # {} => w.total > Passed(w)
Sound(w, rows) ==
  /\ w.moved \/ Ahead(w, rows)
  /\ w.moved \/ w.late \/ Announced(w, rows)

ListsTyped == newest \in Seq(Items) /\ board \in Seq(Items) /\ walk \in Walk
WalkInv == ListsTyped /\ Sound(walk, Rows(walk.list))

(* Rows that only move away from the front, while a row is inserted, are   *)
(* still ahead of the walk.                                                *)
LEMMA StillSound ==
  ASSUME NEW w \in Walk, NEW rows \in Seq(Items), NEW more \in Seq(Items), Sound(w, rows),
         \A j \in DOMAIN rows : \E k \in DOMAIN more : k >= j /\ more[k] = rows[j],
         NEW v \in Walk, v.page = w.page, v.statements = w.statements, v.total = w.total,
         v.unseen = w.unseen, v.moved = w.moved,
         v.late <=> w.late \/ w.statements = {"findMany"}
  PROVE  Sound(v, more)
<1>1. w.page \in Nat \ {0} /\ w.page * Limit \in Nat
  BY LimitAssumption DEF Walk
<1>2. Passed(v) = Passed(w) /\ Passed(w) \in Nat
  BY <1>1, Pages DEF Passed
<1>3. ASSUME Ahead(w, rows) PROVE Ahead(v, more)
  <2> SUFFICES ASSUME NEW u \in v.unseen PROVE \E k \in DOMAIN more : k > Passed(v) /\ more[k] = u
    BY DEF Ahead
  <2>1. PICK j \in DOMAIN rows : j > Passed(w) /\ rows[j] = u
    BY <1>3 DEF Ahead
  <2>2. PICK k \in DOMAIN more : k >= j /\ more[k] = rows[j]
    OBVIOUS
  <2> QED
    BY <1>2, <2>1, <2>2
<1>4. ASSUME ~v.late, Announced(w, rows) PROVE Announced(v, more)
  BY <1>2, <1>4 DEF Announced, Walk, Statements
<1> QED
  BY <1>3, <1>4 DEF Sound

LEMMA LateWalk ==
  ASSUME NEW w \in Walk, NEW v, v = [w EXCEPT !.late = w.late \/ w.statements = {"findMany"}]
  PROVE  /\ v \in Walk /\ v.list = w.list /\ v.page = w.page /\ v.statements = w.statements
         /\ v.total = w.total /\ v.unseen = w.unseen /\ v.moved = w.moved
         /\ v.late <=> w.late \/ w.statements = {"findMany"}
BY DEF Walk

LEMMA WalkInit == DeskInit => WalkInv
BY LimitAssumption, EmptySeq
DEF DeskInit, NoWalk, WalkInv, ListsTyped, Walk, Items, Statements, Sound, Ahead, Announced

(* The requests: an insertion after the count excuses the walk, a deletion *)
(* and another urgency excuse it for good.                                 *)
LEMMA WriteKeepsWalk == ASSUME IInv, WalkInv, WriteStep PROVE WalkInv'
<1>0. /\ Typed /\ \A c \in Clients : InHand(c)
      /\ ListsTyped /\ Sound(walk, Rows(walk.list))
  BY DEF IInv, WalkInv
<1>1. ASSUME NEW c \in Clients, InsertFirst(c) PROVE WalkInv'
  <2>1. /\ newest' = <<req[c].on>> \o newest /\ board' = board
        /\ walk' = [walk EXCEPT !.late = @ \/ (walk.list = "customers" /\ Overtaken)]
    BY <1>1 DEF InsertFirst
  <2>2. newest \in Seq(Items) /\ req[c].on \in Items
    BY <1>0, <1>1 DEF ListsTyped, InsertFirst, InsertCustomer, At, InHand, Items
  <2>3. <<req[c].on>> \in Seq(Items) /\ Len(<<req[c].on>>) = 1 /\ Len(newest) \in Nat
    BY <2>2
  <2>4. /\ newest' \in Seq(Items) /\ Len(newest') = Len(newest) + 1
        /\ \A j \in 1..Len(newest) + 1 :
             newest'[j] = IF j <= 1 THEN <<req[c].on>>[j] ELSE newest[j - 1]
    BY <2>1, <2>2, <2>3, ConcatProperties
  <2>5. \A j \in DOMAIN newest : \E k \in DOMAIN newest' : k >= j /\ newest'[k] = newest[j]
    <3> SUFFICES ASSUME NEW j \in DOMAIN newest
                 PROVE  j + 1 \in DOMAIN newest' /\ j + 1 >= j /\ newest'[j + 1] = newest[j]
      OBVIOUS
    <3> QED
      BY <2>2, <2>3, <2>4
  <2>6. CASE walk.list = "customers"
    <3>1. walk' = [walk EXCEPT !.late = walk.late \/ walk.statements = {"findMany"}]
      BY <1>0, <2>1, <2>6 DEF ListsTyped, Walk, Overtaken
    <3>2. walk \in Walk /\ Sound(walk, newest)
      BY <1>0, <2>6 DEF ListsTyped, Rows
    <3>3. walk' \in Walk /\ walk'.list = walk.list /\ Sound(walk', newest')
      BY <2>2, <2>4, <2>5, <3>1, <3>2, LateWalk, StillSound
    <3> QED
      BY <1>0, <2>1, <2>4, <2>6, <3>3 DEF WalkInv, ListsTyped, Rows
  <2>7. CASE walk.list # "customers"
    <3>1. walk' = walk
      BY <1>0, <2>1, <2>7 DEF ListsTyped, Walk
    <3> QED
      BY <1>0, <2>1, <2>4, <2>7, <3>1 DEF WalkInv, ListsTyped, Rows
  <2> QED
    BY <2>6, <2>7
<1>2. ASSUME NEW c \in Clients, DeleteFromList(c) PROVE WalkInv'
  <2>1. CASE UNCHANGED <<newest, walk>>
    BY <1>0, <1>2, <2>1 DEF DeleteFromList, WalkInv, ListsTyped, Rows
  <2>2. ASSUME NEW i \in DOMAIN newest, newest' = RemoveAt(newest, i),
               walk' = IF walk.list # "customers" THEN walk ELSE
                         [walk EXCEPT !.unseen = @ \ {req[c].on}, !.moved = TRUE]
        PROVE  WalkInv'
    <3>1. newest' \in Seq(Items) /\ board' = board
      BY <1>0, <1>2, <2>2, Removed DEF ListsTyped, DeleteFromList
    <3>2. CASE walk.list # "customers"
      BY <1>0, <2>2, <3>1, <3>2 DEF WalkInv, ListsTyped, Rows
    <3>3. CASE walk.list = "customers"
      BY <1>0, <2>2, <3>1, <3>3 DEF WalkInv, ListsTyped, Walk, Sound
    <3> QED
      BY <3>2, <3>3
  <2> QED
    BY <1>2, <2>1, <2>2 DEF DeleteFromList
<1>3. ASSUME NEW c \in Clients, InsertOnBoard(c) PROVE WalkInv'
  <2>1. PICK o \in Orders, i \in 1..Len(board) + 1 : board' = InsertAt(board, i, o)
    BY <1>3 DEF InsertOnBoard
  <2>2. /\ newest' = newest
        /\ walk' = [walk EXCEPT !.late = @ \/ (walk.list = "orders" /\ Overtaken)]
    BY <1>3 DEF InsertOnBoard
  <2>3. board \in Seq(Items) /\ o \in Items
    BY <1>0 DEF ListsTyped, Items
  <2>4. /\ board' \in Seq(Items)
        /\ \A j \in DOMAIN board : \E k \in DOMAIN board' : k >= j /\ board'[k] = board[j]
    BY <2>1, <2>3, Inserted
  <2>5. CASE walk.list = "orders"
    <3>1. walk' = [walk EXCEPT !.late = walk.late \/ walk.statements = {"findMany"}]
      BY <1>0, <2>2, <2>5 DEF ListsTyped, Walk, Overtaken
    <3> QED
      BY <1>0, <2>2, <2>3, <2>4, <2>5, <3>1, LateWalk, StillSound DEF WalkInv, ListsTyped, Rows
  <2>6. CASE walk.list # "orders"
    <3>1. walk' = walk
      BY <1>0, <2>2, <2>6 DEF ListsTyped, Walk
    <3> QED
      BY <1>0, <2>2, <2>4, <2>6, <3>1 DEF WalkInv, ListsTyped, Rows
  <2> QED
    BY <2>5, <2>6
<1>4. ASSUME UpdateUrgency PROVE WalkInv'
  <2>1. PICK i, j \in 1..Len(board) : i # j /\ board' = InsertAt(RemoveAt(board, i), j, board[i])
    BY <1>4 DEF UpdateUrgency
  <2>2. board \in Seq(Items) /\ DOMAIN board = 1..Len(board) /\ board[i] \in Items
    BY <1>0 DEF ListsTyped
  <2>3. RemoveAt(board, i) \in Seq(Items) /\ j \in 1..Len(RemoveAt(board, i)) + 1
    BY <2>2, Removed
  <2>4. board' \in Seq(Items) /\ newest' = newest
    BY <1>4, <2>1, <2>2, <2>3, Inserted DEF UpdateUrgency
  <2>5. walk' = [walk EXCEPT !.moved = @ \/ walk.list = "orders"]
    BY <1>4 DEF UpdateUrgency
  <2>6. CASE walk.list = "orders"
    BY <1>0, <2>4, <2>5, <2>6 DEF WalkInv, ListsTyped, Walk, Sound
  <2>7. CASE walk.list # "orders"
    <3>1. walk' = walk
      BY <1>0, <2>5, <2>7 DEF ListsTyped, Walk
    <3> QED
      BY <1>0, <2>4, <2>7, <3>1 DEF WalkInv, ListsTyped, Rows
  <2> QED
    BY <2>6, <2>7
<1>5. ASSUME NEW c \in Clients, ChangeOnBoard(c) \/ Elsewhere(c) PROVE WalkInv'
  BY <1>0, <1>5 DEF ChangeOnBoard, Elsewhere, lists, reads, WalkInv, ListsTyped, Rows
<1> QED
  BY <1>1, <1>2, <1>3, <1>4, <1>5 DEF WriteStep

(* The reader: a request reads the page after those that were passed.      *)
LEMMA ReadKeepsWalk == ASSUME IInv, WalkInv, ReadStep PROVE WalkInv'
<1>0. ListsTyped /\ Sound(walk, Rows(walk.list)) /\ Rows(walk.list) \in Seq(Items)
  BY EmptySeq DEF WalkInv, ListsTyped, Rows
<1>w. walk \in Walk /\ walk.page \in Nat \ {0}
  BY <1>0 DEF ListsTyped, Walk
<1>p. /\ skip(walk.page) \in Nat /\ skip(walk.page) + Limit = walk.page * Limit
      /\ skip(walk.page + 1) = walk.page * Limit /\ walk.page * Limit \in Nat /\ skip(1) = 0
  BY <1>w, Pages, LimitAssumption DEF skip
<1>r. ASSUME NEW page \in Nat \ {0}
      PROVE  /\ Request(page) \in Walk /\ Request(page).list = walk.list /\ Request(page).page = page
             /\ Request(page).statements = Statements /\ Request(page).unseen = walk.unseen
             /\ Request(page).moved = walk.moved
  BY <1>w DEF Request, Walk, Statements
<1>1. ASSUME StartWalk PROVE WalkInv'
  <2>1. PICK list \in {"customers", "orders"} :
          walk' = [Request(1) EXCEPT !.list = list, !.unseen = ToSet(Rows(list))]
    BY <1>1 DEF StartWalk
  <2>2. newest' = newest /\ board' = board /\ Rows(list) \in Seq(Items)
    BY <1>0, <1>1 DEF StartWalk, lists, ListsTyped, Rows
  <2> DEFINE there == ToSet(Rows(list))
  <2>3. there \in SUBSET Items
    BY <2>2 DEF ToSet
  <2> HIDE DEF there
  <2>4. /\ walk' \in Walk /\ walk'.list = list /\ walk'.page = 1 /\ walk'.statements = Statements
        /\ walk'.unseen = there
    <3> DEFINE q == Request(1)
    <3>1. walk' = [q EXCEPT !.list = list, !.unseen = there]
      BY <2>1 DEF there
    <3>2. q \in Walk /\ q.page = 1 /\ q.statements = Statements
      BY <1>r
    <3> HIDE DEF q
    <3> QED
      BY <2>3, <3>1, <3>2 DEF Walk
  <2>5. Ahead(walk', Rows(list))
    BY <1>p, <2>2, <2>4 DEF Ahead, Passed, ToSet, Statements, there
  <2>6. Announced(walk', Rows(list))
    BY <2>4 DEF Announced, Statements
  <2>7. Rows(walk.list)' = Rows(list)
    BY <2>2, <2>4 DEF Rows
  <2> QED
    BY <1>0, <2>2, <2>4, <2>5, <2>6, <2>7 DEF WalkInv, ListsTyped, Sound
<1>2. ASSUME FindMany PROVE WalkInv'
  <2> DEFINE rows == Rows(walk.list)
             data == {rows[i] : i \in DOMAIN rows \cap (skip(walk.page) + 1)..(skip(walk.page) + Limit)}
  <2>1. /\ "findMany" \in walk.statements /\ UNCHANGED lists
        /\ walk' = [walk EXCEPT !.statements = @ \ {"findMany"}, !.unseen = @ \ data]
    BY <1>2 DEF FindMany
  <2>2. /\ walk' \in Walk /\ walk'.list = walk.list /\ walk'.page = walk.page /\ walk'.total = walk.total
        /\ walk'.statements = walk.statements \ {"findMany"} /\ walk'.unseen = walk.unseen \ data
        /\ walk'.moved = walk.moved /\ walk'.late = walk.late
    BY <1>w, <2>1 DEF Walk
  <2>3. Passed(walk') = walk.page * Limit /\ Passed(walk) = skip(walk.page)
    BY <2>1, <2>2 DEF Passed
  <2>4. ASSUME Ahead(walk, rows) PROVE Ahead(walk', rows)
    <3> SUFFICES ASSUME NEW u \in walk'.unseen PROVE \E j \in DOMAIN rows : j > Passed(walk') /\ rows[j] = u
      BY DEF Ahead
    <3>1. u \in walk.unseen /\ u \notin data
      BY <2>2
    <3>2. PICK j \in DOMAIN rows : j > Passed(walk) /\ rows[j] = u
      BY <2>4, <3>1 DEF Ahead
    <3>3. j \in Nat /\ ~(j \in (skip(walk.page) + 1)..(skip(walk.page) + Limit))
      BY <1>0, <3>1, <3>2
    <3> QED
      BY <1>p, <2>3, <3>2, <3>3, LimitAssumption
  <2>5. ASSUME Ahead(walk', rows), Announced(walk, rows) PROVE Announced(walk', rows)
    <3> SUFFICES ASSUME "count" \notin walk'.statements, walk'.unseen # {}
                 PROVE  walk'.total > Passed(walk')
      BY <2>2 DEF Announced
    <3>1. PICK u \in walk'.unseen, j \in DOMAIN rows : j > Passed(walk')
      BY <2>5 DEF Ahead
    <3>2. walk'.total = Len(rows)
      BY <2>1, <2>2, <2>5 DEF Announced
    <3>3. DOMAIN rows = 1..Len(rows) /\ Len(rows) \in Nat
      BY <1>0
    <3> QED
      BY <1>p, <2>3, <3>1, <3>2, <3>3
  <2>6. Rows(walk.list)' = rows
    BY <2>1, <2>2 DEF Rows, lists
  <2> HIDE DEF rows, data
  <2> QED
    BY <1>0, <2>1, <2>2, <2>4, <2>5, <2>6 DEF WalkInv, ListsTyped, Sound, lists, rows
<1>3. ASSUME Count PROVE WalkInv'
  <2> DEFINE rows == Rows(walk.list)
  <2>1. /\ "count" \in walk.statements /\ UNCHANGED lists
        /\ walk' = [walk EXCEPT !.statements = @ \ {"count"}, !.total = Len(Rows(walk.list))]
    BY <1>3 DEF Count
  <2>2. DOMAIN rows = 1..Len(rows) /\ Len(rows) \in Nat
    BY <1>0
  <2>3. /\ walk' \in Walk /\ walk'.list = walk.list /\ walk'.page = walk.page /\ walk'.total = Len(rows)
        /\ walk'.statements = walk.statements \ {"count"} /\ walk'.unseen = walk.unseen
        /\ walk'.moved = walk.moved
    BY <1>w, <2>1, <2>2 DEF Walk
  <2>4. Passed(walk') = Passed(walk) /\ Passed(walk) \in Nat
    BY <1>p, <2>3 DEF Passed
  <2>5. Ahead(walk, rows) => Ahead(walk', rows)
    BY <2>3, <2>4 DEF Ahead
  <2>6. Ahead(walk', rows) => Announced(walk', rows)
    BY <2>2, <2>3, <2>4 DEF Ahead, Announced
  <2>7. Rows(walk.list)' = rows
    BY <2>1, <2>3 DEF Rows, lists
  <2> HIDE DEF rows
  <2> QED
    BY <1>0, <2>1, <2>3, <2>5, <2>6, <2>7 DEF WalkInv, ListsTyped, Sound, lists, rows
<1>4. ASSUME NextPage PROVE WalkInv'
  <2>1. UNCHANGED lists /\ walk' = Request(walk.page + 1) /\ walk.statements = {}
    BY <1>4 DEF NextPage, Answered
  <2>2. /\ walk' \in Walk /\ walk'.list = walk.list /\ walk'.page = walk.page + 1
        /\ walk'.statements = Statements /\ walk'.unseen = walk.unseen /\ walk'.moved = walk.moved
    BY <1>w, <1>r, <2>1
  <2>3. Passed(walk') = Passed(walk)
    BY <1>p, <2>1, <2>2 DEF Passed, Statements
  <2>4. Rows(walk.list)' = Rows(walk.list)
    BY <2>1, <2>2 DEF Rows, lists
  <2> QED
    BY <1>0, <2>1, <2>2, <2>3, <2>4 DEF WalkInv, ListsTyped, Sound, Ahead, Announced, Statements, lists
<1>5. ASSUME EndWalk PROVE WalkInv'
  BY <1>0, <1>5 DEF EndWalk, NoWalk, WalkInv, ListsTyped, Walk, Statements, Sound, Ahead, Announced, lists
<1>6. ASSUME getRevenueSummary \/ getRepairStats \/ EndReport PROVE WalkInv'
  BY <1>0, <1>6 DEF getRevenueSummary, getRepairStats, EndReport, ReadFirst, ReadSecond, lists,
                    WalkInv, ListsTyped, Rows
<1> QED
  BY <1>1, <1>2, <1>3, <1>4, <1>5, <1>6 DEF ReadStep

(* The pages of a list miss nothing but what the races named excuse, for   *)
(* any number of clients, of rows, and of rows of a page.                  *)
THEOREM PagesAreComplete == DeskSpec => []PagesMissNothing
<1>1. WalkInv => PagesMissNothing
  <2> SUFFICES ASSUME WalkInv, Answered, LastPage, ~walk.moved, ~walk.late, walk.unseen # {} PROVE FALSE
    BY DEF PagesMissNothing
  <2>1. walk.total > walk.page * Limit
    BY DEF WalkInv, Sound, Announced, Answered, Passed
  <2>2. walk.total \in Nat /\ walk.page * Limit \in Nat
    BY LimitAssumption DEF WalkInv, ListsTyped, Walk
  <2> QED
    BY <2>1, <2>2 DEF LastPage
<1>2. IInv /\ WalkInv /\ [DeskNext]_deskVars => WalkInv'
  <2>1. UNCHANGED deskVars /\ WalkInv => WalkInv'
    BY DEF deskVars, lists, reads, WalkInv, ListsTyped, Rows
  <2> QED
    BY <2>1, WriteKeepsWalk, ReadKeepsWalk DEF DeskNext
<1> QED
  BY <1>1, <1>2, WalkInit, DeskInv, PTL DEF DeskSpec

------------------------------------------------------------------------------

Report == [of : {"none", "revenue", "stats"}, pc : {"none", "first", "second"}, first : SUBSET Orders,
           second : SUBSET Orders, back : SUBSET Orders, changed : SUBSET Orders]

(* Between its statements a report knows what has been taken back from the *)
(* completed orders it read, and what has come to them.                    *)
Between ==
  report.pc = "first" =>
    /\ report.first \ Completed \subseteq report.back
    /\ Completed \ report.first \subseteq report.changed

ReportInv == report \in Report /\ Between

LEMMA ReportInit == DeskInit => ReportInv
BY DEF DeskInit, NoReport, ReportInv, Report, Between

LEMMA ReportStep ==
  ASSUME IInv, ReportInv, [DeskNext]_deskVars
  PROVE  ReportInv'
<1>0. report \in Report /\ Between /\ Typed /\ (\A c \in Clients : InHand(c)) /\ Completed \subseteq Orders
  BY DEF IInv, ReportInv, Completed, InState
<1>1. ASSUME UNCHANGED <<order, report>> PROVE ReportInv'
  BY <1>0, <1>1 DEF ReportInv, Between, Completed, InState
<1>2. ASSUME NEW c \in Clients, InsertFirst(c) \/ DeleteFromList(c) \/ Elsewhere(c) PROVE ReportInv'
  BY <1>1, <1>2 DEF InsertFirst, DeleteFromList, Elsewhere, InsertCustomer, DeleteCustomer, CheckPhone,
                    FindForUpdate, CheckConflict, UpdateCustomer, FindForRemove, CountOrders,
                    CheckCustomer, CheckStatus, Fail, tables, reads
<1>3. ASSUME UpdateUrgency \/ StartWalk \/ FindMany \/ Count \/ NextPage \/ EndWalk PROVE ReportInv'
  BY <1>1, <1>3 DEF UpdateUrgency, StartWalk, FindMany, Count, NextPage, EndWalk, StartAlone, Stop,
                    StartReading, StopReading, tables, vars
<1>4. ASSUME NEW c \in Clients, InsertOnBoard(c) PROVE ReportInv'
  <2>1. PICK o \in Orders :
          report' = [report EXCEPT !.changed = IF report.pc = "first" THEN @ \cup {o} ELSE @]
    BY <1>4 DEF InsertOnBoard
  <2>2. PICK p \in Orders : /\ order[p] = NoOrder
                            /\ order' = [order EXCEPT ![p] = [state |-> "active", of |-> req[c].on]]
    BY <1>4 DEF InsertOnBoard, InsertOrder
  <2>3. Completed' = Completed
    BY <1>0, <2>2 DEF Completed, InState, Typed, NoOrder
  <2>4. /\ report' \in Report /\ report'.pc = report.pc /\ report'.first = report.first
        /\ report'.back = report.back /\ report.changed \subseteq report'.changed
    BY <1>0, <2>1 DEF Report
  <2> QED
    BY <1>0, <2>3, <2>4 DEF ReportInv, Between
<1>5. ASSUME NEW c \in Clients, ChangeOnBoard(c) PROVE ReportInv'
  <2> DEFINE o == req[c].change.of
  <2>1. /\ o \in Orders /\ order' = [order EXCEPT ![o].state = req[c].change.to]
        /\ report' = IF report.pc # "first" THEN report ELSE
                       [report EXCEPT !.changed = @ \cup {o}, !.back = @ \cup (Completed \ Completed')]
    BY <1>0, <1>5 DEF ChangeOnBoard, CommitStatus, At, InHand
  <2> HIDE DEF o
  <2>2. Completed' \ Completed \subseteq {o} /\ Completed' \subseteq Orders
    BY <1>0, <2>1 DEF Completed, InState, Typed
  <2>3. CASE report.pc # "first"
    BY <1>0, <2>1, <2>3 DEF ReportInv, Between
  <2>4. CASE report.pc = "first"
    <3>1. /\ report' \in Report /\ report'.first = report.first /\ report'.changed = report.changed \cup {o}
          /\ report'.back = report.back \cup (Completed \ Completed')
      BY <1>0, <2>1, <2>4 DEF Report
    <3> QED
      BY <1>0, <2>2, <2>4, <3>1 DEF ReportInv, Between
  <2> QED
    BY <2>3, <2>4
<1>6. ASSUME getRevenueSummary \/ getRepairStats PROVE ReportInv'
  <2>1. PICK of \in {"revenue", "stats"}, read \in {Completed, Pending} :
          \/ ReadFirst(of, Completed)
          \/ ReadSecond(of, read)
    BY <1>6 DEF getRevenueSummary, getRepairStats
  <2>2. read \in SUBSET Orders /\ Completed \in SUBSET Orders
    BY DEF Completed, Pending, InState
  <2>3. CASE ReadFirst(of, Completed)
    <3>1. Completed' = Completed /\ report' \in Report /\ report'.first = Completed
      BY <2>2, <2>3 DEF ReadFirst, NoReport, Report, StartAlone, StartReading, tables, Completed, InState
    <3> QED
      BY <3>1 DEF ReportInv, Between
  <2>4. CASE ReadSecond(of, read)
    <3>1. report' = [report EXCEPT !.pc = "second", !.second = read]
      BY <2>4 DEF ReadSecond
    <3> QED
      BY <1>0, <2>2, <3>1 DEF ReportInv, Between, Report
  <2> QED
    BY <2>1, <2>3, <2>4
<1>7. ASSUME EndReport PROVE ReportInv'
  BY <1>7 DEF EndReport, NoReport, ReportInv, Report, Between
<1> QED
  BY <1>1, <1>2, <1>3, <1>4, <1>5, <1>6, <1>7 DEF DeskNext, WriteStep, ReadStep, deskVars, vars, reads

(* Revenue, pending orders and averages agree but for the orders that      *)
(* changed between the statements, for any number of clients and orders.   *)
THEOREM RevenueIsCountedOnce == DeskSpec => RevenueCountsOnce
<1> DEFINE CountedOnce ==
      report.pc = "first" /\ report'.pc = "second" =>
        IF report.of = "revenue"
        THEN /\ report'.first \cap report'.second \subseteq report.back
             /\ (Completed \cup Pending) \ (report'.first \cup report'.second) \subseteq report.changed
        ELSE report'.first \ report'.second \subseteq report.back
<1>1. ReportInv /\ [DeskNext]_deskVars => CountedOnce
  <2> SUFFICES ASSUME ReportInv, DeskNext, report.pc = "first", report'.pc = "second" PROVE CountedOnce
    BY DEF deskVars, reads
  <2>1. ReadSecond("revenue", Pending) \/ ReadSecond("stats", Completed)
    <3>1. ASSUME NEW of, NEW read, ReadFirst(of, read) PROVE FALSE
      BY <3>1 DEF ReadFirst, NoReport
    <3>2. ASSUME EndReport PROVE FALSE
      BY <3>2 DEF EndReport
    <3>3. ASSUME StartWalk \/ FindMany \/ Count \/ NextPage \/ EndWalk PROVE FALSE
      BY <3>3 DEF StartWalk, FindMany, Count, NextPage, EndWalk
    <3>4. ASSUME WriteStep PROVE FALSE
      BY <3>4 DEF WriteStep, UpdateUrgency, InsertFirst, DeleteFromList, InsertOnBoard, ChangeOnBoard,
                  Elsewhere, reads, ReportInv, Report
    <3> QED
      BY <3>1, <3>2, <3>3, <3>4 DEF DeskNext, ReadStep, getRevenueSummary, getRepairStats
  <2>2. report \in Report /\ Between /\ Completed \cap Pending = {}
    BY DEF ReportInv, Completed, Pending, InState
  <2>3. PICK read : /\ report' = [report EXCEPT !.pc = "second", !.second = read]
                    /\ read = IF report.of = "revenue" THEN Pending ELSE Completed
    BY <2>1 DEF ReadSecond
  <2>4. report'.first = report.first /\ report'.second = read
    BY <2>2, <2>3 DEF Report
  <2>5. /\ report.first \ Completed \subseteq report.back
        /\ Completed \ report.first \subseteq report.changed
    BY <2>2 DEF Between
  <2> QED
    BY <2>2, <2>3, <2>4, <2>5
<1>2. IInv /\ ReportInv /\ [DeskNext]_deskVars => ReportInv'
  BY ReportStep
<1> QED
  BY <1>1, <1>2, ReportInit, DeskInv, PTL DEF DeskSpec, RevenueCountsOnce
==============================================================================
