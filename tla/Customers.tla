------------------------------ MODULE Customers ------------------------------
(***************************************************************************)
(* CustomersService (create, update, remove) of one company, with the      *)
(* handlers of RepairOrdersService that create orders for a customer and   *)
(* change their status.  The phone has no unique index; the row is really  *)
(* deleted, and the foreign key of repair_orders is ON DELETE RESTRICT.    *)
(*                                                                         *)
(* customer[k]  the phone of the customer, or Nobody when there is no row. *)
(* order[o]     a repair order: its customer and its state, "active"       *)
(*              standing for the six statuses before COMPLETED.            *)
(* req[c]       the request of client c and what its handler has read;     *)
(*              change is the order and the status of a changeStatus.      *)
(***************************************************************************)
EXTENDS FiniteSets, Naturals

CONSTANTS
  CustomerIds, Phones, Clients,
  Orders      \* bound: the orders that may be created

VARIABLES customer, order, req

tables == <<customer, order>>
vars == <<customer, order, req>>

Nobody == "none"

ASSUME NobodyAssumption == Nobody \notin CustomerIds \cup Phones

ASSUME ClientsAssumption == IsFiniteSet(Clients)

NoOrder == [state |-> "absent", of |-> Nobody]
NoChange == [of |-> Nobody, to |-> "absent"]
IdleRequest == [pc |-> "idle", on |-> Nobody, phone |-> Nobody, change |-> NoChange]

Labels == {"idle", "phoneFree", "found", "phoneFreeForUpdate", "removing", "counted",
           "customerChecked", "statusChecked", "reading"}

(* ALLOWED_TRANSITIONS between those states.                               *)
Allowed ==
  [absent |-> {}, active |-> {"active", "COMPLETED", "CANCELLED"},
   COMPLETED |-> {"DELIVERED"}, DELIVERED |-> {}, CANCELLED |-> {}]

TERMINAL_STATUSES == {"DELIVERED", "CANCELLED"}

Init ==
  /\ customer = [k \in CustomerIds |-> Nobody]
  /\ order = [o \in Orders |-> NoOrder]
  /\ req = [c \in Clients |-> IdleRequest]

At(c, label) == req[c].pc = label
Finish(c) == req' = [req EXCEPT ![c] = IdleRequest]
Exists(k) == customer[k] # Nobody

(* findFirst({ companyId, phone, NOT: { id } })                            *)
PhoneTaken(phone, k) == \E l \in CustomerIds \ {k} : customer[l] = phone

(* Mutant of CheckPhone: the phone is not looked up.                       *)
CheckNoPhone(c) ==
  \E k \in CustomerIds, phone \in Phones :
    /\ At(c, "idle")
    /\ ~Exists(k)
    /\ \A d \in Clients : req[d].on # k
    /\ req' = [req EXCEPT ![c] = [IdleRequest EXCEPT !.pc = "phoneFree", !.on = k, !.phone = phone]]
    /\ UNCHANGED tables

(* create: the phone is not in use ...  An id is a fresh uuid: it is not   *)
(* one that a request still holds.                                         *)
CheckPhone(c) ==
  \E k \in CustomerIds, phone \in Phones :
    /\ At(c, "idle")
    /\ ~Exists(k)
    /\ \A d \in Clients : req[d].on # k
    /\ ~PhoneTaken(phone, k)
    /\ req' = [req EXCEPT ![c] = [IdleRequest EXCEPT !.pc = "phoneFree", !.on = k, !.phone = phone]]
    /\ UNCHANGED tables

(* ... and the customer is inserted later, without a look.                 *)
InsertCustomer(c) ==
  /\ At(c, "phoneFree")
  /\ customer' = [customer EXCEPT ![req[c].on] = req[c].phone]
  /\ Finish(c)
  /\ UNCHANGED order

(* findOrThrow of update and remove.                                       *)
FindForUpdate(c) ==
  \E k \in CustomerIds, phone \in Phones :
    /\ At(c, "idle")
    /\ Exists(k)
    /\ req' = [req EXCEPT ![c] = [IdleRequest EXCEPT !.pc = "found", !.on = k, !.phone = phone]]
    /\ UNCHANGED tables

FindForRemove(c) ==
  \E k \in CustomerIds :
    /\ At(c, "idle")
    /\ Exists(k)
    /\ req' = [req EXCEPT ![c] = [IdleRequest EXCEPT !.pc = "removing", !.on = k]]
    /\ UNCHANGED tables

(* update: a conflict is looked for when the request has a phone.          *)
CheckConflict(c) ==
  /\ At(c, "found")
  /\ IF PhoneTaken(req[c].phone, req[c].on)
     THEN Finish(c)
     ELSE req' = [req EXCEPT ![c].pc = "phoneFreeForUpdate"]
  /\ UNCHANGED tables

(* The update by id; a row that is gone raises P2025 and changes nothing.  *)
UpdateCustomer(c) ==
  /\ At(c, "phoneFreeForUpdate")
  /\ customer' = [customer EXCEPT ![req[c].on] = IF @ = Nobody THEN @ ELSE req[c].phone]
  /\ Finish(c)
  /\ UNCHANGED order

OrdersOf(k) == {o \in Orders : order[o].of = k}

(* remove: refuses while the customer has active orders ...                *)
CountOrders(c) ==
  /\ At(c, "removing")
  /\ IF \E o \in OrdersOf(req[c].on) : order[o].state \notin TERMINAL_STATUSES
     THEN Finish(c)
     ELSE req' = [req EXCEPT ![c].pc = "counted"]
  /\ UNCHANGED tables

(* Mutant of DeleteCustomer: no foreign key.                               *)
DeleteUnrestricted(c) ==
  /\ At(c, "counted")
  /\ customer' = [customer EXCEPT ![req[c].on] = Nobody]
  /\ Finish(c)
  /\ UNCHANGED order

(* ... and deletes the row, unless an order of any status refers to it:    *)
(* then the foreign key raises P2003 and the request fails.                *)
DeleteCustomer(c) ==
  /\ At(c, "counted")
  /\ customer' = [customer EXCEPT ![req[c].on] =
                    IF OrdersOf(req[c].on) = {} THEN Nobody ELSE @]
  /\ Finish(c)
  /\ UNCHANGED order

(* RepairOrdersService.create: the customer exists ...                     *)
CheckCustomer(c) ==
  \E k \in CustomerIds :
    /\ At(c, "idle")
    /\ Exists(k)
    /\ req' = [req EXCEPT ![c] = [IdleRequest EXCEPT !.pc = "customerChecked", !.on = k]]
    /\ UNCHANGED tables

(* ... and later the order is inserted: the foreign key checks again.      *)
InsertOrder(c) ==
  /\ At(c, "customerChecked")
  /\ Exists(req[c].on)
  /\ \E o \in Orders :
       /\ order[o] = NoOrder
       /\ order' = [order EXCEPT ![o] = [state |-> "active", of |-> req[c].on]]
  /\ Finish(c)
  /\ UNCHANGED customer

(* changeStatus: the transition is allowed from the status read ...        *)
CheckStatus(c) ==
  \E o \in Orders : \E to \in Allowed[order[o].state] :
    /\ At(c, "idle")
    /\ req' = [req EXCEPT ![c] = [IdleRequest EXCEPT !.pc = "statusChecked",
                                   !.change = [of |-> o, to |-> to]]]
    /\ UNCHANGED tables

(* ... and written later, whatever the status has become.                  *)
CommitStatus(c) ==
  /\ At(c, "statusChecked")
  /\ order' = [order EXCEPT ![req[c].change.of].state = req[c].change.to]
  /\ Finish(c)
  /\ UNCHANGED customer

(* The request fails: a foreign key, a timeout, a crash.                   *)
Fail(c) ==
  /\ ~At(c, "idle") /\ ~At(c, "reading")
  /\ Finish(c)
  /\ UNCHANGED tables

(* A request that only reads: nothing it reads is written to these tables. *)
StartReading(c) ==
  /\ At(c, "idle")
  /\ req' = [req EXCEPT ![c].pc = "reading"]
  /\ UNCHANGED tables

StopReading(c) == At(c, "reading") /\ Finish(c) /\ UNCHANGED tables

CustomerStep(c) ==
  \/ CheckPhone(c) \/ InsertCustomer(c) \/ FindForUpdate(c) \/ CheckConflict(c)
  \/ UpdateCustomer(c) \/ FindForRemove(c) \/ CountOrders(c) \/ DeleteCustomer(c)

OrderStep(c) == CheckCustomer(c) \/ InsertOrder(c) \/ CheckStatus(c) \/ CommitStatus(c)

ReadingStep(c) == StartReading(c) \/ StopReading(c)

Next == \E c \in Clients : CustomerStep(c) \/ OrderStep(c) \/ ReadingStep(c) \/ Fail(c)

Spec == Init /\ [][Next]_vars

------------------------------------------------------------------------------

TypeOK ==
  /\ customer \in [CustomerIds -> Phones \cup {Nobody}]
  /\ order \in [Orders -> [state : DOMAIN Allowed, of : CustomerIds \cup {Nobody}]]
  /\ req \in [Clients -> [pc : Labels, on : CustomerIds \cup {Nobody},
                          phone : Phones \cup {Nobody},
                          change : [of : Orders \cup {Nobody}, to : DOMAIN Allowed]]]

(* Every order has its customer, for ever: remove only counts the active   *)
(* orders, before it deletes, and create checks the customer before it     *)
(* inserts; the closed orders and the races are left to the foreign key.   *)
EveryOrderHasItsCustomer ==
  \A o \in Orders : order[o] # NoOrder => order[o].of \in CustomerIds /\ Exists(order[o].of)

(* A phone is shared by no more customers than there are clients: one that *)
(* races nobody is refused, so duplicates come from concurrent checks      *)
(* only and do not pile up beyond them.                                    *)
DuplicatesBoundedByClients ==
  \A phone \in Phones :
    Cardinality({k \in CustomerIds : customer[k] = phone}) <= Cardinality(Clients)
==============================================================================
