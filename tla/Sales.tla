-------------------------------- MODULE Sales --------------------------------
(***************************************************************************)
(* SalesService.create and cancel and InventoryService over one stock.     *)
(* A sale validates the stock on what it read, then opens a transaction    *)
(* that inserts the sale and decrements the stock of each item, in the     *)
(* order of the request; a cancellation reads the sale, then restores the  *)
(* stock item by item.  An UPDATE locks its row until the transaction      *)
(* ends; two transactions can therefore wait for each other, and           *)
(* PostgreSQL then aborts one of them.                                     *)
(*                                                                         *)
(* stock[p]     the committed stock column; it is an Int, with no CHECK.   *)
(* product[p]   whether the row is there and not soft-deleted.             *)
(* sale[i]      the committed sales row and its items.                     *)
(* req[c]       the request of client c; the rows it has updated are the   *)
(*              first "locked" items of its cart, and sale[on] for a       *)
(*              cancellation.  Nothing of it is visible before it commits. *)
(* supplied[p]  history: what has been put on the shelf.  Whoever edits    *)
(*              the stock has seen the row and writes that number and what *)
(*              has come since: n supplies n less the stock that was seen. *)
(* overwritten  history: the products whose stock an edit has set from a   *)
(*              number that was not the stock any more.                    *)
(***************************************************************************)
EXTENDS Integers, Sequences, FiniteSets

CONSTANTS
  Products, Clients,
  SaleIds,        \* bound: the sales that may be created
  Carts,          \* the items a sale request may list
  MaxQuantity,    \* bound: the largest quantity of an item of a cart
  StockLevels,    \* values a product form may set the stock to
  InitialStock,
  SalesClerks,    \* clients that create sales
  Cancellers,     \* clients that cancel sales
  StockKeepers    \* clients that use InventoryService

(* CreateSaleDto: positive quantities; a product listed twice fails the    *)
(* comparison of products.length with productIds.length.                   *)
Item == [product : Products, quantity : Nat \ {0}]

ASSUME CartsAssumption ==
  \A cart \in Carts :
    /\ cart \in Seq(Item) /\ cart # <<>>
    /\ \A i, j \in 1..Len(cart) : cart[i].product = cart[j].product => i = j

ASSUME QuantityAssumption ==
  /\ MaxQuantity \in Nat
  /\ \A cart \in Carts : \A i \in 1..Len(cart) : cart[i].quantity <= MaxQuantity

ASSUME FiniteAssumption == IsFiniteSet(SaleIds) /\ IsFiniteSet(SalesClerks)

ASSUME StockAssumption ==
  StockLevels \subseteq Nat /\ InitialStock \in [Products -> Nat]

VARIABLES stock, product, sale, req, supplied, overwritten

tables == <<stock, product, sale, supplied, overwritten>>
vars == <<stock, product, sale, req, supplied, overwritten>>

Nothing == "nothing"

NoSale == [status |-> Nothing, items |-> <<>>]

IdleRequest == [pc |-> "idle", cart |-> <<>>, locked |-> 0, on |-> Nothing, seen |-> 0]

Labels == {"idle", "decrement", "cancelSale", "increment", "productFound"}

Init ==
  /\ product \in [Products -> {"absent", "live"}]
  /\ stock = [p \in Products |-> IF product[p] = "live" THEN InitialStock[p] ELSE 0]
  /\ supplied = stock
  /\ overwritten = {}
  /\ sale = [i \in SaleIds |-> NoSale]
  /\ req = [c \in Clients |-> IdleRequest]

At(c, label) == req[c].pc = label

Finish(c) == req' = [req EXCEPT ![c] = IdleRequest]

InTransaction(c) == At(c, "decrement") \/ At(c, "increment")

LockedProducts(c) ==
  IF InTransaction(c)
  THEN {req[c].cart[i].product : i \in 1..req[c].locked} ELSE {}

LockedByAnother(c, p) == \E d \in Clients \ {c} : p \in LockedProducts(d)

Quantity(cart, p) ==
  IF \E i \in 1..Len(cart) : cart[i].product = p
  THEN cart[CHOOSE i \in 1..Len(cart) : cart[i].product = p].quantity ELSE 0

(* Bound: a sale is only started when there is an id left to commit it.    *)
IdsLeft ==
  Cardinality({i \in SaleIds : sale[i] = NoSale}) >
    Cardinality({c \in Clients : At(c, "decrement")})

(* create: every product found and in stock, on one read outside the       *)
(* transaction.  A request that fails these checks changes nothing.        *)
CheckSale(c) ==
  \E cart \in Carts :
    /\ c \in SalesClerks
    /\ At(c, "idle")
    /\ IdsLeft
    /\ \A k \in 1..Len(cart) :
         /\ product[cart[k].product] = "live"
         /\ stock[cart[k].product] >= cart[k].quantity
    /\ req' = [req EXCEPT ![c] = [IdleRequest EXCEPT !.pc = "decrement", !.cart = cart]]
    /\ UNCHANGED tables

(* tx.product.update({ stock: { decrement } }) or { increment } of the     *)
(* next item: waits for the row lock.                                      *)
UpdateStock(c) ==
  LET k == req[c].locked + 1
  IN  /\ InTransaction(c)
      /\ k <= Len(req[c].cart)
      /\ ~LockedByAnother(c, req[c].cart[k].product)
      /\ req' = [req EXCEPT ![c].locked = k]
      /\ UNCHANGED tables

AllUpdated(c) == req[c].locked = Len(req[c].cart)

(* Mutant of CommitSale: the stock is checked again in the transaction,    *)
(* which is neither committed nor rolled back when it does not suffice.    *)
CommitSaleHanging(c) ==
  /\ At(c, "decrement") /\ AllUpdated(c)
  /\ \A p \in Products : stock[p] >= Quantity(req[c].cart, p)
  /\ \E i \in SaleIds :
       /\ sale[i] = NoSale
       /\ sale' = [sale EXCEPT ![i] = [status |-> "COMPLETED", items |-> req[c].cart]]
  /\ stock' = [p \in Products |-> stock[p] - Quantity(req[c].cart, p)]
  /\ Finish(c)
  /\ UNCHANGED <<product, supplied, overwritten>>

(* The sale, its items and the decrements commit together.                 *)
CommitSale(c) ==
  /\ At(c, "decrement")
  /\ AllUpdated(c)
  /\ \E i \in SaleIds :
       /\ sale[i] = NoSale
       /\ sale' = [sale EXCEPT ![i] = [status |-> "COMPLETED", items |-> req[c].cart]]
  /\ stock' = [p \in Products |-> stock[p] - Quantity(req[c].cart, p)]
  /\ Finish(c)
  /\ UNCHANGED <<product, supplied, overwritten>>

(* cancel: the sale and its items, read outside the transaction.           *)
CheckCancel(c) ==
  \E i \in SaleIds :
    /\ c \in Cancellers
    /\ At(c, "idle")
    /\ sale[i].status = "COMPLETED"
    /\ req' = [req EXCEPT ![c] = [IdleRequest EXCEPT
                 !.pc = "cancelSale", !.on = i, !.cart = sale[i].items]]
    /\ UNCHANGED tables

(* tx.sale.update({ status: CANCELLED }) by id: waits for the row lock     *)
(* and does not look at the status.                                        *)
CancelSale(c) ==
  /\ At(c, "cancelSale")
  /\ ~\E d \in Clients \ {c} : At(d, "increment") /\ req[d].on = req[c].on
  /\ req' = [req EXCEPT ![c].pc = "increment"]
  /\ UNCHANGED tables

CommitCancel(c) ==
  /\ At(c, "increment")
  /\ AllUpdated(c)
  /\ sale' = [sale EXCEPT ![req[c].on].status = "CANCELLED"]
  /\ stock' = [p \in Products |-> stock[p] + Quantity(req[c].cart, p)]
  /\ Finish(c)
  /\ UNCHANGED <<product, supplied, overwritten>>

(* InventoryService.update and remove: findOrThrow, which also stands for  *)
(* the read the form was filled from ...                                   *)
FindProduct(c) ==
  \E p \in Products :
    /\ c \in StockKeepers
    /\ At(c, "idle")
    /\ product[p] = "live"
    /\ req' = [req EXCEPT ![c] = [IdleRequest EXCEPT
                 !.pc = "productFound", !.on = p, !.seen = stock[p]]]
    /\ UNCHANGED tables

(* The units of product p that the completed sales sold.                   *)
UnitsSold(p) ==
  UNION {{i} \X (1..Quantity(sale[i].items, p)) :
           i \in {j \in SaleIds : sale[j].status = "COMPLETED"}}

Sold(p) == Cardinality(UnitsSold(p))

(* Mutant of SetStock: the value of the form is subtracted.                *)
SubtractStock(c) ==
  LET p == req[c].on
  IN  /\ At(c, "productFound") /\ ~LockedByAnother(c, p)
      /\ \E n \in StockLevels :
           /\ stock' = [stock EXCEPT ![p] = @ - n]
           /\ supplied' = [supplied EXCEPT ![p] = @ - n]
      /\ Finish(c)
      /\ UNCHANGED <<product, sale, overwritten>>

(* ... then an update of the row, whose stock is set to the value of the   *)
(* form whatever the stock has become.  It waits for the row lock.         *)
SetStock(c) ==
  LET p == req[c].on
  IN  /\ At(c, "productFound")
      /\ ~LockedByAnother(c, p)
      /\ \E n \in StockLevels :
           /\ stock' = [stock EXCEPT ![p] = n]
           /\ supplied' = [supplied EXCEPT ![p] = @ + (n - req[c].seen)]
      /\ overwritten' = IF stock[p] = req[c].seen THEN overwritten ELSE overwritten \cup {p}
      /\ Finish(c)
      /\ UNCHANGED <<product, sale>>

(* remove: the row is marked; the sales of the product stay.               *)
RemoveProduct(c) ==
  LET p == req[c].on
  IN  /\ At(c, "productFound")
      /\ ~LockedByAnother(c, p)
      /\ product' = [product EXCEPT ![p] = "deleted"]
      /\ Finish(c)
      /\ UNCHANGED <<stock, sale, supplied, overwritten>>

(* InventoryService.create.                                                *)
CreateProduct(c) ==
  \E p \in Products, n \in StockLevels :
    /\ c \in StockKeepers
    /\ At(c, "idle")
    /\ product[p] = "absent"
    /\ product' = [product EXCEPT ![p] = "live"]
    /\ stock' = [stock EXCEPT ![p] = n]
    /\ supplied' = [supplied EXCEPT ![p] = n]
    /\ UNCHANGED <<sale, req, overwritten>>

(* The rows a client's next statement waits for are held by whom?          *)
WaitsFor(c) ==
  LET k == req[c].locked + 1
  IN  IF InTransaction(c) /\ k <= Len(req[c].cart)
      THEN {d \in Clients \ {c} : req[c].cart[k].product \in LockedProducts(d)}
      ELSE {}

InDeadlock(c) ==
  \E n \in 2..Cardinality(Clients) :
    \E w \in [1..n -> Clients] :
      /\ w[1] = c
      /\ \A i \in 1..n : w[(i % n) + 1] \in WaitsFor(w[i])

(* PostgreSQL's deadlock detector aborts a member of the cycle.            *)
AbortVictim(c) ==
  /\ InDeadlock(c)
  /\ Finish(c)
  /\ UNCHANGED tables

(* Mutant of Fail: no transaction, what was decremented stays decremented. *)
FailHalfway(c) ==
  /\ ~At(c, "idle")
  /\ stock' = [p \in Products |-> IF p \in LockedProducts(c) /\ At(c, "decrement")
                                  THEN stock[p] - Quantity(req[c].cart, p) ELSE stock[p]]
  /\ Finish(c)
  /\ UNCHANGED <<product, sale, supplied, overwritten>>

(* The statement or transaction fails (timeout, connection, crash): it is  *)
(* rolled back, the row locks go.                                          *)
Fail(c) ==
  /\ ~At(c, "idle")
  /\ Finish(c)
  /\ UNCHANGED tables

SaleStep(c) == UpdateStock(c) \/ CommitSale(c) \/ CancelSale(c) \/ CommitCancel(c)
InventoryStep(c) == SetStock(c) \/ RemoveProduct(c)

Next ==
  \E c \in Clients :
    \/ CheckSale(c) \/ CheckCancel(c) \/ SaleStep(c)
    \/ FindProduct(c) \/ InventoryStep(c) \/ CreateProduct(c)
    \/ AbortVictim(c) \/ Fail(c)

(* Handlers that have started are run.  Strong fairness, because a         *)
(* statement may wait for a row: PostgreSQL queues the waiters of a row,   *)
(* so one that waits while others come and go gets its turn.  The database *)
(* resolves every deadlock.  Nothing forces a client to send a request, or *)
(* a failure to happen.                                                    *)
Fairness ==
  \A c \in Clients :
    /\ SF_vars(SaleStep(c) \/ InventoryStep(c))
    /\ WF_vars(AbortVictim(c))

Spec == Init /\ [][Next]_vars /\ Fairness

------------------------------------------------------------------------------

TypeOK ==
  /\ stock \in [Products -> Int]
  /\ supplied \in [Products -> Int]
  /\ overwritten \subseteq Products
  /\ product \in [Products -> {"absent", "live", "deleted"}]
  /\ \A i \in SaleIds : \/ sale[i] = NoSale
                        \/ sale[i].status \in {"COMPLETED", "CANCELLED"} /\ sale[i].items \in Carts
  /\ \A c \in Clients : /\ req[c].pc \in Labels
                        /\ req[c].locked \in 0..Len(req[c].cart)

(* The stock is what was supplied less what the completed sales sold:      *)
(* sales, their items and the decrements are all or nothing, two sales of  *)
(* the same product both count, a deadlock victim leaves nothing behind    *)
(* and a cancelled sale gives back exactly what it took.  Only the edit of *)
(* a product, which writes the stock whatever it has become since the form *)
(* was filled, can lose a sale or a return.                                *)
StockMatchesSales ==
  \A p \in Products \ overwritten : stock[p] = supplied[p] - Sold(p)

(* How far the unguarded decrement can oversell: each clerk can apply one  *)
(* decrement validated against a stock that is gone, no more, because the  *)
(* next request of a clerk reads the stock again.                          *)
OversellIsBounded ==
  \A p \in Products : stock[p] >= -(Cardinality(SalesClerks) * MaxQuantity)

(* Every request ends: whatever the order in which carts list their items, *)
(* no transaction waits for ever for a row.                                *)
EveryRequestEnds ==
  \A c \in Clients : ~At(c, "idle") ~> At(c, "idle")
==============================================================================
