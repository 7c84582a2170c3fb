---------------------------- MODULE Sales_proofs -----------------------------
(* Proofs about Sales, for any products, clients, sales and carts.         *)
EXTENDS Sales, FiniteSetTheorems, TLAPS

SaleRow == {NoSale} \cup [status : {"COMPLETED", "CANCELLED"}, items : Carts]
Request ==
  [pc : Labels, cart : Carts \cup {<<>>}, locked : Nat, on : SaleIds \cup Products \cup {Nothing},
   seen : Int]

Typed ==
  /\ stock \in [Products -> Int]
  /\ supplied \in [Products -> Int]
  /\ overwritten \subseteq Products
  /\ product \in [Products -> {"absent", "live", "deleted"}]
  /\ sale \in [SaleIds -> SaleRow]
  /\ req \in [Clients -> Request]

Stocked(cart) == \A k \in 1..Len(cart) : product[cart[k].product] # "absent"

Cancelling(c) == At(c, "cancelSale") \/ At(c, "increment")

(* What the requests hold: a cart of products that are there, a sale and   *)
(* its items, a product that is there.                                     *)
InHand(c) ==
  /\ req[c].locked <= Len(req[c].cart)
  /\ At(c, "decrement") => c \in SalesClerks /\ req[c].cart \in Carts /\ Stocked(req[c].cart)
  /\ Cancelling(c) =>
       /\ c \in Cancellers /\ req[c].on \in SaleIds
       /\ sale[req[c].on] # NoSale /\ sale[req[c].on].items = req[c].cart
  /\ At(c, "productFound") => req[c].on \in Products /\ product[req[c].on] # "absent"

IInv ==
  /\ Typed
  /\ \A c \in Clients : InHand(c)
  /\ \A i \in SaleIds : Stocked(sale[i].items)

LEMMA IdleIsRequest ==
  /\ IdleRequest \in Request /\ IdleRequest.pc = "idle"
  /\ IdleRequest.locked <= Len(IdleRequest.cart)
BY DEF IdleRequest, Request, Labels, Nothing

LEMMA CartsAreSequences ==
  ASSUME NEW cart \in Carts \cup {<<>>}
  PROVE  /\ Len(cart) \in Nat
         /\ \A k \in 1..Len(cart) : cart[k].product \in Products /\ cart[k].quantity \in Nat \ {0}
<1>1. cart \in Seq(Item)
  <2>1. CASE cart \in Carts
    BY <2>1, CartsAssumption
  <2>2. CASE cart = <<>>
    BY <2>2
  <2> QED
    BY <2>1, <2>2
<1>2. Len(cart) \in Nat /\ \A k \in 1..Len(cart) : cart[k] \in Item
  BY <1>1
<1> QED
  BY <1>2 DEF Item

LEMMA RowsAreSales ==
  ASSUME Typed, NEW i \in SaleIds
  PROVE  /\ sale[i].items \in Carts \cup {<<>>}
         /\ sale[i] # NoSale => /\ sale[i].status \in {"COMPLETED", "CANCELLED"}
                                /\ sale[i].items \in Carts
         /\ sale[i].status = "COMPLETED" => sale[i] # NoSale
BY DEF Typed, SaleRow, NoSale, Nothing

LEMMA InitInv == Init => IInv
<1> SUFFICES ASSUME Init PROVE IInv
  OBVIOUS
<1>1. Typed
  BY IdleIsRequest, StockAssumption DEF Init, Typed, SaleRow
<1>2. \A c \in Clients : InHand(c)
  BY IdleIsRequest DEF Init, InHand, At, Cancelling
<1>3. \A i \in SaleIds : Stocked(sale[i].items)
  BY DEF Init, Stocked, NoSale
<1> QED
  BY <1>1, <1>2, <1>3 DEF IInv

(* A step that only gives client c another request keeps the invariant if  *)
(* the new request is one that may be held.                                *)
LEMMA RequestStep ==
  ASSUME IInv, NEW c \in Clients, NEW q \in Request, UNCHANGED tables,
         req' = [req EXCEPT ![c] = q], InHand(c)'
  PROVE  IInv'
<1>1. Typed' /\ \A d \in Clients \ {c} : req'[d] = req[d]
  BY DEF IInv, Typed, tables
<1>2. \A d \in Clients \ {c} : InHand(d)'
  BY <1>1 DEF IInv, InHand, At, Cancelling, Stocked, tables
<1>3. \A i \in SaleIds : Stocked(sale[i].items)'
  BY DEF IInv, Stocked, tables
<1> QED
  BY <1>1, <1>2, <1>3 DEF IInv

(* A step that ends a request keeps the invariant if products stay, and    *)
(* sales keep their items.                                                 *)
LEMMA FinishStep ==
  ASSUME IInv, NEW c \in Clients, Finish(c),
         stock' \in [Products -> Int], supplied' \in [Products -> Int], overwritten' \subseteq Products,
         product' \in [Products -> {"absent", "live", "deleted"}],
         \A p \in Products : product[p] # "absent" => product'[p] # "absent",
         sale' \in [SaleIds -> SaleRow],
         \A i \in SaleIds :
           \/ sale[i] = NoSale /\ Stocked(sale'[i].items)
           \/ sale'[i].items = sale[i].items /\ (sale[i] # NoSale => sale'[i] # NoSale)
  PROVE  IInv'
<1>0. /\ Typed
      /\ \A d \in Clients : InHand(d) /\ req[d] \in Request /\ Len(req[d].cart) \in Nat
      /\ \A i \in SaleIds : Stocked(sale[i].items)
  BY CartsAreSequences DEF IInv, Typed, Request
<1>1. Typed' /\ req'[c] = IdleRequest /\ \A d \in Clients \ {c} : req'[d] = req[d]
  BY <1>0, IdleIsRequest DEF Typed, Finish
<1>2. ASSUME NEW cart \in Carts \cup {<<>>}, Stocked(cart)
      PROVE  \A k \in 1..Len(cart) : product'[cart[k].product] # "absent"
  BY <1>2, CartsAreSequences DEF Stocked
<1>3. InHand(c)'
  BY <1>1, IdleIsRequest DEF InHand, At, Cancelling
<1>4. ASSUME NEW d \in Clients \ {c}
      PROVE  InHand(d)'
  <2>1. InHand(d) /\ req'[d] = req[d]
    BY <1>0, <1>1
  <2>2. At(d, "decrement") =>
          \A k \in 1..Len(req[d].cart) : product'[req[d].cart[k].product] # "absent"
    BY <2>1, <1>2 DEF InHand
  <2>3. Cancelling(d) => sale'[req[d].on] # NoSale /\ sale'[req[d].on].items = req[d].cart
    BY <2>1 DEF InHand
  <2>4. At(d, "productFound") => product'[req[d].on] # "absent"
    BY <2>1 DEF InHand
  <2> QED
    BY <2>1, <2>2, <2>3, <2>4 DEF InHand, At, Cancelling, Stocked
<1>5. ASSUME NEW i \in SaleIds
      PROVE  Stocked(sale[i].items)'
  <2>1. CASE sale'[i].items = sale[i].items
    <3>1. sale[i].items \in Carts \cup {<<>>} /\ Stocked(sale[i].items)
      BY <1>0, RowsAreSales
    <3>2. \A k \in 1..Len(sale[i].items) : product'[sale[i].items[k].product] # "absent"
      BY <3>1, <1>2
    <3> QED
      BY <3>2, <2>1 DEF Stocked
  <2>2. CASE Stocked(sale'[i].items)
    <3>1. sale'[i].items \in Carts \cup {<<>>}
      BY DEF SaleRow, NoSale
    <3> QED
      BY <3>1, <2>2, <1>2 DEF Stocked
  <2> QED
    BY <2>1, <2>2
<1> QED
  BY <1>1, <1>3, <1>4, <1>5 DEF IInv

LEMMA QuantityIsBounded ==
  ASSUME NEW cart \in Carts \cup {<<>>}, NEW p \in Products
  PROVE  /\ Quantity(cart, p) \in 0..MaxQuantity
         /\ Quantity(cart, p) > 0 <=> \E k \in 1..Len(cart) : cart[k].product = p
<1>1. CASE \E k \in 1..Len(cart) : cart[k].product = p
  <2> DEFINE k == CHOOSE i \in 1..Len(cart) : cart[i].product = p
  <2>1. k \in 1..Len(cart) /\ Quantity(cart, p) = cart[k].quantity
    BY <1>1 DEF Quantity
  <2>2. cart \in Carts
    BY <1>1
  <2> QED
    BY <1>1, <2>1, <2>2, CartsAreSequences, QuantityAssumption
<1>2. CASE ~\E k \in 1..Len(cart) : cart[k].product = p
  BY <1>2, QuantityAssumption DEF Quantity
<1> QED
  BY <1>1, <1>2

(* The units sold are numbered, sale by sale: finitely many of them.       *)
LEMMA UnitsAreFinite ==
  ASSUME Typed, NEW p \in Products
  PROVE  /\ UnitsSold(p) \subseteq SaleIds \X (1..MaxQuantity)
         /\ IsFiniteSet(UnitsSold(p)) /\ Sold(p) \in Nat
<1>1. \A i \in SaleIds : Quantity(sale[i].items, p) \in 0..MaxQuantity
  BY RowsAreSales, QuantityIsBounded
<1>2. UnitsSold(p) \subseteq SaleIds \X (1..MaxQuantity)
  BY <1>1, QuantityAssumption DEF UnitsSold
<1>3. IsFiniteSet(SaleIds \X (1..MaxQuantity))
  <2>1. IsFiniteSet(1..MaxQuantity) /\ IsFiniteSet(SaleIds)
    BY FiniteAssumption, QuantityAssumption, FS_Interval
  <2> QED
    BY <2>1, FS_Product
<1>4. IsFiniteSet(UnitsSold(p))
  BY <1>2, <1>3, FS_Subset
<1> QED
  BY <1>2, <1>4, FS_CardinalityType DEF Sold

(* A sale adds the units of its items to those of the other sales.         *)
LEMMA UnitsAdded ==
  ASSUME NEW units, IsFiniteSet(units), NEW i, NEW n \in Nat, \A u : <<i, u>> \notin units
  PROVE  Cardinality(units \cup ({i} \X (1..n))) = Cardinality(units) + n
<1> DEFINE added == {i} \X (1..n)
<1>1. IsFiniteSet(1..n) /\ Cardinality(1..n) = n
  BY FS_Interval
<1>2. IsFiniteSet({i}) /\ Cardinality({i}) = 1
  BY FS_Singleton
<1>3. IsFiniteSet(added) /\ Cardinality(added) = 1 * n
  BY <1>1, <1>2, FS_Product
<1>4. units \cap added = {}
  OBVIOUS
<1> HIDE DEF added
<1>5. Cardinality(units \cap added) = 0
  BY <1>4, FS_EmptySet
<1>6. Cardinality(units) \in Nat
  BY FS_CardinalityType
<1>7. Cardinality(units \cup added)
        = Cardinality(units) + Cardinality(added) - Cardinality(units \cap added)
  BY <1>3, FS_Union
<1>8. Cardinality(units \cup added) = Cardinality(units) + n
  BY <1>3, <1>5, <1>6, <1>7
<1> QED
  BY <1>8 DEF added

LEMMA StepInv == IInv /\ [Next]_vars => IInv'
<1> SUFFICES ASSUME IInv, [Next]_vars PROVE IInv'
  OBVIOUS
<1>0. /\ Typed
      /\ \A d \in Clients : InHand(d) /\ req[d] \in Request /\ Len(req[d].cart) \in Nat
      /\ \A i \in SaleIds : Stocked(sale[i].items)
  BY CartsAreSequences DEF IInv, Typed, Request
<1>1. ASSUME NEW c \in Clients, CheckSale(c) PROVE IInv'
  <2>1. PICK cart \in Carts :
          /\ c \in SalesClerks
          /\ \A k \in 1..Len(cart) : product[cart[k].product] = "live"
          /\ req' = [req EXCEPT ![c] = [IdleRequest EXCEPT !.pc = "decrement", !.cart = cart]]
          /\ UNCHANGED tables
    BY <1>1 DEF CheckSale
  <2> DEFINE q == [IdleRequest EXCEPT !.pc = "decrement", !.cart = cart]
  <2>2. q \in Request /\ q.pc = "decrement" /\ q.cart = cart /\ q.locked = 0
    BY IdleIsRequest DEF IdleRequest, Request, Labels, Nothing
  <2>3. req'[c] = q
    BY <2>1, <1>0 DEF Typed
  <2> HIDE DEF q
  <2>4. Len(cart) \in Nat /\ \A k \in 1..Len(cart) : product'[cart[k].product] # "absent"
    BY <2>1, CartsAreSequences DEF tables
  <2>5. InHand(c)'
    <3>1. c \in SalesClerks
      BY <2>1
    <3> QED
      BY <2>2, <2>3, <2>4, <3>1 DEF InHand, At, Cancelling, Stocked
  <2> QED
    BY <2>1, <2>2, <2>5, RequestStep DEF q
<1>2. ASSUME NEW c \in Clients, CheckCancel(c) PROVE IInv'
  <2>1. PICK i \in SaleIds :
          /\ c \in Cancellers
          /\ sale[i].status = "COMPLETED"
          /\ req' = [req EXCEPT ![c] = [IdleRequest EXCEPT
                       !.pc = "cancelSale", !.on = i, !.cart = sale[i].items]]
          /\ UNCHANGED tables
    BY <1>2 DEF CheckCancel
  <2> DEFINE q == [IdleRequest EXCEPT !.pc = "cancelSale", !.on = i, !.cart = sale[i].items]
  <2>2. sale[i].items \in Carts /\ sale[i] # NoSale
    BY <1>0, <2>1, RowsAreSales
  <2>3. q \in Request /\ q.pc = "cancelSale" /\ q.cart = sale[i].items /\ q.locked = 0 /\ q.on = i
    BY <2>2, IdleIsRequest DEF IdleRequest, Request, Labels, Nothing
  <2>4. req'[c] = q
    BY <2>1, <1>0 DEF Typed
  <2> HIDE DEF q
  <2>5. Len(sale[i].items) \in Nat
    BY <2>2, CartsAreSequences
  <2>6. InHand(c)'
    <3>1. c \in Cancellers /\ sale' = sale
      BY <2>1 DEF tables
    <3> QED
      BY <2>2, <2>3, <2>4, <2>5, <3>1 DEF InHand, At, Cancelling
  <2> QED
    BY <2>1, <2>3, <2>6, RequestStep DEF q
<1>3. ASSUME NEW c \in Clients, UpdateStock(c) PROVE IInv'
  <2> DEFINE q == [req[c] EXCEPT !.locked = req[c].locked + 1]
  <2>1. q \in Request /\ req' = [req EXCEPT ![c] = q] /\ UNCHANGED tables
    <3>1. req[c] \in Request /\ req[c].locked \in Nat
      BY <1>0 DEF Request
    <3>2. q \in Request
      BY <3>1 DEF Request
    <3>3. req' = [req EXCEPT ![c] = q] /\ UNCHANGED tables
      BY <1>3 DEF UpdateStock
    <3> QED
      BY <3>2, <3>3
  <2>2. /\ req'[c] = q /\ q.locked <= Len(q.cart)
        /\ q.pc = req[c].pc /\ q.cart = req[c].cart /\ q.on = req[c].on
    BY <1>0, <1>3, <2>1 DEF UpdateStock, Typed, Request
  <2> HIDE DEF q
  <2>3. InHand(c)'
    BY <1>0, <2>1, <2>2 DEF InHand, At, Cancelling, Stocked, tables
  <2> QED
    BY <2>1, <2>3, RequestStep
<1>4. ASSUME NEW c \in Clients, CommitSale(c) PROVE IInv'
  <2>1. PICK i \in SaleIds :
          /\ sale[i] = NoSale
          /\ sale' = [sale EXCEPT ![i] = [status |-> "COMPLETED", items |-> req[c].cart]]
    BY <1>4 DEF CommitSale
  <2>2. req[c].cart \in Carts /\ Stocked(req[c].cart)
    BY <1>0, <1>4 DEF CommitSale, InHand
  <2>3. stock' \in [Products -> Int]
    <3>1. \A p \in Products : Quantity(req[c].cart, p) \in Int
      BY <2>2, QuantityIsBounded, QuantityAssumption
    <3> QED
      BY <3>1, <1>0, <1>4 DEF CommitSale, Typed
  <2>4. sale' \in [SaleIds -> SaleRow]
    BY <1>0, <2>1, <2>2 DEF Typed, SaleRow
  <2>5. \A j \in SaleIds :
          \/ sale[j] = NoSale /\ Stocked(sale'[j].items)
          \/ sale'[j] = sale[j]
    BY <1>0, <2>1, <2>2 DEF Typed
  <2> QED
    BY <1>0, <1>4, <2>3, <2>4, <2>5, FinishStep DEF CommitSale, Typed
<1>5. ASSUME NEW c \in Clients, CancelSale(c) PROVE IInv'
  <2> DEFINE q == [req[c] EXCEPT !.pc = "increment"]
  <2>1. q \in Request /\ req' = [req EXCEPT ![c] = q] /\ UNCHANGED tables
    <3>1. q \in Request
      BY <1>0 DEF Request, Labels
    <3>2. req' = [req EXCEPT ![c] = q] /\ UNCHANGED tables
      BY <1>5 DEF CancelSale
    <3> QED
      BY <3>1, <3>2
  <2>2. /\ req'[c] = q /\ q.locked = req[c].locked
        /\ q.pc = "increment" /\ q.cart = req[c].cart /\ q.on = req[c].on
    BY <1>0, <2>1 DEF Typed, Request
  <2> HIDE DEF q
  <2>3. InHand(c)'
    BY <1>0, <1>5, <2>1, <2>2 DEF CancelSale, InHand, At, Cancelling, tables
  <2> QED
    BY <2>1, <2>3, RequestStep
<1>6. ASSUME NEW c \in Clients, CommitCancel(c) PROVE IInv'
  <2>1. /\ req[c].on \in SaleIds /\ sale[req[c].on] # NoSale
        /\ sale[req[c].on].items = req[c].cart /\ req[c].cart \in Carts
    BY <1>0, <1>6, RowsAreSales DEF CommitCancel, InHand, Cancelling
  <2>2. stock' \in [Products -> Int]
    <3>1. \A p \in Products : Quantity(req[c].cart, p) \in Int
      BY <2>1, QuantityIsBounded, QuantityAssumption
    <3> QED
      BY <3>1, <1>0, <1>6 DEF CommitCancel, Typed
  <2>3. sale[req[c].on] \in [status : {"COMPLETED", "CANCELLED"}, items : Carts]
    BY <1>0, <2>1 DEF Typed, SaleRow
  <2> DEFINE row == [sale[req[c].on] EXCEPT !.status = "CANCELLED"]
  <2>4. /\ row \in SaleRow /\ row # NoSale /\ row.items = sale[req[c].on].items
        /\ sale' = [sale EXCEPT ![req[c].on] = row]
    BY <2>3, <1>6 DEF CommitCancel, SaleRow, NoSale, Nothing
  <2> HIDE DEF row
  <2>5. /\ sale' \in [SaleIds -> SaleRow]
        /\ \A j \in SaleIds : sale'[j].items = sale[j].items /\ (sale[j] # NoSale => sale'[j] # NoSale)
    BY <1>0, <2>4 DEF Typed
  <2> QED
    BY <1>0, <1>6, <2>2, <2>5, FinishStep DEF CommitCancel, Typed
<1>7. ASSUME NEW c \in Clients, FindProduct(c) PROVE IInv'
  <2>1. PICK p \in Products :
          /\ product[p] = "live"
          /\ req' = [req EXCEPT ![c] = [IdleRequest EXCEPT
                       !.pc = "productFound", !.on = p, !.seen = stock[p]]]
          /\ UNCHANGED tables
    BY <1>7 DEF FindProduct
  <2> DEFINE q == [IdleRequest EXCEPT !.pc = "productFound", !.on = p, !.seen = stock[p]]
  <2>2. /\ q \in Request /\ q.pc = "productFound" /\ q.on = p
        /\ q.locked <= Len(q.cart)
    BY <1>0, IdleIsRequest DEF Typed, IdleRequest, Request, Labels, Nothing
  <2>3. req'[c] = q
    BY <2>1, <1>0 DEF Typed
  <2> HIDE DEF q
  <2>4. InHand(c)'
    BY <2>1, <2>2, <2>3 DEF InHand, At, Cancelling, tables
  <2> QED
    BY <2>1, <2>2, <2>4, RequestStep DEF q
<1>8. ASSUME NEW c \in Clients, SetStock(c) PROVE IInv'
  <2>1. req[c].on \in Products
    BY <1>0, <1>8 DEF SetStock, InHand
  <2>2. /\ stock' \in [Products -> Int] /\ supplied' \in [Products -> Int]
        /\ overwritten' \subseteq Products
    <3>1. req[c].seen \in Int
      BY <1>0 DEF Request
    <3> QED
      BY <1>0, <1>8, <2>1, <3>1, StockAssumption DEF SetStock, Typed
  <2> QED
    BY <1>0, <1>8, <2>2, FinishStep DEF SetStock, Typed
<1>9. ASSUME NEW c \in Clients, RemoveProduct(c) PROVE IInv'
  <2>1. /\ product' \in [Products -> {"absent", "live", "deleted"}]
        /\ \A p \in Products : product[p] # "absent" => product'[p] # "absent"
    BY <1>0, <1>9 DEF RemoveProduct, Typed
  <2> QED
    BY <1>0, <1>9, <2>1, FinishStep DEF RemoveProduct, Typed
<1>10. ASSUME NEW c \in Clients, CreateProduct(c) PROVE IInv'
  <2>1. /\ stock' \in [Products -> Int] /\ supplied' \in [Products -> Int]
        /\ product' \in [Products -> {"absent", "live", "deleted"}]
        /\ \A p \in Products : product[p] # "absent" => product'[p] # "absent"
        /\ UNCHANGED <<sale, req, overwritten>>
    BY <1>0, <1>10, StockAssumption DEF CreateProduct, Typed
  <2>2. ASSUME NEW cart \in Carts \cup {<<>>}, Stocked(cart)
        PROVE  \A k \in 1..Len(cart) : product'[cart[k].product] # "absent"
    BY <2>1, <2>2, CartsAreSequences DEF Stocked
  <2>3. \A i \in SaleIds : Stocked(sale[i].items)'
    BY <1>0, <2>1, <2>2, RowsAreSales DEF Stocked
  <2>4. ASSUME NEW d \in Clients PROVE InHand(d)'
    <3>1. At(d, "decrement") => Stocked(req[d].cart)'
      BY <1>0, <2>1, <2>2 DEF InHand, Stocked
    <3> QED
      BY <1>0, <2>1, <3>1 DEF InHand, At, Cancelling
  <2> QED
    BY <1>0, <2>1, <2>3, <2>4 DEF IInv, Typed
<1>11. ASSUME NEW c \in Clients, AbortVictim(c) \/ Fail(c) PROVE IInv'
  BY <1>0, <1>11, FinishStep DEF AbortVictim, Fail, tables, Typed
<1>12. CASE UNCHANGED vars
  BY <1>12 DEF IInv, Typed, InHand, Stocked, At, Cancelling, vars
<1> QED
  BY <1>1, <1>2, <1>3, <1>4, <1>5, <1>6, <1>7, <1>8, <1>9, <1>10, <1>11, <1>12
  DEF Next, SaleStep, InventoryStep

LEMMA InvHolds == Spec => []IInv
BY InitInv, StepInv, PTL DEF Spec

(* The stock and the sales have their types: a sale has the items of one   *)
(* request, and a transaction has updated at most the items of its cart.   *)
THEOREM TypesHold == Spec => []TypeOK
<1>1. IInv => TypeOK
  BY RowsAreSales, CartsAreSequences DEF IInv, Typed, InHand, Request, TypeOK
<1> QED
  BY <1>1, InvHolds, PTL

------------------------------------------------------------------------------

(* No two requests of one sale are between the check of its status and the *)
(* end of the transaction: the code does not see to it.                    *)
NoDoubleCancel ==
  \A c, d \in Clients :
    Cancelling(c) /\ Cancelling(d) /\ req[c].on = req[d].on => c = d

(* Then a sale that is being cancelled is one that was not yet.            *)
NotYetCancelled == \A c \in Clients : Cancelling(c) => sale[req[c].on].status = "COMPLETED"

Ledger == NotYetCancelled /\ StockMatchesSales

LEMMA InitLedger == Init => Ledger
<1> SUFFICES ASSUME Init PROVE Ledger
  OBVIOUS
<1>1. NotYetCancelled
  BY DEF Init, NotYetCancelled, Cancelling, At, IdleRequest
<1>2. ASSUME NEW p \in Products PROVE stock[p] = supplied[p] - Sold(p)
  <2>1. UnitsSold(p) = {}
    BY DEF Init, UnitsSold, NoSale, Nothing
  <2>2. Sold(p) = 0
    BY <2>1, FS_EmptySet DEF Sold
  <2> QED
    BY <2>2, InitInv DEF Init, IInv, Typed
<1> QED
  BY <1>1, <1>2 DEF Ledger, StockMatchesSales

(* The sales stay: so do the units sold.                                   *)
LEMMA SalesStay ==
  ASSUME UNCHANGED sale, NEW p \in Products
  PROVE  Sold(p)' = Sold(p)
BY DEF Sold, UnitsSold

(* A sale that is committed sells the items of its cart ...                *)
LEMMA SaleSells ==
  ASSUME IInv, NEW i \in SaleIds, NEW cart \in Carts, sale[i] = NoSale,
         sale' = [sale EXCEPT ![i] = [status |-> "COMPLETED", items |-> cart]], NEW p \in Products
  PROVE  Sold(p)' = Sold(p) + Quantity(cart, p)
<1>1. Quantity(cart, p) \in Nat
  BY QuantityIsBounded, QuantityAssumption
<1>2. /\ sale'[i].status = "COMPLETED" /\ sale'[i].items = cart /\ sale[i].status # "COMPLETED"
      /\ \A j \in SaleIds \ {i} : sale'[j] = sale[j]
  BY DEF IInv, Typed, NoSale, Nothing
<1>3. \A u : <<i, u>> \notin UnitsSold(p)
  BY <1>2 DEF UnitsSold
<1>4. UnitsSold(p)' = UnitsSold(p) \cup ({i} \X (1..Quantity(cart, p)))
  BY <1>2 DEF UnitsSold
<1>5. IsFiniteSet(UnitsSold(p))
  BY UnitsAreFinite DEF IInv
<1>6. Cardinality(UnitsSold(p) \cup ({i} \X (1..Quantity(cart, p))))
        = Cardinality(UnitsSold(p)) + Quantity(cart, p)
  BY <1>1, <1>3, <1>5, UnitsAdded
<1> QED
  BY <1>4, <1>6 DEF Sold

(* ... and one that is cancelled no longer does.                           *)
LEMMA CancelReturns ==
  ASSUME IInv, NEW i \in SaleIds, sale[i].status = "COMPLETED",
         sale' = [sale EXCEPT ![i].status = "CANCELLED"], NEW p \in Products
  PROVE  Sold(p) = Sold(p)' + Quantity(sale[i].items, p)
<1>0. sale[i] \in [status : {"COMPLETED", "CANCELLED"}, items : Carts]
  BY RowsAreSales DEF IInv, Typed, SaleRow
<1>1. Quantity(sale[i].items, p) \in Nat
  BY <1>0, QuantityIsBounded, QuantityAssumption
<1>2. sale'[i].status # "COMPLETED" /\ \A j \in SaleIds \ {i} : sale'[j] = sale[j]
  BY <1>0 DEF IInv, Typed
<1>3. \A u : <<i, u>> \notin UnitsSold(p)'
  BY <1>2 DEF UnitsSold
<1>4. UnitsSold(p) = UnitsSold(p)' \cup ({i} \X (1..Quantity(sale[i].items, p)))
  BY <1>2 DEF UnitsSold
<1>5. IsFiniteSet(UnitsSold(p)) /\ UnitsSold(p)' \subseteq UnitsSold(p)
  BY <1>4, UnitsAreFinite DEF IInv
<1>6. IsFiniteSet(UnitsSold(p)')
  BY <1>5, FS_Subset
<1>7. Cardinality(UnitsSold(p)' \cup ({i} \X (1..Quantity(sale[i].items, p))))
        = Cardinality(UnitsSold(p)') + Quantity(sale[i].items, p)
  BY <1>1, <1>3, <1>6, UnitsAdded
<1> QED
  BY <1>4, <1>7 DEF Sold

LEMMA NothingSold ==
  ASSUME IInv, NEW p \in Products, product[p] = "absent"
  PROVE  Sold(p) = 0
<1>1. ASSUME NEW i \in SaleIds PROVE 1..Quantity(sale[i].items, p) = {}
  <2>1. sale[i].items \in Carts \cup {<<>>} /\ Stocked(sale[i].items)
    BY RowsAreSales DEF IInv
  <2>2. ~(Quantity(sale[i].items, p) > 0) /\ Quantity(sale[i].items, p) \in 0..MaxQuantity
    BY <2>1, QuantityIsBounded DEF Stocked
  <2> QED
    BY <2>2, QuantityAssumption
<1>2. UnitsSold(p) = {}
  BY <1>1 DEF UnitsSold
<1> QED
  BY <1>2, FS_EmptySet DEF Sold

(* A step that leaves the stock and the sales alone keeps the ledger.      *)
LEMMA LedgerStays ==
  ASSUME Ledger, UNCHANGED <<stock, sale, supplied, overwritten>>, NotYetCancelled'
  PROVE  Ledger'
BY SalesStay DEF Ledger, StockMatchesSales

LEMMA StepLedger == IInv /\ NoDoubleCancel /\ Ledger /\ [Next]_vars => Ledger'
<1> SUFFICES ASSUME IInv, NoDoubleCancel, Ledger, [Next]_vars PROVE Ledger'
  OBVIOUS
<1>0. /\ Typed
      /\ \A d \in Clients : InHand(d) /\ req[d] \in Request
      /\ \A p \in Products : Sold(p) \in Nat /\ stock[p] \in Int /\ supplied[p] \in Int
  BY UnitsAreFinite DEF IInv, Typed
<1>1. ASSUME NEW c \in Clients, CheckCancel(c) PROVE Ledger'
  <2>1. PICK i \in SaleIds :
          /\ sale[i].status = "COMPLETED" /\ UNCHANGED tables
          /\ req'[c].on = i /\ \A d \in Clients \ {c} : req'[d] = req[d]
    BY <1>0, <1>1 DEF CheckCancel, Typed, IdleRequest
  <2>2. NotYetCancelled'
    BY <2>1 DEF Ledger, NotYetCancelled, Cancelling, At, tables
  <2> QED
    BY <2>1, <2>2, LedgerStays DEF tables
<1>2. ASSUME NEW c \in Clients, CommitSale(c) PROVE Ledger'
  <2>1. PICK i \in SaleIds :
          /\ sale[i] = NoSale
          /\ sale' = [sale EXCEPT ![i] = [status |-> "COMPLETED", items |-> req[c].cart]]
    BY <1>2 DEF CommitSale
  <2>2. req[c].cart \in Carts
    BY <1>0, <1>2 DEF CommitSale, InHand
  <2>3. NotYetCancelled'
    BY <1>0, <1>2, <2>1
    DEF CommitSale, Finish, Typed, Ledger, NotYetCancelled, Cancelling, At, InHand, IdleRequest
  <2>4. ASSUME NEW p \in Products \ overwritten PROVE stock'[p] = supplied'[p] - Sold(p)'
    <3>1. Sold(p)' = Sold(p) + Quantity(req[c].cart, p) /\ Quantity(req[c].cart, p) \in Int
      <4>1. Sold(p)' = Sold(p) + Quantity(req[c].cart, p)
        BY <2>1, <2>2, SaleSells
      <4> QED
        BY <2>2, <4>1, QuantityIsBounded, QuantityAssumption
    <3>2. stock'[p] = stock[p] - Quantity(req[c].cart, p) /\ supplied'[p] = supplied[p]
      BY <1>0, <1>2 DEF CommitSale, Typed
    <3>3. stock[p] = supplied[p] - Sold(p)
      BY DEF Ledger, StockMatchesSales
    <3> QED
      BY <1>0, <3>1, <3>2, <3>3
  <2> QED
    BY <1>2, <2>3, <2>4 DEF CommitSale, Ledger, StockMatchesSales
<1>3. ASSUME NEW c \in Clients, CommitCancel(c) PROVE Ledger'
  <2>1. /\ req[c].on \in SaleIds /\ sale[req[c].on].status = "COMPLETED"
        /\ sale[req[c].on].items = req[c].cart /\ req[c].cart \in Carts
        /\ sale' = [sale EXCEPT ![req[c].on].status = "CANCELLED"]
    BY <1>0, <1>3, RowsAreSales DEF CommitCancel, InHand, Ledger, NotYetCancelled, Cancelling
  <2>2. ASSUME NEW d \in Clients, Cancelling(d)' PROVE sale'[req'[d].on].status = "COMPLETED"
    <3>1. d # c /\ req'[d] = req[d] /\ Cancelling(d)
      BY <1>0, <1>3, <2>2 DEF CommitCancel, Finish, Typed, Cancelling, At, IdleRequest
    <3>2. req[d].on # req[c].on
      BY <1>3, <3>1 DEF NoDoubleCancel, CommitCancel, Cancelling
    <3> QED
      BY <1>0, <2>1, <3>1, <3>2 DEF Ledger, NotYetCancelled, Typed, InHand
  <2>3. ASSUME NEW p \in Products \ overwritten PROVE stock'[p] = supplied'[p] - Sold(p)'
    <3>1. Sold(p) = Sold(p)' + Quantity(req[c].cart, p)
      BY <2>1, CancelReturns
    <3>2. stock'[p] = stock[p] + Quantity(req[c].cart, p) /\ supplied'[p] = supplied[p]
      BY <1>0, <1>3 DEF CommitCancel, Typed
    <3>3. stock[p] = supplied[p] - Sold(p)
      BY DEF Ledger, StockMatchesSales
    <3>4. IInv' /\ Quantity(req[c].cart, p) \in Int
      BY <2>1, StepInv, QuantityIsBounded, QuantityAssumption
    <3>5. Sold(p)' \in Int
      <4>1. \A i \in SaleIds \ {req[c].on} : sale'[i] = sale[i]
        BY <1>0, <2>1 DEF Typed
      <4>2. sale'[req[c].on].status # "COMPLETED"
        BY <1>0, <2>1, RowsAreSales DEF Typed, SaleRow
      <4>3. UnitsSold(p)' \subseteq UnitsSold(p)
        BY <4>1, <4>2 DEF UnitsSold
      <4> QED
        BY <4>3, <1>0, UnitsAreFinite, FS_Subset, FS_CardinalityType DEF Sold
    <3> QED
      BY <1>0, <3>1, <3>2, <3>3, <3>4, <3>5
  <2> QED
    BY <1>3, <2>2, <2>3 DEF CommitCancel, Ledger, StockMatchesSales, NotYetCancelled
<1>4. ASSUME NEW c \in Clients, SetStock(c) PROVE Ledger'
  <2>1. NotYetCancelled'
    BY <1>0, <1>4 DEF SetStock, Finish, Typed, Ledger, NotYetCancelled, Cancelling, At, IdleRequest
(* An edit from a number that still was the stock supplies the difference. *)
  <2>2. ASSUME NEW p \in Products \ overwritten' PROVE stock'[p] = supplied'[p] - Sold(p)'
    <3>1. p \notin overwritten /\ (p = req[c].on => stock[p] = req[c].seen)
      BY <1>4, <2>2 DEF SetStock
    <3>2. Sold(p)' = Sold(p) /\ stock[p] = supplied[p] - Sold(p)
      BY <1>4, <3>1, SalesStay DEF SetStock, Ledger, StockMatchesSales
    <3>3. PICK n \in StockLevels :
            /\ stock' = [stock EXCEPT ![req[c].on] = n]
            /\ supplied' = [supplied EXCEPT ![req[c].on] = @ + (n - req[c].seen)]
      BY <1>4 DEF SetStock
    <3>4. n \in Int /\ req[c].seen \in Int
      BY <1>0, StockAssumption DEF Request
    <3>5. CASE p = req[c].on
      BY <1>0, <3>1, <3>2, <3>3, <3>4, <3>5 DEF Typed
    <3>6. CASE p # req[c].on
      BY <1>0, <3>2, <3>3, <3>6 DEF Typed
    <3> QED
      BY <3>5, <3>6
  <2> QED
    BY <2>1, <2>2 DEF Ledger, StockMatchesSales
<1>5. ASSUME NEW c \in Clients, CreateProduct(c) PROVE Ledger'
  <2>1. NotYetCancelled'
    BY <1>0, <1>5 DEF CreateProduct, Ledger, NotYetCancelled, Cancelling, At
  <2>2. PICK p \in Products, n \in StockLevels :
          /\ product[p] = "absent"
          /\ stock' = [stock EXCEPT ![p] = n]
          /\ supplied' = [supplied EXCEPT ![p] = n]
          /\ UNCHANGED <<sale, overwritten>>
    BY <1>5 DEF CreateProduct
  <2>3. Sold(p) = 0
    BY <2>2, NothingSold
  <2>4. ASSUME NEW r \in Products \ overwritten PROVE stock'[r] = supplied'[r] - Sold(r)'
    <3>1. Sold(r)' = Sold(r) /\ stock[r] = supplied[r] - Sold(r)
      BY <2>2, SalesStay DEF Ledger, StockMatchesSales
    <3> QED
      BY <1>0, <2>2, <2>3, <3>1, StockAssumption DEF Typed
  <2> QED
    BY <2>1, <2>2, <2>4 DEF Ledger, StockMatchesSales
<1>6. ASSUME NEW c \in Clients,
             \/ CheckSale(c) \/ FindProduct(c) \/ UpdateStock(c) \/ CancelSale(c)
             \/ RemoveProduct(c) \/ AbortVictim(c) \/ Fail(c)
      PROVE  Ledger'
  <2>1. /\ UNCHANGED <<stock, sale, supplied, overwritten>>
        /\ \A d \in Clients \ {c} : req'[d] = req[d]
        /\ Cancelling(c)' => Cancelling(c) /\ req'[c].on = req[c].on
    <3>1. CASE CheckSale(c)
      BY <1>0, <3>1 DEF CheckSale, Typed, Cancelling, At, IdleRequest, tables
    <3>2. CASE FindProduct(c)
      BY <1>0, <3>2 DEF FindProduct, Typed, Cancelling, At, IdleRequest, tables
    <3>3. CASE UpdateStock(c)
      BY <1>0, <3>3 DEF UpdateStock, Typed, Request, Cancelling, At, tables
    <3>4. CASE CancelSale(c)
      BY <1>0, <3>4 DEF CancelSale, Typed, Request, Cancelling, At, tables
    <3>5. CASE RemoveProduct(c) \/ AbortVictim(c) \/ Fail(c)
      BY <1>0, <3>5
      DEF RemoveProduct, AbortVictim, Fail, Finish, Typed, Cancelling, At, IdleRequest, tables
    <3> QED
      BY <1>6, <3>1, <3>2, <3>3, <3>4, <3>5
  <2>2. NotYetCancelled'
    BY <2>1 DEF Ledger, NotYetCancelled, Cancelling, At
  <2> QED
    BY <2>1, <2>2, LedgerStays
<1>7. CASE UNCHANGED vars
  BY <1>7, SalesStay DEF Ledger, NotYetCancelled, StockMatchesSales, Cancelling, At, vars
<1> QED
  BY <1>1, <1>2, <1>3, <1>4, <1>5, <1>6, <1>7 DEF Next, SaleStep, InventoryStep

(* As long as no two requests cancel one sale at once, the stock of a      *)
(* product that no edit has overwritten is what was supplied less what the *)
(* completed sales sold, whatever transactions fail, deadlock or oversell. *)
THEOREM StockIsAccounted == Spec /\ []NoDoubleCancel => []StockMatchesSales
<1>1. Ledger => StockMatchesSales
  BY DEF Ledger
<1> QED
  BY <1>1, InvHolds, InitLedger, StepLedger, PTL DEF Spec

(* In particular when one client does all the cancellations.               *)
THEOREM OneCancellerIsEnough ==
  ASSUME \A c, d \in Cancellers : c = d
  PROVE  Spec => []StockMatchesSales
<1>1. IInv => NoDoubleCancel
  BY DEF IInv, InHand, NoDoubleCancel
<1> QED
  BY <1>1, InvHolds, StockIsAccounted, PTL

------------------------------------------------------------------------------

(* The clerks whose transaction sells product p: each may still take its   *)
(* quantity below what the stock was when it was checked.                  *)
Selling(p) == {c \in Clients : At(c, "decrement") /\ Quantity(req[c].cart, p) > 0}

LowWater(p) ==
  stock[p] >= -((Cardinality(SalesClerks) - Cardinality(Selling(p))) * MaxQuantity)

LEMMA SellersAreClerks ==
  ASSUME IInv, NEW p \in Products
  PROVE  /\ IsFiniteSet(Selling(p)) /\ Selling(p) \subseteq SalesClerks
         /\ Cardinality(Selling(p)) \in Nat /\ Cardinality(SalesClerks) \in Nat
         /\ Cardinality(Selling(p)) <= Cardinality(SalesClerks)
<1>1. Selling(p) \subseteq SalesClerks
  BY DEF IInv, InHand, Selling
<1> QED
  BY <1>1, FiniteAssumption, FS_Subset, FS_CardinalityType

LEMMA LowWaterMark ==
  ASSUME NEW n \in Nat, NEW k \in 0..n, NEW max \in Nat
  PROVE  /\ (n - k) * max \in Nat
         /\ k < n => (n - (k + 1)) * max + max = (n - k) * max
         /\ (n - k) * max <= n * max
OBVIOUS

LowWaterHolds == \A p \in Products : LowWater(p)

LEMMA InitLowWater == Init => LowWaterHolds
<1> SUFFICES ASSUME Init, NEW p \in Products PROVE LowWater(p)
  BY DEF LowWaterHolds
<1>1. Selling(p) = {}
  BY DEF Init, Selling, At, IdleRequest
<1>2. stock[p] \in Nat /\ Cardinality(SalesClerks) \in Nat
  BY StockAssumption, FiniteAssumption, FS_CardinalityType DEF Init
<1>3. (Cardinality(SalesClerks) - 0) * MaxQuantity \in Nat
  BY <1>2, LowWaterMark, QuantityAssumption
<1> QED
  BY <1>1, <1>2, <1>3, FS_EmptySet DEF LowWater

(* A clerk that starts to sell has seen the stock not below zero.          *)
LEMMA StartsSelling ==
  ASSUME IInv, IInv', NEW p \in Products, stock'[p] >= 0, stock'[p] \in Int
  PROVE  LowWater(p)'
<1>1. Selling(p)' \subseteq SalesClerks
  BY DEF IInv, InHand, Selling
<1>2. /\ Cardinality(Selling(p)') \in 0..Cardinality(SalesClerks)
      /\ Cardinality(SalesClerks) \in Nat
  BY <1>1, FiniteAssumption, FS_Subset, FS_CardinalityType
<1>3. (Cardinality(SalesClerks) - Cardinality(Selling(p)')) * MaxQuantity \in Nat
  BY <1>2, LowWaterMark, QuantityAssumption
<1> QED
  BY <1>3 DEF LowWater

(* The bound stays when the stock does not fall and no clerk starts ...    *)
LEMMA LowWaterStays ==
  ASSUME IInv, NEW p \in Products, LowWater(p), stock'[p] >= stock[p], stock'[p] \in Int,
         Selling(p)' \subseteq Selling(p)
  PROVE  LowWater(p)'
<1> DEFINE n == Cardinality(SalesClerks)
<1> DEFINE k == Cardinality(Selling(p))
<1> DEFINE m == Cardinality(Selling(p)')
<1>1. n \in Nat /\ k \in 0..n /\ m \in 0..k
  BY SellersAreClerks, FS_Subset, FS_CardinalityType
<1>2. stock[p] >= -((n - k) * MaxQuantity) /\ stock[p] \in Int
  BY DEF LowWater, IInv, Typed
<1> HIDE DEF n, k, m
<1>3. (n - k) * MaxQuantity <= (n - m) * MaxQuantity
  BY <1>1, QuantityAssumption
<1>4. stock'[p] >= -((n - m) * MaxQuantity)
  BY <1>1, <1>2, <1>3, QuantityAssumption
<1> QED
  BY <1>4 DEF LowWater, n, m

(* ... and falls by no more than a quantity when one of them has sold.     *)
LEMMA LowWaterFalls ==
  ASSUME IInv, NEW p \in Products, LowWater(p), NEW c \in Selling(p),
         Selling(p)' = Selling(p) \ {c}, NEW q \in 0..MaxQuantity, stock'[p] = stock[p] - q
  PROVE  LowWater(p)'
<1> DEFINE n == Cardinality(SalesClerks)
<1> DEFINE k == Cardinality(Selling(p))
<1> DEFINE m == Cardinality(Selling(p)')
<1>1. n \in Nat /\ k \in 0..n /\ m \in Nat /\ m + 1 = k
  <2>1. n \in Nat /\ k \in 0..n /\ IsFiniteSet(Selling(p))
    BY SellersAreClerks
  <2>2. Cardinality(Selling(p) \ {c}) = k - 1 /\ IsFiniteSet(Selling(p) \ {c})
    BY <2>1, FS_RemoveElement
  <2>3. Cardinality(Selling(p) \ {c}) \in Nat
    BY <2>2, FS_CardinalityType
  <2> QED
    BY <2>1, <2>2, <2>3
<1>2. stock[p] >= -((n - k) * MaxQuantity) /\ stock[p] \in Int
  BY DEF LowWater, IInv, Typed
<1> HIDE DEF n, k, m
<1>3. (n - k) * MaxQuantity + MaxQuantity = (n - m) * MaxQuantity
  BY <1>1, LowWaterMark, QuantityAssumption
<1>4. stock'[p] >= -((n - m) * MaxQuantity)
  BY <1>1, <1>2, <1>3, QuantityAssumption
<1> QED
  BY <1>4 DEF LowWater, n, m

LEMMA StepLowWater == IInv /\ LowWaterHolds /\ [Next]_vars => LowWaterHolds'
<1> SUFFICES ASSUME IInv, [Next]_vars, NEW p \in Products, LowWater(p)
             PROVE  LowWater(p)'
  BY DEF LowWaterHolds
<1>0. /\ IInv' /\ Typed /\ stock[p] \in Int
      /\ \A d \in Clients : InHand(d) /\ req[d] \in Request
      /\ \A cart \in Carts \cup {<<>>} : Quantity(cart, p) \in 0..MaxQuantity
  BY StepInv, QuantityIsBounded DEF IInv, Typed
(* A request that ends, or holds no cart of a sale, sells nothing.         *)
<1>1. ASSUME NEW c \in Clients, \A d \in Clients \ {c} : req'[d] = req[d],
             req'[c].pc = "decrement" => At(c, "decrement") /\ req'[c].cart = req[c].cart
      PROVE  Selling(p)' \subseteq Selling(p)
  BY <1>1 DEF Selling, At
<1>2. ASSUME NEW c \in Clients, CheckSale(c) PROVE LowWater(p)'
  <2>1. PICK cart \in Carts :
          /\ \A k \in 1..Len(cart) : stock[cart[k].product] >= cart[k].quantity
          /\ req' = [req EXCEPT ![c] = [IdleRequest EXCEPT !.pc = "decrement", !.cart = cart]]
          /\ UNCHANGED stock
    BY <1>2 DEF CheckSale, tables
  <2>2. CASE \E k \in 1..Len(cart) : cart[k].product = p
    <3>1. stock'[p] >= 0
      BY <2>1, <2>2, <1>0, CartsAreSequences
    <3> QED
      BY <1>0, <2>1, <3>1, StartsSelling
  <2>3. CASE ~\E k \in 1..Len(cart) : cart[k].product = p
    <3>1. ~(Quantity(cart, p) > 0)
      BY <2>3, QuantityIsBounded
    <3>2. req'[c].cart = cart /\ \A d \in Clients \ {c} : req'[d] = req[d]
      BY <1>0, <2>1 DEF Typed, IdleRequest
    <3>3. Selling(p)' \subseteq Selling(p)
      BY <3>1, <3>2 DEF Selling, At
    <3> QED
      BY <1>0, <2>1, <3>3, LowWaterStays
  <2> QED
    BY <2>2, <2>3
<1>3. ASSUME NEW c \in Clients, CommitSale(c) PROVE LowWater(p)'
  <2> DEFINE q == Quantity(req[c].cart, p)
  <2>1. q \in 0..MaxQuantity /\ stock'[p] = stock[p] - q /\ stock'[p] \in Int
    BY <1>0, <1>3, QuantityAssumption DEF CommitSale, Typed, Request
  <2>2. At(c, "decrement") /\ ~At(c, "decrement")' /\ \A d \in Clients \ {c} : req'[d] = req[d]
    BY <1>0, <1>3 DEF CommitSale, Finish, Typed, At, IdleRequest
  <2>3. CASE q > 0
    <3>1. c \in Selling(p) /\ Selling(p)' = Selling(p) \ {c}
      BY <2>2, <2>3 DEF Selling, At
    <3> HIDE DEF q
    <3> QED
      BY <2>1, <3>1, LowWaterFalls
  <2>4. CASE q = 0
    <3>1. Selling(p)' \subseteq Selling(p)
      BY <2>2 DEF Selling, At
    <3> QED
      BY <1>0, <2>1, <2>4, <3>1, LowWaterStays
  <2> HIDE DEF q
  <2> QED
    BY <2>1, <2>3, <2>4, QuantityAssumption
<1>4. ASSUME NEW c \in Clients, SetStock(c) \/ CreateProduct(c) PROVE LowWater(p)'
  <2>1. (stock'[p] >= 0 \/ stock'[p] >= stock[p]) /\ stock'[p] \in Int
    BY <1>0, <1>4, StockAssumption DEF SetStock, CreateProduct, Typed
  <2>2. Selling(p)' \subseteq Selling(p)
    <3>1. CASE SetStock(c)
      BY <1>0, <1>1, <3>1 DEF SetStock, Finish, Typed, IdleRequest
    <3>2. CASE CreateProduct(c)
      BY <3>2 DEF CreateProduct, Selling, At
    <3> QED
      BY <1>4, <3>1, <3>2
  <2> QED
    BY <1>0, <2>1, <2>2, StartsSelling, LowWaterStays
<1>5. ASSUME NEW c \in Clients, CommitCancel(c) PROVE LowWater(p)'
  <2>1. stock'[p] >= stock[p] /\ stock'[p] \in Int
    <3>1. Quantity(req[c].cart, p) \in 0..MaxQuantity
      BY <1>0 DEF Request
    <3> QED
      BY <1>0, <1>5, <3>1, QuantityAssumption DEF CommitCancel, Typed
  <2>2. Selling(p)' \subseteq Selling(p)
    BY <1>0, <1>1, <1>5 DEF CommitCancel, Finish, Typed, IdleRequest
  <2> QED
    BY <2>1, <2>2, LowWaterStays
<1>6. ASSUME NEW c \in Clients,
             \/ CheckCancel(c) \/ FindProduct(c) \/ UpdateStock(c) \/ CancelSale(c)
             \/ RemoveProduct(c) \/ AbortVictim(c) \/ Fail(c)
      PROVE  LowWater(p)'
  <2>1. /\ UNCHANGED stock
        /\ \A d \in Clients \ {c} : req'[d] = req[d]
        /\ req'[c].pc = "decrement" => At(c, "decrement") /\ req'[c].cart = req[c].cart
    <3>1. CASE CheckCancel(c)
      BY <1>0, <3>1 DEF CheckCancel, Typed, At, IdleRequest, tables
    <3>2. CASE FindProduct(c)
      BY <1>0, <3>2 DEF FindProduct, Typed, At, IdleRequest, tables
    <3>3. CASE UpdateStock(c)
      BY <1>0, <3>3 DEF UpdateStock, Typed, Request, At, tables
    <3>4. CASE CancelSale(c)
      BY <1>0, <3>4 DEF CancelSale, Typed, Request, At, tables
    <3>5. CASE RemoveProduct(c) \/ AbortVictim(c) \/ Fail(c)
      BY <1>0, <3>5 DEF RemoveProduct, AbortVictim, Fail, Finish, Typed, At, IdleRequest, tables
    <3> QED
      BY <1>6, <3>1, <3>2, <3>3, <3>4, <3>5
  <2> QED
    BY <1>0, <1>1, <2>1, LowWaterStays
<1>7. CASE UNCHANGED vars
  BY <1>0, <1>7, LowWaterStays DEF Selling, At, vars
<1> QED
  BY <1>2, <1>3, <1>4, <1>5, <1>6, <1>7 DEF Next, SaleStep, InventoryStep

(* However many requests run, no product is oversold by more than one      *)
(* quantity for each clerk, as the unguarded decrement of a clerk follows  *)
(* its own check of the stock.                                             *)
THEOREM OversellHasABound == Spec => []OversellIsBounded
<1>1. IInv /\ LowWaterHolds => OversellIsBounded
  <2> SUFFICES ASSUME IInv, NEW p \in Products, LowWater(p)
               PROVE  stock[p] >= -(Cardinality(SalesClerks) * MaxQuantity)
    BY DEF OversellIsBounded, LowWaterHolds
  <2> DEFINE n == Cardinality(SalesClerks)
  <2> DEFINE k == Cardinality(Selling(p))
  <2>1. n \in Nat /\ k \in 0..n /\ stock[p] \in Int /\ stock[p] >= -((n - k) * MaxQuantity)
    BY SellersAreClerks DEF LowWater, IInv, Typed
  <2> HIDE DEF n, k
  <2>2. /\ (n - k) * MaxQuantity <= n * MaxQuantity
        /\ (n - k) * MaxQuantity \in Nat /\ n * MaxQuantity \in Nat
    BY <2>1, LowWaterMark, QuantityAssumption
  <2>3. stock[p] >= -(n * MaxQuantity)
    BY <2>1, <2>2
  <2> QED
    BY <2>3 DEF n
<1> QED
  BY <1>1, InvHolds, InitLowWater, StepLowWater, PTL DEF Spec
==============================================================================
