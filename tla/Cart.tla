-------------------------------- MODULE Cart --------------------------------
(***************************************************************************)
(* CartService and the product statements it meets in PostgreSQL.  Every   *)
(* statement outside checkout commits on its own; checkout is one READ     *)
(* COMMITTED transaction that takes row locks with FOR UPDATE.  A request  *)
(* whose first statement already refuses it leaves no trace and is not a   *)
(* step.  Whether the row of carts exists is not kept: each operation      *)
(* answers alike for a missing and for an empty cart.                      *)
(***************************************************************************)
EXTENDS Integers, FiniteSets, Sequences

CONSTANTS
    Workers,        \* threads that run requests
    Users,
    Products,
    Quantities,     \* quantities a request may name
    Stocks,         \* stock an administrator may save: any integer, there is
                    \* no CHECK
    Prices,         \* price an administrator may save, likewise
    None,           \* no product left to lock
    MaxOrders       \* bound on the orders placed

ASSUME CartAssumption ==
    /\ Quantities \subseteq Nat \ {0}
    /\ Stocks \subseteq Int
    /\ Prices \subseteq Int
    /\ None \notin Products
    /\ MaxOrders \in Nat

VARIABLES
    catalog,    \* ids of the rows of products
    stock,      \* stock[p], for p in catalog
    price,      \* price[p], for p in catalog
    items,      \* items[u][p]: quantity in u's row of cart_items, 0 for no row
    orders,     \* committed orders with their order_items
    job         \* job[w]: what thread w is doing

vars == <<catalog, stock, price, items, orders, job>>

\* Quantities and sums of money by product.
Amounts == [Products -> Nat]
Money == [Products -> Int]
Zero == [p \in Products |-> 0]

\* lines and paid are the order_items; total holds what the SUM behind the
\* order's total adds up, product by product.
Order == [user : Users, lines : Amounts, paid : Money, total : Money]

Idle == [step |-> "idle"]
Job == [step : {"idle"}]
          \cup [step : {"add"}, user : Users, product : Products,
                qty : Quantities, stock : Int]
          \cup [step : {"put"}, user : Users, product : Products,
                qty : Quantities, stock : Int, had : Nat]
          \cup [step : {"set"}, user : Users, product : Products,
                qty : Quantities]
          \cup [step : {"lock", "ordered", "cleared"}, user : Users,
                lines : Amounts, next : Products \cup {None},
                locked : SUBSET Products, paid : Money,
                total : Money, gone : SUBSET Products]

-----------------------------------------------------------------------------
(* Row locks, held until the transaction ends.                             *)

InTransaction(w) == job[w].step \in {"lock", "ordered", "cleared"}

Of(lines) == {p \in Products : lines[p] > 0}

(* Names ending in "Bug" are faulty variants of the definition after them,  *)
(* used to see that the properties notice.                                 *)

\* SELECT ... FROM cart_items ... FOR UPDATE and DELETE FROM cart_items.
RowLocked(u, p) ==
    \E w \in Workers : /\ InTransaction(w)
                       /\ job[w].user = u
                       /\ p \in Of(job[w].lines) \cup job[w].gone

\* SELECT ... FROM products ... FOR UPDATE.
ProductLocked(p) == \E w \in Workers : InTransaction(w) /\ p \in job[w].locked

Waits(v, w) == /\ job[v].step = "lock"
               /\ InTransaction(w)
               /\ job[v].next \in job[w].locked

\* w is one of a set of transactions each of which waits for another of them.
Deadlocked(w) ==
    \E S \in SUBSET Workers :
        w \in S /\ \A v \in S : \E x \in S \ {v} : Waits(v, x)

-----------------------------------------------------------------------------
Init == /\ catalog = Products
        /\ stock \in [Products -> Stocks]
        /\ price \in [Products -> Prices]
        /\ items = [u \in Users |-> Zero]
        /\ orders = <<>>
        /\ job = [w \in Workers |-> Idle]

\* addToCart: the stock is read first ...
AddToCart(w) ==
    /\ job[w].step = "idle"
    /\ \E u \in Users, p \in catalog, q \in Quantities :
          job' = [job EXCEPT ![w] = [step |-> "add", user |-> u, product |-> p,
                                     qty |-> q, stock |-> stock[p]]]
    /\ UNCHANGED <<catalog, stock, price, items, orders>>

\* What is in the cart is not counted.
CheckStockBug(w) ==
    /\ job[w].step = "add"
    /\ LET j == job[w]
       IN  job' = [job EXCEPT ![w] =
                     IF j.stock < j.qty
                     THEN Idle
                     ELSE [step |-> "put", user |-> j.user,
                           product |-> j.product, qty |-> j.qty,
                           stock |-> j.stock, had |-> items[j.user][j.product]]]
    /\ UNCHANGED <<catalog, stock, price, items, orders>>

\* ... then the quantity already in the cart, and the two are compared ...
CheckStock(w) ==
    /\ job[w].step = "add"
    /\ LET j == job[w]
       IN  job' = [job EXCEPT ![w] =
                     IF j.stock < items[j.user][j.product] + j.qty
                     THEN Idle
                     ELSE [step |-> "put", user |-> j.user,
                           product |-> j.product, qty |-> j.qty,
                           stock |-> j.stock, had |-> items[j.user][j.product]]]
    /\ UNCHANGED <<catalog, stock, price, items, orders>>

\* ... and the row is inserted or incremented.  A new row's foreign key waits
\* for a lock on the product and fails when the product is gone.
PutItem(w) ==
    /\ job[w].step = "put"
    /\ LET u == job[w].user
           p == job[w].product
       IN  /\ ~ RowLocked(u, p)
           /\ items[u][p] = 0 => ~ ProductLocked(p)
           /\ items' = IF p \in catalog
                       THEN [items EXCEPT ![u][p] = @ + job[w].qty]
                       ELSE items
    /\ job' = [job EXCEPT ![w] = Idle]
    /\ UNCHANGED <<catalog, stock, price, orders>>

\* updateQuantity: the stock is read and compared first ...
UpdateQuantity(w) ==
    /\ job[w].step = "idle"
    /\ \E u \in Users, p \in catalog, q \in Quantities :
          /\ stock[p] >= q
          /\ job' = [job EXCEPT ![w] = [step |-> "set", user |-> u,
                                        product |-> p, qty |-> q]]
    /\ UNCHANGED <<catalog, stock, price, items, orders>>

\* ... then the row is updated, if there is one.
SetItem(w) ==
    /\ job[w].step = "set"
    /\ LET u == job[w].user
           p == job[w].product
       IN  /\ ~ RowLocked(u, p)
           /\ items' = IF items[u][p] > 0
                       THEN [items EXCEPT ![u][p] = job[w].qty]
                       ELSE items
    /\ job' = [job EXCEPT ![w] = Idle]
    /\ UNCHANGED <<catalog, stock, price, orders>>

RemoveItem(u, p) ==
    /\ ~ RowLocked(u, p)
    /\ items' = [items EXCEPT ![u][p] = 0]
    /\ UNCHANGED <<catalog, stock, price, orders, job>>

-----------------------------------------------------------------------------
(* checkout                                                                *)

\* The cart is read without FOR UPDATE.
CheckoutBug(w) ==
    /\ job[w].step = "idle"
    /\ Len(orders) + Cardinality({v \in Workers : InTransaction(v)}) < MaxOrders
    /\ \E u \in Users : \E first \in Of(items[u]) :
          job' = [job EXCEPT ![w] =
                    [step |-> "lock", user |-> u, lines |-> items[u],
                     next |-> first, locked |-> {},
                     paid |-> Zero, total |-> Zero, gone |-> {}]]
    /\ UNCHANGED <<catalog, stock, price, items, orders>>

\* BEGIN and the SELECT that reads and locks the rows of the cart.  The rows
\* come in no particular order; next is the product to be locked next.
Checkout(w) ==
    /\ job[w].step = "idle"
    /\ Len(orders) + Cardinality({v \in Workers : InTransaction(v)}) < MaxOrders
    /\ \E u \in Users : \E first \in Of(items[u]) :
          /\ \A p \in Of(items[u]) : ~ RowLocked(u, p)
          /\ job' = [job EXCEPT ![w] =
                       [step |-> "lock", user |-> u, lines |-> items[u],
                        next |-> first, locked |-> {},
                        paid |-> Zero, total |-> Zero, gone |-> {}]]
    /\ UNCHANGED <<catalog, stock, price, items, orders>>

\* The products are read without FOR UPDATE.
LockProductBug(w) ==
    /\ job[w].step = "lock"
    /\ job[w].next # None
    /\ LET j == job[w]
           p == j.next
           locked == j.locked \cup {p}
           rest == Of(j.lines) \ locked
       IN  IF p \in catalog /\ stock[p] >= j.lines[p]
           THEN \E n \in IF rest = {} THEN {None} ELSE rest :
                   job' = [job EXCEPT ![w] =
                             [j EXCEPT !.locked = locked, !.next = n,
                                       !.paid = [j.paid EXCEPT
                                                   ![p] = price[p]]]]
           ELSE job' = [job EXCEPT ![w] = Idle]
    /\ UNCHANGED <<catalog, stock, price, items, orders>>

\* A checkout that lacks stock stays in its transaction to wait for more.
LockProductWaitBug(w) ==
    /\ job[w].step = "lock"
    /\ job[w].next # None
    /\ LET j == job[w]
           p == j.next
           locked == j.locked \cup {p}
           rest == Of(j.lines) \ locked
       IN  /\ ~ ProductLocked(p)
           /\ p \in catalog
           /\ stock[p] >= j.lines[p]
           /\ \E n \in IF rest = {} THEN {None} ELSE rest :
                 job' = [job EXCEPT ![w] =
                           [j EXCEPT !.locked = locked, !.next = n]]
    /\ UNCHANGED <<catalog, stock, price, items, orders>>

\* The next product row is locked and its stock is read: ROLLBACK if the row is
\* missing or the stock too small, else on to another product of the cart.
LockProduct(w) ==
    /\ job[w].step = "lock"
    /\ job[w].next # None
    /\ LET j == job[w]
           p == j.next
           locked == j.locked \cup {p}
           rest == Of(j.lines) \ locked
       IN  /\ ~ ProductLocked(p)
           /\ \/ /\ p \in catalog
                 /\ stock[p] >= j.lines[p]
                 /\ \E n \in IF rest = {} THEN {None} ELSE rest :
                       job' = [job EXCEPT ![w] =
                                 [j EXCEPT !.locked = locked, !.next = n,
                                           !.paid = [j.paid EXCEPT
                                                       ![p] = price[p]]]]
              \/ /\ p \notin catalog \/ stock[p] < j.lines[p]
                 /\ job' = [job EXCEPT ![w] = Idle]
    /\ UNCHANGED <<catalog, stock, price, items, orders>>

\* INSERT INTO orders: its SUM runs over the rows the cart has now.
InsertOrder(w) ==
    /\ job[w].step = "lock"
    /\ job[w].next = None
    /\ LET cart == items[job[w].user]
       IN  job' = [job EXCEPT ![w] =
                     [@ EXCEPT !.step = "ordered",
                               !.total = [p \in Products |->
                                            cart[p] * price[p]]]]
    /\ UNCHANGED <<catalog, stock, price, items, orders>>

\* The order_items and the new stock are written, visible from COMMIT on, and
\* DELETE FROM cart_items takes every row the cart has now.
ClearCart(w) ==
    /\ job[w].step = "ordered"
    /\ job' = [job EXCEPT ![w] = [@ EXCEPT !.step = "cleared",
                                          !.gone = Of(items[job[w].user])]]
    /\ UNCHANGED <<catalog, stock, price, items, orders>>

Commit(w) ==
    /\ job[w].step = "cleared"
    /\ LET j == job[w]
       IN  /\ stock' = [p \in Products |-> stock[p] - j.lines[p]]
           /\ items' = [items EXCEPT ![j.user] =
                          [p \in Products |-> IF p \in j.gone THEN 0 ELSE @[p]]]
           /\ orders' = Append(orders, [user |-> j.user, lines |-> j.lines,
                                        paid |-> j.paid, total |-> j.total])
    /\ job' = [job EXCEPT ![w] = Idle]
    /\ UNCHANGED <<catalog, price>>

\* Any statement may raise; a transaction is then rolled back.
StatementRaises(w) ==
    /\ job[w].step # "idle"
    /\ job' = [job EXCEPT ![w] = Idle]
    /\ UNCHANGED <<catalog, stock, price, items, orders>>

\* PostgreSQL makes a statement of a deadlock raise.
DeadlockDetected(w) == Deadlocked(w) /\ StatementRaises(w)

-----------------------------------------------------------------------------
(* ProductRepository                                                       *)

\* The price moves although a checkout has locked the row.
UpdateProductBug(p) ==
    /\ p \in catalog
    /\ \E n \in Stocks \cup {stock[p]}, c \in Prices :
          /\ stock' = [stock EXCEPT ![p] = n]
          /\ price' = [price EXCEPT ![p] = c]
    /\ UNCHANGED <<catalog, items, orders, job>>

\* The administrator's form writes absolute values, whatever was sold since it
\* was filled in.
UpdateProduct(p) ==
    /\ p \in catalog
    /\ ~ ProductLocked(p)
    /\ \E n \in Stocks \cup {stock[p]}, c \in Prices :
          /\ stock' = [stock EXCEPT ![p] = n]
          /\ price' = [price EXCEPT ![p] = c]
    /\ UNCHANGED <<catalog, items, orders, job>>

\* The foreign key of order_items does not keep the product.
DeleteProductBug(p) ==
    /\ ~ ProductLocked(p)
    /\ \A u \in Users : ~ RowLocked(u, p)
    /\ catalog' = catalog \ {p}
    /\ items' = [u \in Users |-> [items[u] EXCEPT ![p] = 0]]
    /\ UNCHANGED <<stock, price, orders, job>>

\* DELETE cascades to cart_items and fails when an order refers to the product.
DeleteProduct(p) ==
    /\ ~ ProductLocked(p)
    /\ \A u \in Users : ~ RowLocked(u, p)
    /\ \A i \in DOMAIN orders : orders[i].lines[p] = 0
    /\ catalog' = catalog \ {p}
    /\ items' = [u \in Users |-> [items[u] EXCEPT ![p] = 0]]
    /\ UNCHANGED <<stock, price, orders, job>>

\* The three handlers that run more than one statement; what raises in them is
\* caught there and answered with 400 or 500.
PostCartItem(w) == AddToCart(w) \/ CheckStock(w) \/ PutItem(w)
PutCartItem(w) == UpdateQuantity(w) \/ SetItem(w)
PostCheckout(w) == \/ Checkout(w) \/ LockProduct(w) \/ InsertOrder(w)
                   \/ ClearCart(w) \/ Commit(w)

Customer(w) == \/ PostCartItem(w) \/ PutCartItem(w) \/ PostCheckout(w)
               \/ StatementRaises(w) \/ DeadlockDetected(w)

Next == \/ \E w \in Workers : Customer(w)
        \/ \E u \in Users, p \in Products : RemoveItem(u, p)
        \/ \E p \in Products : UpdateProduct(p) \/ DeleteProduct(p)

Spec == Init /\ [][Next]_vars

\* A thread goes on with its request; a statement that waits for a lock gets it
\* if it is free again and again; PostgreSQL's detector breaks every deadlock.
Fairness ==
    \A w \in Workers :
        /\ WF_vars(CheckStock(w) \/ InsertOrder(w) \/ ClearCart(w) \/ Commit(w))
        /\ SF_vars(PutItem(w))
        /\ SF_vars(SetItem(w))
        /\ SF_vars(LockProduct(w))
        /\ WF_vars(DeadlockDetected(w))

FairSpec == Spec /\ Fairness

-----------------------------------------------------------------------------
\* Every variable keeps the shape the tables and handlers give it.
TypeOK == /\ catalog \subseteq Products
          /\ stock \in [Products -> Int]
          /\ price \in Money
          /\ items \in [Users -> Amounts]
          /\ orders \in Seq(Order)
          /\ job \in [Workers -> Job]

\* A checkout never sells more than there is: SELECT ... FOR UPDATE on the product
\* holds from the comparison to the decrement, so the COMMIT leaves no product
\* it takes from below zero, whatever carts are checked out together and
\* whatever the administrator saves in between.  (Saving a stock below zero,
\* which nothing refuses, is the administrator's doing, not a sale.)
NothingOversold ==
    [][orders' # orders =>
          \A p \in Products : stock'[p] # stock[p] => stock'[p] >= 0]_vars

\* The total of an order charges every line of it at the price the line was
\* sold at: neither the cart rows nor the prices move between the three
\* statements that read them.
TotalCoversLines ==
    \A i \in DOMAIN orders : \A p \in Of(orders[i].lines) :
        orders[i].total[p] = orders[i].lines[p] * orders[i].paid[p]

\* checkout says it snapshots the cart and locks its rows against concurrent
\* edits: the total of an order charges for its lines and nothing else.
TotalIsSumOfLines ==
    \A i \in DOMAIN orders : \A p \in Products :
        orders[i].total[p] = orders[i].lines[p] * orders[i].paid[p]

\* A product that an order or a running checkout names is not deleted under it;
\* checkout's "no longer exists" is never the answer.
OrderedProductsExist ==
    /\ \A i \in DOMAIN orders : Of(orders[i].lines) \subseteq catalog
    /\ \A w \in Workers : InTransaction(w) => Of(job[w].lines) \subseteq catalog

\* An order takes out of the cart exactly what the cart holds when it commits,
\* so that two checkouts of one cart, or a checkout and an edit, never order
\* the same units twice.
OrderTakesCart ==
    [][\A i \in DOMAIN orders' \ DOMAIN orders :
          \A p \in Of(orders'[i].lines) :
              /\ items[orders'[i].user][p] = orders'[i].lines[p]
              /\ items'[orders'[i].user][p] = 0]_vars

\* addToCart checks what is already in the cart "so total won't exceed stock":
\* an addition passes the stock it read only when the cart has changed between
\* its comparison and its INSERT, as by a second addition.
AddStaysWithinStock ==
    [][\A w \in Workers :
          LET u == job[w].user
              p == job[w].product
          IN  PutItem(w) /\ items[u][p] = job[w].had =>
                  items'[u][p] = items[u][p] \/ items'[u][p] <= job[w].stock]_vars

\* Every request is answered, although checkouts lock products in the order of
\* their carts and can wait for each other.
RequestsFinish ==
    \A w \in Workers : job[w].step # "idle" ~> job[w].step = "idle"
=============================================================================
