----------------------------- MODULE CartProofs -----------------------------
(***************************************************************************)
(* What checkout keeps for every number of threads, carts and products.    *)
(***************************************************************************)
EXTENDS Cart, TLAPS

\* cart_items refers to products by a foreign key.
CartProductsExist == \A u \in Users : Of(items[u]) \subseteq catalog

\* Two checkouts hold no product in common, and are of two carts.
LocksExclude ==
    \A v, w \in Workers :
        v # w /\ InTransaction(v) /\ InTransaction(w) =>
            /\ job[v].locked \cap job[w].locked = {}
            /\ job[v].user # job[w].user

\* What a running checkout may rely on until it commits.
CheckoutHolds(w) ==
    LET j == job[w]
    IN  /\ Of(j.lines) # {}
        /\ Of(j.lines) \subseteq catalog
        /\ \A p \in Of(j.lines) : items[j.user][p] = j.lines[p]
        /\ \A p \in j.locked : stock[p] >= j.lines[p] /\ j.paid[p] = price[p]
        /\ j.next = None => Of(j.lines) \subseteq j.locked
        /\ j.step \in {"ordered", "cleared"} =>
              /\ j.next = None
              /\ \A p \in Of(j.lines) : j.total[p] = j.lines[p] * j.paid[p]
        /\ j.step = "cleared" => Of(j.lines) \subseteq j.gone

IInv == /\ TypeOK
        /\ TotalCoversLines
        /\ \A i \in DOMAIN orders : Of(orders[i].lines) \subseteq catalog
        /\ CartProductsExist
        /\ LocksExclude
        /\ \A w \in Workers : InTransaction(w) => CheckoutHolds(w)

-----------------------------------------------------------------------------
LEMMA IdleJob == Idle \in Job /\ Idle.step = "idle"
  BY DEF Idle, Job

\* The job of a thread in a transaction.
LEMMA CheckoutJob ==
    ASSUME TypeOK, NEW w \in Workers, InTransaction(w)
    PROVE  /\ job[w] \in [step : {"lock", "ordered", "cleared"}, user : Users,
                          lines : Amounts, next : Products \cup {None},
                          locked : SUBSET Products, paid : Money,
                          total : Money, gone : SUBSET Products]
           /\ job[w] \in Job
  BY DEF TypeOK, Job, InTransaction

LEMMA InitIInv == Init => IInv
  <1> SUFFICES ASSUME Init PROVE IInv
    OBVIOUS
  <1>1. Zero \in Amounts /\ Zero \in Money
    BY DEF Zero, Amounts, Money
  <1>2. TypeOK
    <2>1. stock \in [Products -> Int] /\ price \in Money
      BY CartAssumption DEF Init, Money
    <2>2. orders \in Seq(Order)
      BY DEF Init
    <2>3. job \in [Workers -> Job]
      BY IdleJob DEF Init
    <2>4. items \in [Users -> Amounts]
      BY <1>1 DEF Init
    <2>5. QED
      BY <2>1, <2>2, <2>3, <2>4 DEF Init, TypeOK
  <1>4. CartProductsExist
    BY DEF Init, CartProductsExist, Of, Zero
  <1>5. \A w \in Workers : ~ InTransaction(w)
    BY IdleJob DEF Init, InTransaction
  <1>6. DOMAIN orders = {}
    BY DEF Init
  <1>7. QED
    BY <1>2, <1>4, <1>5, <1>6 DEF IInv, TotalCoversLines, LocksExclude

\* Requests that only edit carts, or end: no transaction moves, and only rows
\* that no checkout has locked change.
LEMMA CartEdit ==
    ASSUME IInv,
           UNCHANGED <<catalog, stock, price, orders>>,
           job' \in [Workers -> Job],
           \A w \in Workers : InTransaction(w)' => job'[w] = job[w],
           items' \in [Users -> Amounts],
           \A u \in Users, p \in Products :
              items'[u][p] # items[u][p] =>
                 ~ RowLocked(u, p) /\ (items'[u][p] > 0 => p \in catalog)
    PROVE  IInv'
  <1>1. TypeOK'
    BY DEF IInv, TypeOK
  <1>2. /\ TotalCoversLines'
        /\ \A i \in DOMAIN orders' : Of(orders'[i].lines) \subseteq catalog'
    BY DEF IInv, TotalCoversLines, Of
  <1>3. CartProductsExist'
    BY DEF IInv, CartProductsExist, Of
  <1>4. \A w \in Workers : InTransaction(w)' => InTransaction(w)
    BY DEF InTransaction
  <1>5. LocksExclude'
    BY <1>4 DEF IInv, LocksExclude
  <1>6. ASSUME NEW w \in Workers, InTransaction(w)'
        PROVE  CheckoutHolds(w)'
    <2>1. job'[w] = job[w] /\ InTransaction(w) /\ CheckoutHolds(w)
      BY <1>4, <1>6 DEF IInv
    <2>2. job[w].user \in Users
      BY <2>1, CheckoutJob DEF IInv
    <2>3. \A p \in Of(job[w].lines) : RowLocked(job[w].user, p)
      BY <2>1 DEF RowLocked
    <2>4. \A p \in Of(job[w].lines) : items'[job[w].user][p] = job[w].lines[p]
      BY <2>1, <2>2, <2>3 DEF CheckoutHolds, Of
    <2>5. QED
      BY <2>1, <2>4 DEF CheckoutHolds, Of
  <1>7. QED
    BY <1>1, <1>2, <1>3, <1>5, <1>6 DEF IInv

\* A checkout's row locks keep its cart's other checkouts out.
LEMMA CartNotLocked ==
    ASSUME IInv, NEW u \in Users, Of(items[u]) # {},
           \A p \in Of(items[u]) : ~ RowLocked(u, p)
    PROVE  \A v \in Workers : InTransaction(v) => job[v].user # u
  <1> SUFFICES ASSUME NEW v \in Workers, InTransaction(v), job[v].user = u
               PROVE  FALSE
    OBVIOUS
  <1>1. CheckoutHolds(v)
    BY DEF IInv
  <1>2. PICK p \in Of(job[v].lines) : TRUE
    BY <1>1 DEF CheckoutHolds
  <1>3. p \in Of(items[u])
    BY <1>1, <1>2 DEF CheckoutHolds, Of
  <1>4. RowLocked(u, p)
    BY <1>2 DEF RowLocked
  <1>5. QED
    BY <1>3, <1>4

LEMMA CheckoutStep ==
    ASSUME IInv, NEW w \in Workers, Checkout(w)
    PROVE  IInv'
  <1>0. PICK u \in Users : \E first \in Of(items[u]) :
            /\ \A p \in Of(items[u]) : ~ RowLocked(u, p)
            /\ job' = [job EXCEPT ![w] =
                         [step |-> "lock", user |-> u, lines |-> items[u],
                          next |-> first, locked |-> {},
                          paid |-> Zero, total |-> Zero, gone |-> {}]]
    BY DEF Checkout
  <1>1. PICK first \in Of(items[u]) :
            /\ \A p \in Of(items[u]) : ~ RowLocked(u, p)
            /\ job' = [job EXCEPT ![w] =
                         [step |-> "lock", user |-> u, lines |-> items[u],
                          next |-> first, locked |-> {},
                          paid |-> Zero, total |-> Zero, gone |-> {}]]
    BY <1>0
  <1> DEFINE j == [step |-> "lock", user |-> u, lines |-> items[u],
                   next |-> first, locked |-> {},
                   paid |-> Zero, total |-> Zero, gone |-> {}]
  <1>2. UNCHANGED <<catalog, stock, price, items, orders>>
    BY DEF Checkout
  <1>3. j \in Job
    BY DEF Job, IInv, TypeOK, Amounts, Money, Zero, Of
  <1>4. first # None
    BY CartAssumption DEF Of
  <1>5. job' = [job EXCEPT ![w] = j] /\ job'[w] = j
    BY <1>1 DEF IInv, TypeOK
  <1>6. /\ j.step = "lock" /\ j.user = u /\ j.lines = items[u]
        /\ j.next = first /\ j.locked = {}
    OBVIOUS
  <1> HIDE DEF j
  <1>7. TypeOK'
    BY <1>2, <1>3, <1>5 DEF IInv, TypeOK
  <1>8. \A v \in Workers \ {w} : job'[v] = job[v]
    BY <1>5 DEF IInv, TypeOK
  <1>9. \A v \in Workers \ {w} :
            InTransaction(v)' => InTransaction(v) /\ job[v].user # u
    BY <1>1, <1>8, CartNotLocked DEF InTransaction
  <1>10. LocksExclude'
    BY <1>5, <1>6, <1>8, <1>9 DEF IInv, LocksExclude
  <1>11. ASSUME NEW v \in Workers, InTransaction(v)' PROVE CheckoutHolds(v)'
    <2>1. CASE v = w
      BY <1>1, <1>2, <1>4, <1>5, <1>6, <2>1
         DEF IInv, CartProductsExist, CheckoutHolds, Of
    <2>2. CASE v # w
      BY <1>2, <1>8, <1>9, <1>11, <2>2 DEF IInv, CheckoutHolds, Of
    <2>3. QED
      BY <2>1, <2>2
  <1>12. QED
    BY <1>2, <1>7, <1>10, <1>11
       DEF IInv, TotalCoversLines, CartProductsExist, Of

\* A step inside a transaction that changes only the thread's own job, and of
\* it neither the cart nor the lines, and adds no lock another one holds.
LEMMA InsideCheckout ==
    ASSUME IInv, NEW w \in Workers, InTransaction(w), NEW j \in Job,
           UNCHANGED <<catalog, stock, price, items, orders>>,
           job' = [job EXCEPT ![w] = j],
           j.user = job[w].user,
           \A v \in Workers \ {w} :
              InTransaction(v) => job[v].locked \cap j.locked = {},
           CheckoutHolds(w)'
    PROVE  IInv'
  <1>1. TypeOK'
    BY DEF IInv, TypeOK
  <1>2. job'[w] = j /\ \A v \in Workers \ {w} : job'[v] = job[v]
    BY DEF IInv, TypeOK
  <1>3. LocksExclude'
    <2> SUFFICES ASSUME NEW v \in Workers, NEW x \in Workers, v # x,
                        InTransaction(v)', InTransaction(x)'
                 PROVE  /\ job'[v].locked \cap job'[x].locked = {}
                        /\ job'[v].user # job'[x].user
      BY DEF LocksExclude
    <2>1. CASE v = w
      BY <1>2, <2>1 DEF IInv, LocksExclude, InTransaction
    <2>2. CASE x = w
      BY <1>2, <2>2 DEF IInv, LocksExclude, InTransaction
    <2>3. CASE v # w /\ x # w
      BY <1>2, <2>3 DEF IInv, LocksExclude, InTransaction
    <2>4. QED
      BY <2>1, <2>2, <2>3
  <1>4. ASSUME NEW v \in Workers \ {w}, InTransaction(v)' PROVE CheckoutHolds(v)'
    BY <1>2, <1>4 DEF IInv, CheckoutHolds, InTransaction, Of
  <1>5. QED
    BY <1>1, <1>3, <1>4
       DEF IInv, TotalCoversLines, CartProductsExist, Of

LEMMA LockProductStep ==
    ASSUME IInv, NEW w \in Workers, LockProduct(w)
    PROVE  IInv'
  <1> DEFINE p == job[w].next
             locked == job[w].locked \cup {p}
             rest == Of(job[w].lines) \ locked
  <1>1. InTransaction(w) /\ CheckoutHolds(w)
    BY DEF LockProduct, InTransaction, IInv
  <1>2. /\ job[w] \in Job
        /\ job[w].step = "lock"
        /\ p \in Products
        /\ job[w].lines \in Amounts /\ job[w].paid \in Money
        /\ job[w].locked \subseteq Products
        /\ job[w] = [step |-> job[w].step, user |-> job[w].user,
                     lines |-> job[w].lines, next |-> job[w].next,
                     locked |-> job[w].locked, paid |-> job[w].paid,
                     total |-> job[w].total, gone |-> job[w].gone]
    BY <1>1, CheckoutJob DEF LockProduct, IInv
  <1>3. UNCHANGED <<catalog, stock, price, items, orders>>
    BY DEF LockProduct
  <1>4. CASE job' = [job EXCEPT ![w] = Idle]
    <2>1. job' \in [Workers -> Job]
      BY <1>4, IdleJob DEF IInv, TypeOK
    <2>2. \A v \in Workers : InTransaction(v)' => job'[v] = job[v]
      BY <1>4, IdleJob DEF IInv, TypeOK, InTransaction
    <2>3. QED
      BY <1>3, <2>1, <2>2, CartEdit DEF IInv, TypeOK
  <1>5. CASE /\ p \in catalog
             /\ stock[p] >= job[w].lines[p]
             /\ ~ ProductLocked(p)
             /\ \E n \in IF rest = {} THEN {None} ELSE rest :
                   job' = [job EXCEPT ![w] =
                             [job[w] EXCEPT
                                !.locked = locked, !.next = n,
                                !.paid = [job[w].paid EXCEPT ![p] = price[p]]]]
    <2>1. PICK n \in IF rest = {} THEN {None} ELSE rest :
             job' = [job EXCEPT ![w] =
                       [job[w] EXCEPT
                          !.locked = locked, !.next = n,
                          !.paid = [job[w].paid EXCEPT ![p] = price[p]]]]
      BY <1>5
    <2> DEFINE paid == [job[w].paid EXCEPT ![p] = price[p]]
               j == [job[w] EXCEPT !.locked = locked, !.next = n, !.paid = paid]
    <2>2. n \in Products \cup {None} /\ (n = None => rest = {})
      BY CartAssumption DEF Of
    <2>3. paid \in Money /\ paid[p] = price[p]
          /\ \A q \in Products \ {p} : paid[q] = job[w].paid[q]
      BY <1>2 DEF Money, IInv, TypeOK
    <2> HIDE DEF paid
    <2>4. job' = [job EXCEPT ![w] = j]
      BY <2>1 DEF paid
    <2>5. /\ j.step = "lock" /\ j.user = job[w].user /\ j.lines = job[w].lines
          /\ j.locked = locked /\ j.next = n /\ j.paid = paid
          /\ j.total = job[w].total /\ j.gone = job[w].gone
      BY <1>2
    <2>6. j \in Job
      <3>1. job[w] \in [step : {"lock", "ordered", "cleared"}, user : Users,
                        lines : Amounts, next : Products \cup {None},
                        locked : SUBSET Products, paid : Money,
                        total : Money, gone : SUBSET Products]
        BY <1>1, CheckoutJob DEF IInv
      <3>2. locked \in SUBSET Products
        BY <1>2
      <3> HIDE DEF locked
      <3>3. QED
        BY <2>2, <2>3, <3>1, <3>2 DEF Job
    <2> HIDE DEF j
    <2>7. job'[w] = j
      BY <2>4 DEF IInv, TypeOK
    <2>8. \A v \in Workers \ {w} :
             InTransaction(v) => job[v].locked \cap j.locked = {}
      BY <1>1, <1>5, <2>5 DEF IInv, LocksExclude, ProductLocked
    <2>9. CheckoutHolds(w)'
      <3>1. \A q \in locked : stock[q] >= job[w].lines[q] /\ paid[q] = price[q]
        BY <1>1, <1>2, <1>5, <2>3 DEF CheckoutHolds
      <3>2. n = None => Of(job[w].lines) \subseteq locked
        BY <2>2
      <3> HIDE DEF locked
      <3>3. QED
        BY <1>1, <1>3, <2>5, <2>7, <3>1, <3>2 DEF CheckoutHolds, Of
    <2>10. QED
      BY <1>1, <1>3, <2>4, <2>5, <2>6, <2>8, <2>9, InsideCheckout
  <1>6. QED
    BY <1>4, <1>5 DEF LockProduct

LEMMA InsertOrderStep ==
    ASSUME IInv, NEW w \in Workers, InsertOrder(w)
    PROVE  IInv'
  <1> DEFINE total == [p \in Products |-> items[job[w].user][p] * price[p]]
             j == [job[w] EXCEPT !.step = "ordered", !.total = total]
  <1>1. /\ InTransaction(w) /\ CheckoutHolds(w)
        /\ job[w].step = "lock" /\ job[w].next = None
    BY DEF InsertOrder, InTransaction, IInv
  <1>2. /\ UNCHANGED <<catalog, stock, price, items, orders>>
        /\ job' = [job EXCEPT ![w] = j]
    BY DEF InsertOrder, IInv, TypeOK
  <1>3. job[w] \in [step : {"lock", "ordered", "cleared"}, user : Users,
                    lines : Amounts, next : Products \cup {None},
                    locked : SUBSET Products, paid : Money,
                    total : Money, gone : SUBSET Products]
    BY <1>1, CheckoutJob DEF IInv
  <1>4. total \in Money
    <2>1. \A m, n \in Int : m * n \in Int
      OBVIOUS
    <2>2. items[job[w].user] \in [Products -> Nat] /\ price \in [Products -> Int]
      BY <1>3 DEF IInv, TypeOK, Amounts, Money
    <2>3. QED
      BY <2>1, <2>2 DEF Money
  <1>5. \A p \in Of(job[w].lines) : total[p] = job[w].lines[p] * job[w].paid[p]
    <2> SUFFICES ASSUME NEW p \in Of(job[w].lines)
                 PROVE  total[p] = job[w].lines[p] * job[w].paid[p]
      OBVIOUS
    <2>1. items[job[w].user][p] = job[w].lines[p] /\ job[w].paid[p] = price[p]
      BY <1>1 DEF CheckoutHolds
    <2>2. QED
      BY <2>1 DEF Of
  <1> HIDE DEF total
  <1>6. j \in Job
    BY <1>3, <1>4 DEF Job
  <1>7. /\ j.step = "ordered" /\ j.user = job[w].user /\ j.lines = job[w].lines
        /\ j.locked = job[w].locked /\ j.next = None /\ j.paid = job[w].paid
        /\ j.total = total
    BY <1>1, <1>3
  <1> HIDE DEF j
  <1>8. job'[w] = j
    BY <1>2 DEF IInv, TypeOK
  <1>9. CheckoutHolds(w)'
    BY <1>1, <1>2, <1>5, <1>7, <1>8 DEF CheckoutHolds, Of
  <1>10. \A v \in Workers \ {w} :
            InTransaction(v) => job[v].locked \cap j.locked = {}
    BY <1>1, <1>7 DEF IInv, LocksExclude
  <1>11. QED
    BY <1>1, <1>2, <1>6, <1>7, <1>9, <1>10, InsideCheckout

LEMMA ClearCartStep ==
    ASSUME IInv, NEW w \in Workers, ClearCart(w)
    PROVE  IInv'
  <1> DEFINE gone == Of(items[job[w].user])
             j == [job[w] EXCEPT !.step = "cleared", !.gone = gone]
  <1>1. /\ InTransaction(w) /\ CheckoutHolds(w)
        /\ job[w].step = "ordered"
    BY DEF ClearCart, InTransaction, IInv
  <1>2. /\ UNCHANGED <<catalog, stock, price, items, orders>>
        /\ job' = [job EXCEPT ![w] = j]
    BY DEF ClearCart, IInv, TypeOK
  <1>3. job[w] \in [step : {"lock", "ordered", "cleared"}, user : Users,
                    lines : Amounts, next : Products \cup {None},
                    locked : SUBSET Products, paid : Money,
                    total : Money, gone : SUBSET Products]
    BY <1>1, CheckoutJob DEF IInv
  <1>4. gone \in SUBSET Products
    BY DEF Of
  <1>5. Of(job[w].lines) \subseteq gone
    BY <1>1 DEF CheckoutHolds, Of
  <1> HIDE DEF gone
  <1>6. j \in Job
    BY <1>3, <1>4 DEF Job
  <1>7. /\ j.step = "cleared" /\ j.user = job[w].user /\ j.lines = job[w].lines
        /\ j.locked = job[w].locked /\ j.next = job[w].next
        /\ j.paid = job[w].paid /\ j.total = job[w].total /\ j.gone = gone
    BY <1>3
  <1> HIDE DEF j
  <1>8. job'[w] = j
    BY <1>2 DEF IInv, TypeOK
  <1>9. CheckoutHolds(w)'
    BY <1>1, <1>2, <1>5, <1>7, <1>8 DEF CheckoutHolds, Of
  <1>10. \A v \in Workers \ {w} :
            InTransaction(v) => job[v].locked \cap j.locked = {}
    BY <1>1, <1>7 DEF IInv, LocksExclude
  <1>11. QED
    BY <1>1, <1>2, <1>6, <1>7, <1>9, <1>10, InsideCheckout

\* COMMIT, with what it puts into the tables.
LEMMA CommitStep ==
    ASSUME IInv, NEW w \in Workers, Commit(w)
    PROVE  /\ IInv'
           /\ orders' = Append(orders, [user |-> job[w].user,
                                        lines |-> job[w].lines,
                                        paid |-> job[w].paid,
                                        total |-> job[w].total])
           /\ \A p \in Of(job[w].lines) :
                 /\ items[job[w].user][p] = job[w].lines[p]
                 /\ items'[job[w].user][p] = 0
           /\ \A p \in Products : stock'[p] # stock[p] => stock'[p] >= 0
  <1> DEFINE u == job[w].user
             lines == job[w].lines
             o == [user |-> u, lines |-> lines,
                   paid |-> job[w].paid, total |-> job[w].total]
  <1>1. /\ InTransaction(w) /\ CheckoutHolds(w)
        /\ job[w].step = "cleared"
    BY DEF Commit, InTransaction, IInv
  <1>2. /\ stock' = [p \in Products |-> stock[p] - lines[p]]
        /\ items' = [items EXCEPT ![u] =
                       [p \in Products |-> IF p \in job[w].gone THEN 0 ELSE @[p]]]
        /\ orders' = Append(orders, o)
        /\ job' = [job EXCEPT ![w] = Idle]
        /\ UNCHANGED <<catalog, price>>
    BY DEF Commit
  <1>3. /\ u \in Users /\ lines \in Amounts /\ job[w].locked \subseteq Products
        /\ job[w].paid \in Money /\ job[w].total \in Money
    BY <1>1, CheckoutJob DEF IInv
  <1>4. /\ stock \in [Products -> Int] /\ orders \in Seq(Order)
        /\ items \in [Users -> [Products -> Nat]]
        /\ \A p \in Products : lines[p] \in Nat
    BY <1>3 DEF IInv, TypeOK, Amounts
  <1>5. o \in Order
    BY <1>3 DEF Order
  <1>6. /\ Of(lines) \subseteq catalog
        /\ \A p \in Of(lines) : o.total[p] = lines[p] * job[w].paid[p]
        /\ \A p \in Of(lines) : p \in job[w].locked /\ p \in job[w].gone
        /\ \A p \in Of(lines) : items[u][p] = lines[p] /\ stock[p] >= lines[p]
    BY <1>1 DEF CheckoutHolds
  <1>7. /\ \A p \in Products : items'[u][p] =
                 IF p \in job[w].gone THEN 0 ELSE items[u][p]
        /\ \A v \in Users \ {u} : items'[v] = items[v]
        /\ items' \in [Users -> [Products -> Nat]]
    BY <1>2, <1>3, <1>4
  <1>8. /\ DOMAIN orders' = DOMAIN orders \cup {Len(orders) + 1}
        /\ orders'[Len(orders) + 1] = o
        /\ \A i \in DOMAIN orders : orders'[i] = orders[i]
        /\ orders' \in Seq(Order)
    BY <1>2, <1>4, <1>5
  <1>9. o.lines = lines /\ o.paid = job[w].paid
    OBVIOUS
  <1>10. job'[w].step = "idle" /\ \A v \in Workers \ {w} : job'[v] = job[v]
    BY <1>2, IdleJob DEF IInv, TypeOK
  <1> HIDE DEF o, u, lines
  <1>11. TypeOK'
    <2>1. stock' \in [Products -> Int]
      BY <1>2, <1>4
    <2>2. job' \in [Workers -> Job]
      BY <1>2, IdleJob DEF IInv, TypeOK
    <2>3. QED
      BY <1>2, <1>7, <1>8, <2>1, <2>2 DEF IInv, TypeOK, Amounts
  <1>13. TotalCoversLines'
    BY <1>6, <1>8, <1>9 DEF IInv, TotalCoversLines, Of
  <1>14. \A i \in DOMAIN orders' : Of(orders'[i].lines) \subseteq catalog'
    BY <1>2, <1>6, <1>8, <1>9 DEF IInv, Of
  <1>15. CartProductsExist'
    BY <1>2, <1>7 DEF IInv, CartProductsExist, Of
  <1>16. LocksExclude'
    BY <1>10 DEF IInv, LocksExclude, InTransaction
  <1>17. ASSUME NEW v \in Workers, InTransaction(v)' PROVE CheckoutHolds(v)'
    <2>1. v # w /\ job'[v] = job[v] /\ InTransaction(v) /\ CheckoutHolds(v)
      BY <1>10, <1>17 DEF IInv, InTransaction
    <2>2. job[v].user # u /\ job[v].locked \cap job[w].locked = {}
      BY <1>1, <2>1 DEF IInv, LocksExclude, u
    <2>3. job[v].user \in Users /\ job[v].locked \subseteq Products
      BY <2>1, CheckoutJob DEF IInv
    <2>4. \A p \in job[v].locked : stock'[p] = stock[p]
      <3> SUFFICES ASSUME NEW p \in job[v].locked PROVE stock'[p] = stock[p]
        OBVIOUS
      <3>1. p \in Products /\ p \notin Of(lines)
        BY <1>6, <2>2, <2>3
      <3>2. lines[p] = 0
        BY <1>4, <3>1 DEF Of
      <3>3. QED
        BY <1>2, <1>4, <3>1, <3>2
    <2>5. items'[job[v].user] = items[job[v].user]
      BY <1>7, <2>2, <2>3
    <2>6. catalog' = catalog /\ price' = price
      BY <1>2
    <2>7. QED
      BY <2>1, <2>4, <2>5, <2>6 DEF CheckoutHolds, Of
  <1>18. IInv'
    BY <1>11, <1>13, <1>14, <1>15, <1>16, <1>17 DEF IInv
  <1>19. ASSUME NEW p \in Products, stock'[p] # stock[p] PROVE stock'[p] >= 0
    <2>1. stock'[p] = stock[p] - lines[p] /\ stock[p] \in Int /\ lines[p] \in Nat
      BY <1>2, <1>4
    <2>2. p \in Of(lines)
      BY <1>19, <2>1 DEF Of
    <2>3. QED
      BY <1>6, <2>1, <2>2
  <1>20. QED
    BY <1>2, <1>6, <1>7, <1>18, <1>19 DEF o, u, lines, Of

LEMMA UpdateProductStep ==
    ASSUME IInv, NEW p \in Products, UpdateProduct(p)
    PROVE  IInv'
  <1>1. PICK n \in Stocks \cup {stock[p]}, c \in Prices :
            /\ stock' = [stock EXCEPT ![p] = n]
            /\ price' = [price EXCEPT ![p] = c]
    BY DEF UpdateProduct
  <1>2. /\ UNCHANGED <<catalog, items, orders, job>>
        /\ ~ ProductLocked(p)
    BY DEF UpdateProduct
  <1>3. n \in Int /\ c \in Int
    BY CartAssumption DEF IInv, TypeOK
  <1>4. TypeOK'
    BY <1>1, <1>2, <1>3 DEF IInv, TypeOK, Money
  <1>5. ASSUME NEW v \in Workers, InTransaction(v)' PROVE CheckoutHolds(v)'
    <2>1. InTransaction(v) /\ CheckoutHolds(v) /\ job'[v] = job[v]
      BY <1>2, <1>5 DEF IInv, InTransaction
    <2>2. p \notin job[v].locked
      BY <1>2, <2>1 DEF ProductLocked
    <2>3. job[v].locked \subseteq Products
      BY <2>1, CheckoutJob DEF IInv
    <2>4. \A q \in job[v].locked : stock'[q] = stock[q] /\ price'[q] = price[q]
      BY <1>1, <2>2, <2>3 DEF IInv, TypeOK, Money
    <2>5. QED
      BY <1>2, <2>1, <2>4 DEF CheckoutHolds, Of
  <1>6. QED
    BY <1>2, <1>4, <1>5
       DEF IInv, TotalCoversLines, CartProductsExist, LocksExclude,
           InTransaction, Of

LEMMA DeleteProductStep ==
    ASSUME IInv, NEW p \in Products, DeleteProduct(p)
    PROVE  IInv'
  <1>1. /\ \A u \in Users : ~ RowLocked(u, p)
        /\ \A i \in DOMAIN orders : orders[i].lines[p] = 0
        /\ catalog' = catalog \ {p}
        /\ items' = [u \in Users |-> [items[u] EXCEPT ![p] = 0]]
        /\ UNCHANGED <<stock, price, orders, job>>
    BY DEF DeleteProduct
  <1>2. /\ items' \in [Users -> Amounts]
        /\ \A u \in Users : /\ items'[u][p] = 0
                            /\ \A q \in Products \ {p} : items'[u][q] = items[u][q]
    BY <1>1 DEF IInv, TypeOK, Amounts
  <1>3. TypeOK'
    BY <1>1, <1>2 DEF IInv, TypeOK
  <1>4. \A i \in DOMAIN orders' : Of(orders'[i].lines) \subseteq catalog'
    BY <1>1 DEF IInv, Of
  <1>5. CartProductsExist'
    BY <1>1, <1>2 DEF IInv, CartProductsExist, Of
  <1>6. ASSUME NEW v \in Workers, InTransaction(v)' PROVE CheckoutHolds(v)'
    <2>1. InTransaction(v) /\ CheckoutHolds(v) /\ job'[v] = job[v]
      BY <1>1, <1>6 DEF IInv, InTransaction
    <2>2. job[v].user \in Users
      BY <2>1, CheckoutJob DEF IInv
    <2>3. p \notin Of(job[v].lines)
      BY <1>1, <2>1, <2>2 DEF RowLocked
    <2>4. \A q \in Of(job[v].lines) :
             q \in catalog' /\ items'[job[v].user][q] = job[v].lines[q]
      BY <1>1, <1>2, <2>1, <2>2, <2>3 DEF CheckoutHolds, Of
    <2>5. QED
      BY <1>1, <2>1, <2>4 DEF CheckoutHolds, Of
  <1>7. QED
    BY <1>1, <1>3, <1>4, <1>5, <1>6
       DEF IInv, TotalCoversLines, LocksExclude, InTransaction, Of

\* The requests CartEdit is about.
LEMMA EditSteps ==
    ASSUME IInv, NEW w \in Workers,
           \/ AddToCart(w) \/ CheckStock(w) \/ PutItem(w)
           \/ UpdateQuantity(w) \/ SetItem(w) \/ StatementRaises(w)
    PROVE  IInv'
  <1> DEFINE Quiet == \E j \in Job : /\ j.step \in {"idle", "add", "put", "set"}
                                     /\ job' = [job EXCEPT ![w] = j]
  <1>1. Quiet => /\ job' \in [Workers -> Job]
                 /\ \A v \in Workers : InTransaction(v)' => job'[v] = job[v]
    BY DEF IInv, TypeOK, InTransaction
  <1>2. CASE AddToCart(w)
    <2>1. PICK u \in Users, p \in catalog, q \in Quantities :
             job' = [job EXCEPT ![w] = [step |-> "add", user |-> u, product |-> p,
                                        qty |-> q, stock |-> stock[p]]]
      BY <1>2 DEF AddToCart
    <2>2. [step |-> "add", user |-> u, product |-> p,
           qty |-> q, stock |-> stock[p]] \in Job
      BY DEF IInv, TypeOK, Job
    <2>3. Quiet
      BY <2>1, <2>2
    <2>4. QED
      BY <1>1, <1>2, <2>3, CartEdit DEF AddToCart, IInv, TypeOK
  <1>3. CASE CheckStock(w)
    <2>1. job[w].step = "add" /\ job[w] \in Job
      BY <1>3 DEF CheckStock, IInv, TypeOK
    <2>2. [step |-> "put", user |-> job[w].user, product |-> job[w].product,
           qty |-> job[w].qty, stock |-> job[w].stock,
           had |-> items[job[w].user][job[w].product]] \in Job
      BY <2>1, SMTT(30) DEF Job, IInv, TypeOK, Amounts
    <2>3. Quiet
      BY <1>3, <2>2, IdleJob DEF CheckStock
    <2>4. QED
      BY <1>1, <1>3, <2>3, CartEdit DEF CheckStock, IInv, TypeOK
  <1>4. CASE PutItem(w)
    <2> DEFINE u == job[w].user
               p == job[w].product
    <2>1. u \in Users /\ p \in Products /\ job[w].qty \in Nat
      BY <1>4, CartAssumption DEF PutItem, IInv, TypeOK, Job
    <2>2. Quiet
      BY <1>4, IdleJob DEF PutItem
    <2>3. /\ ~ RowLocked(u, p)
          /\ items' = IF p \in catalog
                      THEN [items EXCEPT ![u][p] = @ + job[w].qty] ELSE items
          /\ UNCHANGED <<catalog, stock, price, orders>>
      BY <1>4 DEF PutItem
    <2> HIDE DEF u, p
    <2>4. items' \in [Users -> Amounts]
      BY <2>1, <2>3 DEF IInv, TypeOK, Amounts
    <2>5. \A x \in Users, y \in Products :
             items'[x][y] # items[x][y] => x = u /\ y = p /\ p \in catalog
      BY <2>1, <2>3 DEF IInv, TypeOK, Amounts
    <2>6. QED
      BY <1>1, <2>2, <2>3, <2>4, <2>5, CartEdit
  <1>5. CASE UpdateQuantity(w)
    <2>1. PICK u \in Users, p \in catalog, q \in Quantities :
             job' = [job EXCEPT ![w] = [step |-> "set", user |-> u,
                                        product |-> p, qty |-> q]]
      BY <1>5 DEF UpdateQuantity
    <2>2. [step |-> "set", user |-> u, product |-> p, qty |-> q] \in Job
      BY DEF IInv, TypeOK, Job
    <2>3. Quiet
      BY <2>1, <2>2
    <2>4. QED
      BY <1>1, <1>5, <2>3, CartEdit DEF UpdateQuantity, IInv, TypeOK
  <1>6. CASE SetItem(w)
    <2> DEFINE u == job[w].user
               p == job[w].product
    <2>1. u \in Users /\ p \in Products /\ job[w].qty \in Nat
      BY <1>6, CartAssumption DEF SetItem, IInv, TypeOK, Job
    <2>2. Quiet
      BY <1>6, IdleJob DEF SetItem
    <2>3. /\ ~ RowLocked(u, p)
          /\ items' = IF items[u][p] > 0
                      THEN [items EXCEPT ![u][p] = job[w].qty] ELSE items
          /\ UNCHANGED <<catalog, stock, price, orders>>
      BY <1>6 DEF SetItem
    <2> HIDE DEF u, p
    <2>4. items' \in [Users -> Amounts]
      BY <2>1, <2>3 DEF IInv, TypeOK, Amounts
    <2>5. \A x \in Users, y \in Products :
             items'[x][y] # items[x][y] => x = u /\ y = p /\ items[u][p] > 0
      BY <2>1, <2>3 DEF IInv, TypeOK, Amounts
    <2>6. items[u][p] > 0 => p \in catalog
      BY <2>1 DEF IInv, CartProductsExist, Of
    <2>7. QED
      BY <1>1, <2>2, <2>3, <2>4, <2>5, <2>6, CartEdit
  <1>7. CASE StatementRaises(w)
    <2>1. Quiet
      BY <1>7, IdleJob DEF StatementRaises
    <2>2. QED
      BY <1>1, <1>7, <2>1, CartEdit DEF StatementRaises, IInv, TypeOK
  <1>8. QED
    BY <1>2, <1>3, <1>4, <1>5, <1>6, <1>7

LEMMA RemoveItemStep ==
    ASSUME IInv, NEW u \in Users, NEW p \in Products, RemoveItem(u, p)
    PROVE  IInv'
  <1>1. /\ ~ RowLocked(u, p)
        /\ items' = [items EXCEPT ![u][p] = 0]
        /\ UNCHANGED <<catalog, stock, price, orders, job>>
    BY DEF RemoveItem
  <1>2. /\ items' \in [Users -> Amounts]
        /\ \A x \in Users, y \in Products :
              items'[x][y] # items[x][y] => x = u /\ y = p /\ items'[x][y] = 0
    BY <1>1 DEF IInv, TypeOK, Amounts
  <1>3. job' \in [Workers -> Job]
    BY <1>1 DEF IInv, TypeOK
  <1>4. QED
    BY <1>1, <1>2, <1>3, CartEdit

LEMMA NextIInv == IInv /\ [Next]_vars => IInv'
  <1> SUFFICES ASSUME IInv, [Next]_vars PROVE IInv'
    OBVIOUS
  <1>1. CASE \E w \in Workers : Customer(w)
    BY <1>1, EditSteps, CheckoutStep, LockProductStep, InsertOrderStep,
       ClearCartStep, CommitStep
       DEF Customer, PostCartItem, PutCartItem, PostCheckout, DeadlockDetected
  <1>2. CASE \E u \in Users, p \in Products : RemoveItem(u, p)
    BY <1>2, RemoveItemStep
  <1>3. CASE \E p \in Products : UpdateProduct(p) \/ DeleteProduct(p)
    BY <1>3, UpdateProductStep, DeleteProductStep
  <1>4. CASE UNCHANGED vars
    BY <1>4, CartEdit DEF vars, IInv, TypeOK
  <1>5. QED
    BY <1>1, <1>2, <1>3, <1>4 DEF Next

-----------------------------------------------------------------------------
\* What a running checkout relies on holds in every reachable state.
THEOREM CartInvariant == Spec => []IInv
  <1>1. Spec => Init /\ [][Next]_vars
    BY DEF Spec
  <1>2. QED
    BY <1>1, InitIInv, NextIInv, PTL

\* The tables and the handlers keep their types.
THEOREM TypeCorrect == Spec => []TypeOK
  <1>1. IInv => TypeOK
    BY DEF IInv
  <1>2. QED
    BY <1>1, CartInvariant, PTL

\* The total charges every line at the price it was sold at, whatever cart
\* edits and price changes run beside the checkout.
THEOREM TotalsCoverLines == Spec => []TotalCoversLines
  <1>1. IInv => TotalCoversLines
    BY DEF IInv
  <1>2. QED
    BY <1>1, CartInvariant, PTL

\* No product is deleted under an order or a running checkout.
THEOREM NoProductDeletedUnderOrder == Spec => []OrderedProductsExist
  <1>1. IInv => OrderedProductsExist
    BY DEF IInv, OrderedProductsExist, CheckoutHolds
  <1>2. QED
    BY <1>1, CartInvariant, PTL

\* Only a COMMIT places an order.
LEMMA OnlyCommitOrders ==
    ASSUME Next, \A w \in Workers : ~ Commit(w)
    PROVE  UNCHANGED orders
  BY DEF Next, Customer, PostCartItem, PutCartItem, PostCheckout, AddToCart,
         CheckStock, PutItem, UpdateQuantity, SetItem, Checkout, LockProduct,
         InsertOrder, ClearCart, StatementRaises, DeadlockDetected, RemoveItem,
         UpdateProduct, DeleteProduct

\* No number of concurrent checkouts sells more than the stock, whatever
\* integers administrators save as stock beside them: what a COMMIT takes from
\* is not below zero after it.
THEOREM NoOverselling == Spec => NothingOversold
  <1> DEFINE Sold == orders' # orders =>
                \A p \in Products : stock'[p] # stock[p] => stock'[p] >= 0
  <1>1. IInv /\ [Next]_vars => [Sold]_vars
    <2> SUFFICES ASSUME IInv, Next, orders' # orders,
                        NEW p \in Products, stock'[p] # stock[p]
                 PROVE  stock'[p] >= 0
      BY DEF vars
    <2>1. PICK w \in Workers : Commit(w)
      BY OnlyCommitOrders
    <2>2. QED
      BY <2>1, CommitStep
  <1>2. Spec => [][Next]_vars
    BY DEF Spec
  <1>3. QED
    BY <1>1, <1>2, CartInvariant, PTL DEF NothingOversold

\* No unit of a cart is ordered twice: a commit takes the cart's rows at the
\* very quantities it orders.
THEOREM NothingOrderedTwice == Spec => OrderTakesCart
  <1> DEFINE Takes == \A i \in DOMAIN orders' \ DOMAIN orders :
                         \A p \in Of(orders'[i].lines) :
                            /\ items[orders'[i].user][p] = orders'[i].lines[p]
                            /\ items'[orders'[i].user][p] = 0
  <1>1. IInv /\ [Next]_vars => [Takes]_vars
    <2> SUFFICES ASSUME IInv, Next PROVE Takes
      BY DEF vars
    <2>1. CASE \E w \in Workers : Commit(w)
      <3>1. PICK w \in Workers : Commit(w)
        BY <2>1
      <3> DEFINE o == [user |-> job[w].user, lines |-> job[w].lines,
                       paid |-> job[w].paid, total |-> job[w].total]
      <3>2. /\ orders' = Append(orders, o)
            /\ \A p \in Of(job[w].lines) :
                  /\ items[job[w].user][p] = job[w].lines[p]
                  /\ items'[job[w].user][p] = 0
        BY <3>1, CommitStep
      <3>3. o.user = job[w].user /\ o.lines = job[w].lines
        OBVIOUS
      <3> HIDE DEF o
      <3>4. orders \in Seq(Order)
        BY DEF IInv, TypeOK
      <3>5. \A i \in DOMAIN orders' \ DOMAIN orders : orders'[i] = o
        BY <3>2, <3>4
      <3>6. QED
        BY <3>2, <3>3, <3>5
    <2>2. CASE UNCHANGED orders
      BY <2>2
    <2>3. QED
      BY <2>1, <2>2, OnlyCommitOrders
  <1>2. Spec => [][Next]_vars
    BY DEF Spec
  <1>3. QED
    BY <1>1, <1>2, CartInvariant, PTL DEF OrderTakesCart

-----------------------------------------------------------------------------
\* What addToCart compared stays true of the thread until its INSERT, whatever
\* happens to the cart meanwhile.
AdditionFits ==
    \A w \in Workers :
        job[w].step = "put" => job[w].had + job[w].qty <= job[w].stock

LEMMA AdditionFitsStep ==
    ASSUME IInv, AdditionFits, [Next]_vars
    PROVE  AdditionFits'
  <1>0. job \in [Workers -> Job]
    BY DEF IInv, TypeOK
  <1> SUFFICES ASSUME NEW v \in Workers, job'[v].step = "put"
               PROVE  job'[v].had + job'[v].qty <= job'[v].stock
    BY DEF AdditionFits
  <1>1. CASE job'[v] = job[v]
    BY <1>1 DEF AdditionFits
  <1>2. CASE \E w \in Workers : CheckStock(w)
    <2>1. PICK w \in Workers : CheckStock(w)
      BY <1>2
    <2>2. CASE w # v
      BY <1>0, <1>1, <2>1, <2>2 DEF CheckStock
    <2>3. CASE w = v
      <3> DEFINE j == job[v]
                 had == items[j.user][j.product]
      <3>1. /\ j.user \in Users /\ j.product \in Products
            /\ j.qty \in Nat /\ j.stock \in Int
        BY <1>0, <2>1, <2>3, CartAssumption DEF CheckStock, Job
      <3>2. had \in Nat
        BY <3>1 DEF IInv, TypeOK, Amounts
      <3>3. job'[v] = IF j.stock < had + j.qty
                      THEN Idle
                      ELSE [step |-> "put", user |-> j.user,
                            product |-> j.product, qty |-> j.qty,
                            stock |-> j.stock, had |-> had]
        BY <1>0, <2>1, <2>3 DEF CheckStock
      <3>4. ~ (j.stock < had + j.qty)
        BY <3>3, IdleJob
      <3> HIDE DEF had, j
      <3>5. /\ job'[v].had = had
            /\ job'[v].qty = j.qty
            /\ job'[v].stock = j.stock
        BY <3>3, <3>4
      <3>6. QED
        BY <3>1, <3>2, <3>4, <3>5
    <2>4. QED
      BY <2>2, <2>3
  <1>3. CASE UNCHANGED job
    BY <1>1, <1>3
  <1>4. CASE \E w \in Workers : /\ job' = [job EXCEPT ![w] = job'[w]]
                                /\ job'[w].step # "put"
    BY <1>0, <1>1, <1>4
  <1>5. ASSUME NEW w \in Workers, Customer(w), ~ CheckStock(w)
        PROVE  job' = [job EXCEPT ![w] = job'[w]] /\ job'[w].step # "put"
    <2>1. CASE \/ AddToCart(w) \/ PutItem(w) \/ UpdateQuantity(w)
               \/ SetItem(w) \/ StatementRaises(w) \/ Checkout(w)
               \/ Commit(w)
      BY <1>0, <2>1, IdleJob
         DEF AddToCart, PutItem, UpdateQuantity, SetItem, StatementRaises,
             Checkout, Commit
    <2>2. CASE LockProduct(w)
      <3>1. job[w] \in Job /\ job[w].step = "lock"
        BY <1>0, <2>2 DEF LockProduct
      <3>2. PICK new : /\ job' = [job EXCEPT ![w] = new]
                       /\ new.step \in {"lock", "idle"}
        BY <2>2, <3>1, IdleJob DEF LockProduct, Job
      <3>3. QED
        BY <1>0, <3>2
    <2>3. CASE InsertOrder(w) \/ ClearCart(w)
      <3>1. job[w] \in Job /\ job[w].step \in {"lock", "ordered"}
        BY <1>0, <2>3 DEF InsertOrder, ClearCart
      <3>2. PICK new : /\ job' = [job EXCEPT ![w] = new]
                       /\ new.step \in {"ordered", "cleared"}
        BY <1>0, <2>3, <3>1 DEF InsertOrder, ClearCart, Job
      <3>3. QED
        BY <1>0, <3>2
    <2>4. QED
      BY <1>5, <2>1, <2>2, <2>3
         DEF Customer, PostCartItem, PutCartItem, PostCheckout, DeadlockDetected
  <1>6. QED
    BY <1>2, <1>3, <1>4, <1>5
       DEF Next, RemoveItem, UpdateProduct, DeleteProduct, vars

\* An addition passes the stock it read only when the cart has changed between
\* its comparison and its INSERT.
THEOREM AdditionsStayWithinStock == Spec => AddStaysWithinStock
  <1> DEFINE Fits(w) ==
        LET u == job[w].user
            p == job[w].product
        IN  PutItem(w) /\ items[u][p] = job[w].had =>
                items'[u][p] = items[u][p] \/ items'[u][p] <= job[w].stock
  <1>1. Init => AdditionFits
    BY IdleJob DEF Init, AdditionFits
  <1>2. IInv /\ AdditionFits /\ [Next]_vars => AdditionFits'
    BY AdditionFitsStep
  <1>3. IInv /\ AdditionFits /\ [Next]_vars => [\A w \in Workers : Fits(w)]_vars
    <2> SUFFICES ASSUME IInv, AdditionFits, NEW w \in Workers, PutItem(w),
                        items[job[w].user][job[w].product] = job[w].had
                 PROVE  LET u == job[w].user
                            p == job[w].product
                        IN  \/ items'[u][p] = items[u][p]
                            \/ items'[u][p] <= job[w].stock
      OBVIOUS
    <2> DEFINE u == job[w].user
               p == job[w].product
    <2>1. u \in Users /\ p \in Products
      BY DEF PutItem, IInv, TypeOK, Job
    <2>2. job[w].had + job[w].qty <= job[w].stock
      BY DEF PutItem, AdditionFits
    <2>3. \/ items' = items
          \/ items' = [items EXCEPT ![u][p] = @ + job[w].qty]
      BY DEF PutItem
    <2>4. items \in [Users -> Amounts]
      BY DEF IInv, TypeOK
    <2>5. items' = items \/ items'[u][p] = items[u][p] + job[w].qty
      BY <2>1, <2>3, <2>4 DEF Amounts
    <2>6. QED
      BY <2>2, <2>5
  <1>4. Spec => Init /\ [][Next]_vars
    BY DEF Spec
  <1>5. QED
    BY <1>1, <1>2, <1>3, <1>4, CartInvariant, PTL DEF AddStaysWithinStock
=============================================================================
