------------------------------- MODULE MCCart -------------------------------
(* Cart on small instances. *)
EXTENDS Cart, TLC

\* Threads and customers differ in name only.
Alike == Permutations(Workers) \cup Permutations(Users)

\* An administrator saves a stock below zero as well.
SavedStocks == {-1, 2}
SavedPrices == {-1, 2}

\* Customers who fill carts and check them out.  The other operations are left
\* out to keep the liveness graph small: they are single statements that hold
\* no lock when they end, or wait as PutItem does; a statement that raises only
\* ends its request early.
Shopping(w) == \/ AddToCart(w) \/ CheckStock(w) \/ PutItem(w)
               \/ Checkout(w) \/ LockProduct(w) \/ InsertOrder(w)
               \/ ClearCart(w) \/ Commit(w)
               \/ DeadlockDetected(w)

ShoppingSpec == Init /\ [][\E w \in Workers : Shopping(w)]_vars /\ Fairness
=============================================================================
