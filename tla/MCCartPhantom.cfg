SPECIFICATION Spec
CONSTANTS
    None = None
    Workers = {w1, w2}
    Users = {u}
    Products = {a, b}
    Quantities = {1}
    Stocks = {1}
    Prices = {1}
    MaxOrders = 1
INVARIANT TotalIsSumOfLines
