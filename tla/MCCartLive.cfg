SPECIFICATION ShoppingSpec
CONSTANTS
    None = None
    Workers = {w1, w2}
    Users = {u, v}
    Products = {a, b}
    Quantities = {1}
    Stocks = {1}
    Prices = {0}
    MaxOrders = 2
PROPERTY RequestsFinish
