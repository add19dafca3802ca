SPECIFICATION Spec
CONSTANTS
    None = None
    Workers = {w1, w2}
    Users = {u, v}
    Products = {a}
    Quantities = {1, 2}
    Stocks <- SavedStocks
    Prices <- SavedPrices
    MaxOrders = 2
SYMMETRY Alike
INVARIANTS
    TotalCoversLines
    OrderedProductsExist
PROPERTIES
    OrderTakesCart
    AddStaysWithinStock
    NothingOversold
