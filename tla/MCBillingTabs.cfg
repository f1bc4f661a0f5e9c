SPECIFICATION BillingSpec
CONSTANTS
    c1 = c1  c2 = c2  h1 = h1
    Checkouts = {c1, c2}
    Hooks = {h1}
    NoCheckout = NoCheckout
    MaxEvents = 4
INVARIANTS
    OneSubscription
CHECK_DEADLOCK FALSE
