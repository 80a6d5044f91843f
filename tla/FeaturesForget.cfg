\* What is left of an account after its last connection.
SPECIFICATION Spec
CONSTANTS
    c1 = c1
    c2 = c2
    c3 = c3
    east = east
    west = west
    acme = acme
    k1 = k1
    k2 = k2
    Account = {acme}
    AccessKey = {k1, k2}
    Client = {east, west}
    Conn = {c1, c2, c3}
    Registrant = {c1, c2, c3}
    Worker = {}
    NoConn = NoConn
    NoEntry = NoEntry
    WithFeatures = TRUE
    ClientOf <- TwoClusters
    AccountOf <- OneAccount
    KeyOf <- RotatedKey
INVARIANT AccountForgotten
CHECK_DEADLOCK FALSE
