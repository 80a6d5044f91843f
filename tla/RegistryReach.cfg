\* Two connections of one cluster: who gets the messages.
SPECIFICATION Spec
CONSTANTS
    c1 = c1
    c2 = c2
    c3 = c3
    east = east
    west = west
    acme = acme
    k1 = k1
    k2 = k2
    Account = {acme}
    AccessKey = {k1}
    Client = {east}
    Conn = {c1, c2}
    Registrant = {c1, c2}
    Worker = {w1}
    NoConn = NoConn
    NoEntry = NoEntry
    WithFeatures = FALSE
    ClientOf <- OneCluster
    AccountOf <- OneAccount
    KeyOf <- OneKey
SYMMETRY ConnSymmetry
INVARIANT NewestReachable
CHECK_DEADLOCK FALSE
