\* Three connections of one cluster, and a worker whose messages they fail to
\* write.
SPECIFICATION Spec
CONSTANTS
    c1 = c1
    c2 = c2
    c3 = c3
    east = east
    west = west
    acme = acme
    k1 = k1
    k2 = k2
    Account = {acme}
    AccessKey = {k1}
    Client = {east}
    Conn = {c1, c2, c3}
    Registrant = {c1, c2, c3}
    Worker = {w1}
    NoConn = NoConn
    NoEntry = NoEntry
    WithFeatures = FALSE
    ClientOf <- OneCluster
    AccountOf <- OneAccount
    KeyOf <- OneKey
SYMMETRY ConnSymmetry
INVARIANTS TypeOK GaugeExact NoResidue NewestRegistered
PROPERTIES NeverOlder OwnershipKept
CHECK_DEADLOCK FALSE
