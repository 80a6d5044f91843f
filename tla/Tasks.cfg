\* Two connections of one cluster and both periodic tasks.
SPECIFICATION TaskFairSpec
CONSTANTS
    c1 = c1
    c2 = c2
    east = east
    acme = acme
    k1 = k1
    Account = {acme}
    AccessKey = {k1}
    Client = {east}
    Conn = {c1, c2}
    Registrant = {c1, c2}
    Worker = {}
    NoConn = NoConn
    NoEntry = NoEntry
    WithFeatures = FALSE
    Outdated = {c1}
    SendBatch = TRUE
    ClientOf <- OneCluster
    AccountOf <- OneAccount
    KeyOf <- OneKey
INVARIANTS TaskTypeOK VisitsConnected
PROPERTIES ReportsSettle 
