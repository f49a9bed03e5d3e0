CONSTANTS
    c1 = c1
    c2 = c2
    r1 = r1
    r2 = r2
    w1 = w1
    w2 = w2
    s1 = s1
    s2 = s2
    g1 = g1
    g2 = g2
    g3 = g3
    NoConn = NoConn
    NoState = NoState
    NoGrant = NoGrant
    NoTx = NoTx
    Conn <- MCConn
    Request <- MCOneRequest
    Worker <- MCOneWorker
    State <- MCOneState
    Grant <- MCTwoGrant
    MaxSerial = 2
SPECIFICATION FairSpec
PROPERTY EverySyncWalks
CHECK_DEADLOCK FALSE
