SPECIFICATION Spec
CONSTANTS
    c1 = c1
    c2 = c2
    u1 = u1
    Conns <- MCConns
    Users = {u1}
    UserOf <- MCUserOf
    Channels = {ticks}
    Publishers = {p1, p2}
    MaxConnections = 1
    MaxSeq = 3
INVARIANTS
    SeqsInOrder
CHECK_DEADLOCK FALSE
