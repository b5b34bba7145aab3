CONSTANTS
    a1 = a1
    a2 = a2
    c1 = c1
    c2 = c2
    c3 = c3
    None = None
    Addrs <- MCAddrs
    ConnIds <- MCConnIds
    MaxDatagrams <- MCMaxDatagrams
SPECIFICATION Spec
INVARIANT ServeNeverRejects
CHECK_DEADLOCK FALSE
