SPECIFICATION FairSpec
CONSTANTS
    n1 = n1
    n2 = n2
    s1 = s1
    s2 = s2
    s3 = s3
    Nodes = {n1, n2}
    Sockets = {s1, s2, s3}
    SocketNode <- TwoNodes
    Users = {u1}
    Devices = {d1, d2}
    HttpDevice = http
    None = None
    Slots = {k1}
    Crashable = {n1}
    Allowed = {"overlap", "sync", "midcrash", "replace", "move"}
PROPERTY DestroyedNodesCleaned
