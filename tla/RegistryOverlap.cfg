SPECIFICATION Spec
CONSTANTS
    n1 = n1
    n2 = n2
    s1 = s1
    s2 = s2
    s3 = s3
    Nodes = {n1}
    Sockets = {s1, s2}
    SocketNode <- OneNode
    Users = {u1}
    Devices = {d1, d2}
    HttpDevice = http
    None = None
    Slots = {k1, k2}
    Crashable = {}
    Allowed = {"overlap", "reauth", "replace", "http", "delete"}
SYMMETRY OneNodeSymmetry
INVARIANTS TypeOK UniqueConnections
PROPERTY CloseIsLocal
