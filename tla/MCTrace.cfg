SPECIFICATION Spec
CONSTANTS
    ip1 = ip1  ip2 = ip2
    m1 = m1  m2 = m2
    s1 = s1  s2 = s2
    u1 = u1  u2 = u2
    n1 = n1  n2 = n2
    IPs = {ip1, ip2}
    Names = {n1, n2}
    Wanted = {n1}
    Macs = {m1, m2}
    Sessions = {s1, s2}
    Users = {u1, u2}
    Leases <- MCLeases
    Logins <- MCLogins
    From = 3
    To = 4
    MaxLease = 1
    MaxSession = 1
    NoToken = NoToken
    Ambiguous = Ambiguous
    None = None
    Absent = Absent
    MaxTime = 4
    MaxRows = 5
INVARIANTS
    BindingsAreEvidence
    LiveStoreAgrees
