SPECIFICATION Spec
CONSTANTS
    ip1 = ip1
    m1 = m1
    m2 = m2
    s1 = s1
    s2 = s2
    u1 = u1
    u2 = u2
    IPs = {ip1}
    Macs = {m1, m2}
    Sessions = {s1, s2}
    Users = {u1, u2}
    Leases <- MCLeases
    Logins <- MCLogins
    NoUser = nouser
    NoMac = nomac
    Absent = absent
    MaxLease = 2
    MaxSession = 1
    MaxTime = 3
    MaxClock = 6
INVARIANTS
    NewestWins
    ClosedStaysClosed
    HandoverConverges
