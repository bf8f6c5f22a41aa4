SPECIFICATION Spec
CONSTANTS
    g1 = g1
    g2 = g2
    e1 = e1
    e2 = e2
    NONE = NONE
    sp = sp
    Waiters = {g1}
    Managers = {g2}
    Engines = {e1, e2}
    Threads = {g1, g2, e1, e2}
    Syncpoints = {sp}
    MaxValue = 2
    MaxNvEvents = 1
    MaxFails = 0
    ClientManaged = {}
    WordSize = 8
PROPERTY SignalIsAlwaysDue
