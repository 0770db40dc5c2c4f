SPECIFICATION HttpxSpec
CONSTANTS
    t1 = t1
    t2 = t2
    t3 = t3
    Tasks = {t1, t2, t3}
    Closers = {t1}
    MaxClients = 3
INVARIANTS
    HttpxTypeOK
    OpenClientIsHeld
    InjectedStaysOpen
