SPECIFICATION Spec
CONSTANTS
    t1 = t1
    t2 = t2
    r1 = r1
    r2 = r2
    x1 = x1
    x2 = x2
    m1 = m1
    m2 = m2
    ca = ca
    cb = cb
    Fats <- MCFats
    Manifest <- MCManifest
    Outages <- MCOutages
    Threads = {t1, t2}
    Readers = {r1, r2}
    Exes = {x1, x2}
    Mailboxes = {m1, m2}
    Overlap = TRUE
    Faults = FALSE
    Null = Null
CHECK_DEADLOCK FALSE
INVARIANTS
    StartedOnce
