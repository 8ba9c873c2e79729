SPECIFICATION Spec
CONSTANTS
    m1 = m1
    m2 = m2
    b1 = b1
    b2 = b2
    p1 = p1
    p2 = p2
    e1 = e1
    e2 = e2
    k1 = k1
    k2 = k2
    s1 = s1
    MaxInFlight = 2
    MaxMishaps = 1
    None = None
    Gone = Gone
    MaxActs = 1
    Mails = {m1, m2}
    Boxes = {b1, b2}
    Inbox = Inbox
    Tagged = {b2}
    Prefixes = {p1, p2}
    Mocks = {e1, e2}
    Keys = {k1, k2}
    PathOf <- MCPath
    Children = {s1}
    Sequences = {s1}
INVARIANTS
    TypeOK
    AddressesDistinct
    PageShowsItsOwn
    NothingHangs
SYMMETRY
    Interchangeable
