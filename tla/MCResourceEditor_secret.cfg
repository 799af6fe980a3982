SPECIFICATION Spec
CONSTANTS
    m1 = m1
    m2 = m2
    e1 = e1
    d1 = d1
    d2 = d2
    Pages = {p}
    Clients = {c}
    Kinds <- MCSecret
    Starts <- MCStarts
    Requested <- MCRequested
    Meta = {m1, m2}
    Data = {d1, d2}
    Extra = {e1}
    AsBase64 <- MCAsBase64
    Reread <- MCReread
    Bad = Bad
    None = None
    MaxVersion = 3
    MaxCalls = 2
    MaxEdits = 2
PROPERTY
    ValuesSurvive
CHECK_DEADLOCK FALSE
