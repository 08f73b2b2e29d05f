CONSTANTS
    k1 = k1
    k2 = k2
    fEnabled = fEnabled
    fParams = fParams
    old = old
    new = new
    u1 = u1
    u2 = u2
    unknown = unknown
    Rule = {k1}
    Field = {fEnabled, fParams}
    Value = {old, new}
    Default <- DefaultContent
    Process = {p1}
    Req = {u1, u2, r1}
    Change = {u1, u2}
    Named <- NamedOne
    Updates <- UpdatesOne
    Seeded = TRUE
    Nobody = Nobody
    Delay = 2
    TTL = 1
    MaxTime = 6
    MaxRestarts = 0
SPECIFICATION Spec
SYMMETRY Symmetry
INVARIANT ChangesApply
CHECK_DEADLOCK FALSE
