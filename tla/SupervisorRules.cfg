CONSTANTS
    k1 = k1
    k2 = k2
    fEnabled = fEnabled
    fParams = fParams
    old = old
    new = new
    u1 = u1
    u2 = u2
    unknown = unknown
    Rule = {k1}
    Field = {fEnabled, fParams}
    Value = {old, new}
    Default <- DefaultContent
    Process = {p1, p2}
    Req = {u1, u2, r1}
    Change = {u1, u2}
    Named <- NamedUnknown
    Updates <- UpdatesOne
    Seeded = FALSE
    Nobody = Nobody
    Delay = 1
    TTL = 2
    MaxTime = 2
    MaxRestarts = 1
SPECIFICATION Spec
SYMMETRY Symmetry
INVARIANTS TypeOK NeverEarly FreshSnapshot
PROPERTY ImplementsRuleBook
CHECK_DEADLOCK FALSE
