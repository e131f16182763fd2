SPECIFICATION Spec
CONSTANTS
    p1 = p1
    p2 = p2
    l1 = l1
    l2 = l2
    l3 = l3
    Key = {k1}
    Request = {l1, l2, l3}
    Login = {l1, l2, l3}
    User = {u1}
    Password = {p1, p2}
    None = none
    Max = 2
    Window = 2
    Expiry = 2
    MaxTime = 3
    MaxChanges = 2
INVARIANTS
    TypeOK
    LimitExact
    AcceptedExactlyWhile
PROPERTY
    NeverRevived
SYMMETRY Alike
