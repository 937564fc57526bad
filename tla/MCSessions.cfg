CONSTANTS
    Calls = {c1, c2}
    MaxCalls = 3
    Passwords = {p1}
    None = None
SPECIFICATION Spec
SYMMETRY AnyCall
INVARIANTS UsedLinkIsDead JoinedWorkGoesOn
PROPERTIES NotBroughtBack KeptUnlessLapsed
CHECK_DEADLOCK FALSE
