\* An answer of "expired" may be followed by a purchase.
SPECIFICATION Spec
CONSTANTS
    Panels = {"p", "q"}
    DurationFirst = {"q"}
    WithCustom = {"p"}
    Messages = {m1, m2}
INVARIANT ExpiredTakesNothing
