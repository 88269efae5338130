SPECIFICATION SafeSpec
CONSTANTS
    c1 = c1
    c2 = c2
    c3 = c3
    NULL = NULL
    Callouts <- ThreeCallouts
    WheelSize = 2
    TickMod = 4
    ToTicks = {0, 2}
    DirectFlags = {TRUE, FALSE}
    SelfDrain = TRUE
SYMMETRY Symmetry3
INVARIANTS WheelInvariant NoneMissed RunsArmed
PROPERTY ImplementsTimers
