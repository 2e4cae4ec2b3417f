CONSTANTS
    N = 5
    Orders <- UpAndDown
    Shape <- AllDifferent
SPECIFICATION Spec
INVARIANTS GuardsExact
