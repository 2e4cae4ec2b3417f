CONSTANTS
    N = 5
    Orders = {"up", "down"}
    MaxBlock = 9
    MaxCase = 3
    None = None
    Programs <- SmallFunctions
    Shape <- DispatchAlike
SPECIFICATION Spec
INVARIANTS SimpleLoopsTranslated SingleBlockLeft RangesOrdered EdgesLinked
PROPERTIES Progress
CHECK_DEADLOCK FALSE
