CONSTANTS
    leaf = leaf
    Unary = {negate, deref}
    binary = binary
    statement = statement
    reference = reference
    Expr <- MCExpr
    Holder <- MCHolder
    Slot <- MCSlot
    UserOf <- MCUserOf
    Overwritten = {deref}
    None = None
SPECIFICATION FairSpec
INVARIANTS UsesExact UsedIsComplete NoGarbage
PROPERTIES CallsReturn
