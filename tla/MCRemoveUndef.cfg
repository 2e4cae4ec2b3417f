CONSTANTS
    undef = undef
    value = value
    reference = reference
    Assignment = {a1, a2}
    Statement = {s1, s2, s3}
    None = None
    Overwritten = {}
    Expr <- MCExpr
    Holder <- MCHolder
    Slot <- MCSlot
    UserOf <- MCUserOf
    Source <- MCSource
    context <- MCContext
    Fits <- MCFits
SPECIFICATION FairPassSpec
INVARIANTS ErasedIsDropped
PROPERTIES OnlyUndefErased PassEnds
