CONSTANTS
    Last = 3
    Simple = {"normal", "return"}
    Targeted = {"jump", "branch", "call"}
    Symbols = {1}
    UserEntries = {1, 3}
    MaxUser = 1
    Modes = {"full", "partial", "exclusive"}
    Address <- MCAddress
    Mapped <- MCMapped
    Inputs <- BothInputs
    None = None
SPECIFICATION FairSpec
INVARIANTS AllDeclaredDefined DiscoveryComplete BlocksComplete SeparateBranchesStay NullInfoOnlyPartial
PROPERTIES LiftDecodesNothingNew Terminates
