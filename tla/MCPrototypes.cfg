SPECIFICATION Spec
CONSTANTS
    NumFuncs = 3
    Conventions <- MCConventions
    Bodies <- MCBodies
INVARIANTS ReadsArrive ResultsArrive BackwardCallsFollow StackArgsLand CallsCoverPrototypes CalleesExist
