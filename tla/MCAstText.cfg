SPECIFICATION Spec
CONSTANTS
    W = 2
    MaxRounds = 3
    Functions <- MCFunctions
    Inputs <- MCInputs
INVARIANTS NothingLeftOver DeclaredInScope ElsesFollow TextBehaves
