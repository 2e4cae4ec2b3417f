SPECIFICATION Spec
CONSTANTS
    NumFuncs = 3
    Conventions <- MCConventions
    Bodies <- MCBodies
INVARIANT NoCallIsLost
