SPECIFICATION Spec
CONSTANTS
    Trees <- MCTrees
    Starts <- MCStarts
    Draws <- MCDraws
INVARIANTS SameBehaviour
