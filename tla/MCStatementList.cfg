CONSTANTS
    ifElse = ifElse
    loop = loop
    Plain = {a, b}
    ifBody = ifBody
    elseBody = elseBody
    loopBody = loopBody
    reference = reference
    None = None
    MaxReplaced = 1
    Statement <- MCStatement
    List <- MCList
    Owner <- MCOwner
SPECIFICATION Spec
INVARIANTS WellLinked
PROPERTIES ActsAsSequences
