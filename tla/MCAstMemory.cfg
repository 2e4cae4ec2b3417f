CONSTANTS
    ChunkSize = 64
    WordSize = 2
    HeadSize = 4
    UseSize = 6
    ObjectSize = 8
    Counts = {5, 11, 22}
    Lengths = {0, 3}
    Gap = {0, 4}
    MaxObjects = 4
SPECIFICATION Spec
INVARIANTS BlocksPlaced UserFound
CHECK_DEADLOCK FALSE
