CONSTANTS
    Nodes = {1, 2, 3, 4, 5, 6, 7, 8, 9, 10}
    Key <- MCKey
    Null = 0
SPECIFICATION Spec
INVARIANTS WellLinked RedBlack Navigation
PROPERTY IsKeyBag
CHECK_DEADLOCK FALSE
