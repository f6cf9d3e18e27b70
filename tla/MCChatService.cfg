CONSTANTS
    Conn = {c1, c2}
    RoomID = {1}
    MaxPosts = 2
SPECIFICATION Spec
CHECK_DEADLOCK FALSE
SYMMETRY Symmetry
INVARIANTS AuthorOrder SameOrder
