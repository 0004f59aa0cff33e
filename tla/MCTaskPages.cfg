\* Four tasks with two due dates or none, in pages of one or two, while tasks change.
CONSTANTS
    Task <- MCTask
    Key = {1, 2}
    Null = Null
    Absent = Absent
    Limit = {1, 2}
    None = None
SPECIFICATION Spec
INVARIANTS
    TypeOK
    Lossless
    PagesInOrder
CHECK_DEADLOCK FALSE
