\* Two concurrent requests of two users on one task with one comment, three
\* versions, and a project whose members change.
CONSTANTS
    h1 = h1
    h2 = h2
    u1 = u1
    u2 = u2
    User <- MCUser
    Comment = {c1}
    Handler <- MCHandler
    Assignable <- MCAssignable
    Keep = Keep
    Erased = Erased
    None = None
    MaxVersion = 2
SYMMETRY Symmetry
SPECIFICATION Spec
INVARIANTS
    TypeOK
PROPERTIES
    ImplementsRow
    UpdatesAreEntitled
    AssigneesAreMembers
    WritersOnly
    CommentsFollowTask
