\* One attachment, two concurrent requests of two users, and the worker.
CONSTANTS
    h1 = h1
    h2 = h2
    u1 = u1
    u2 = u2
    Attachment = {a1}
    User <- MCUser
    Handler <- MCHandler
    Worker = {w1}
    BatchSize = 1
    Granted <- MCAll
    None = None
SYMMETRY Symmetry
SPECIFICATION Spec
INVARIANTS
    TypeOK
    ReadyWasChecked
    NoOrphans
PROPERTIES
    StagesGoForward
    WritersOnly
