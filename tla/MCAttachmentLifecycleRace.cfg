\* One attachment, one user and one worker.
CONSTANTS
    h1 = h1
    h2 = h2
    u1 = u1
    u2 = u2
    Attachment = {a1}
    User = {u1}
    Handler = {h1}
    Worker = {w1}
    BatchSize = 1
    Granted = {"MEMBER"}
    None = None
SPECIFICATION Spec
PROPERTIES
    CleanupTakesPendingOnly
