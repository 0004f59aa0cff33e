\* A token is presented again while another request is rotating the family's
\* live session.
CONSTANTS
    h1 = h1
    h2 = h2
    s1 = s1
    s2 = s2
    s3 = s3
    Handler <- MCHandler
    Session <- MCSession
    User = {u1}
    None = None
SPECIFICATION Spec
INVARIANTS
    FamilyRevokedOnReuse
