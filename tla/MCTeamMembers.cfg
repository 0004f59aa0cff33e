\* Two concurrent requests of every kind on a team of three users.
CONSTANTS
    h1 = h1
    h2 = h2
    u1 = u1
    u2 = u2
    u3 = u3
    User <- MCUser3
    Invitation = {i1}
    Handler <- MCHandler
    Offered <- Op
    None = None
SYMMETRY Symmetry
SPECIFICATION Spec
INVARIANTS
    TypeOK
    DeadlocksAreTransfers
PROPERTIES
    ImplementsTeamRoles
    LastOwnerStays
    InvitationUsedOnce
    OwnersComeFromOwners
    RemovedStaysRemoved
    DeletedTeamFrozen
