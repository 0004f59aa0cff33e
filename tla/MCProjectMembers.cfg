\* Two concurrent requests of every kind of two users, whose team roles change.
CONSTANTS
    h1 = h1
    h2 = h2
    u1 = u1
    u2 = u2
    User <- MCUser
    Handler <- MCHandler
    Grantable = {"ADMIN", "VIEWER"}
    None = None
SYMMETRY Symmetry
SPECIFICATION Spec
INVARIANTS
    TypeOK
PROPERTIES
    JoinersComeFromTeam
    AdministratorsAreAppointed
    DeletedProjectFrozen
    ImplementsAccess
