\* Role changes and removals, two at a time, in a team that grows by invitations.
CONSTANTS
    h1 = h1
    h2 = h2
    u1 = u1
    u2 = u2
    u3 = u3
    User <- MCUser2
    Invitation = {i1}
    Handler <- MCHandler
    Offered = {"invite", "accept", "change", "remove"}
    None = None
SPECIFICATION Spec
PROPERTIES
    LastOwnerNotRemoved
