\* Liveness: three deliveries that all carry the same identity, so that each
\* may have to wait for both others.  No symmetry: it is unsound for liveness.
CONSTANTS
    r1 = r1
    r2 = r2
    r3 = r3
    register = register
    create = create
    Request <- MCRequest
    Key = {create}
    AnonymousKey = {}
    Body = {b1}
    NoKey = NoKey
    BadKey = BadKey
    Nobody = Nobody
    TTL = 1
    MaxNow = 1
SPECIFICATION FairSpec
PROPERTIES
    WaitingEnds
