\* Safety of the idempotency protocol: three deliveries, one anonymous and one
\* authenticated identity, two bodies, and time for one expiry.
CONSTANTS
    r1 = r1
    r2 = r2
    r3 = r3
    register = register
    create = create
    Request <- MCRequest
    Key <- MCKey
    AnonymousKey <- MCAnonymousKey
    Body = {b1, b2}
    NoKey = NoKey
    BadKey = BadKey
    Nobody = Nobody
    TTL = 1
    MaxNow = 2
SYMMETRY Symmetry
SPECIFICATION Spec
INVARIANTS
    TypeOK
    OncePerLifetime
    RecordedTogether
    ReplaysOwnRequest
    OwnStatementsProceed
PROPERTIES
    ImplementsCommand

