\* Two concurrent requests over up to three sessions of one user: enough for a
\* rotation to meet a sweep and for two sweeps to wait for each other.  No
\* symmetry: it is unsound for liveness.
CONSTANTS
    h1 = h1
    h2 = h2
    s1 = s1
    s2 = s2
    s3 = s3
    Handler <- MCHandler
    Session <- MCSession
    User = {u1}
    None = None
SPECIFICATION FairSpec
INVARIANTS
    TypeOK
    RotationChain
PROPERTIES
    BornFromLive
    RevokesWhatItSaw
    RequestsEnd
