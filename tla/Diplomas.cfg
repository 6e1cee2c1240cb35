\* Three requests of two organizations, overlapping, failing or lost.
SPECIFICATION Spec
CONSTANTS
    Request = {r1, r2, r3}
    Org = {g1, g2}
INVARIANTS
    MintedOnceUndisturbed
    RevocationReachesNFT
PROPERTY
    RevokedByOwnOrganization
CHECK_DEADLOCK FALSE
