\* The number of NFTs of a diploma.
SPECIFICATION Spec
CONSTANTS
    Request = {r1, r2, r3}
    Org = {g1, g2}
INVARIANT
    MintedOnce
CHECK_DEADLOCK FALSE
