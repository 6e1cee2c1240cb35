\* Three logins of two persons, overlapping, failing or lost in a crash.
SPECIFICATION LoginSpec
CONSTANTS
    Request = {r1, r2, r3}
    Person = {p1, p2}
INVARIANTS
    OneRoleWithoutOverlap
    RoleOrRepair
PROPERTY
    VerifiedGetsRole
CHECK_DEADLOCK FALSE
