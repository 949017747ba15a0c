SPECIFICATION Spec
CONSTANTS
    c1 = c1
    c2 = c2
    Secret = {c1, c2}
    LastVersion = 3
INVARIANTS
    SecretsNameAKey
CHECK_DEADLOCK FALSE
