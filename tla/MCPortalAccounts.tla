-------------------------- MODULE MCPortalAccounts --------------------------
(* Small instances of PortalAccounts for TLC. *)
EXTENDS PortalAccounts, TLC

CONSTANTS a, b, k1, k2

\* One account administers; the other may be promoted and has passkeys to add
\* and remove, two of them at a time.
Asked ==
    ((AdminKind \cup {"pend"} \cup TeamKind \cup {"totp", "no_totp"}) \X {a})
    \cup ({"passkey", "no_passkey", "demote", "remove", "redeem"} \X {b})

Symmetry == Permutations(Passkey)
=============================================================================
