\* Two rotations (or a rotation and a retirement) of three keys by a rolling
\* restart of two processes.
SPECIFICATION Spec
CONSTANTS
    Servers = {s1, s2}
    RelyingParties = {r1}
    Keys = {k1, k2, k3}
    Scopes = {"email"}
    Lifetime = 1
    MaxReleases = 3
    MaxTokens = 2
    MaxTime = 2
SYMMETRY Symmetry
INVARIANTS
    RotationIsGraceful
    RelyingPartiesFollow
    RevocationTakesEffect
    ClaimsWithinGrant
