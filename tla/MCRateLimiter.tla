--------------------------- MODULE MCRateLimiter ---------------------------
EXTENDS RateLimiter, TLC

\* Model values for the functions: the global limiter and the one of /login.
LoginOnly == {"login"}
RPM8 == [l \in {"global", "login"} |-> 8]
RPM3 == [l \in {"global", "login"} |-> 3]
LoginBurst1 == [l \in {"login"} |-> 1]

\* Requests are interchangeable.
Symmetry == Permutations(Procs)
=============================================================================
