\* Two sizes of K and T, matrices of exactly K * T and of two and four times that,
\* and two workers.
SPECIFICATION Spec
CONSTANTS
    Unset = Unset
    Workers = {w1, w2}
    Ks = {1, 2}
    Ts = {1, 2}
    Extra = {0, 1, 2}
INVARIANTS
    CommitShape
    GeometryAgrees
    ContextRestored
