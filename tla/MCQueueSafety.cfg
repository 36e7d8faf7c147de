SPECIFICATION MCSpec
CONSTANTS
    N = 2
    Producers = {p1, p2}
    Consumers = {c1, c2}
    Stoppers = {s1}
    Threads = {p1, p2, c1, c2, s1}
    Values = {v1, v2, v3, v4}
    NoValue = NoValue
SYMMETRY Symmetry
INVARIANTS QTypeOK FirstInFirstOut NoForgottenWaiter
PROPERTY ImplementsFifo
