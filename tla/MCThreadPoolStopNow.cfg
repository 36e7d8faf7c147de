SPECIFICATION StopNowSpec
CONSTANTS
    t1 = t1
    t2 = t2
    Workers = {w1, w2}
    Clients = {c1}
    Controller = k
    Threads = {w1, w2, c1, k}
    N = 2
    NumThreads = 1
    Values = {t1, t2}
    NoValue = NoValue
    WaitsFor <- Independent
PROPERTY StopNowShutsDown
