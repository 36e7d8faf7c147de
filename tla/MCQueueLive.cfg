SPECIFICATION MCFairSpec
CONSTANTS
    N = 1
    Producers = {p1, p2}
    Consumers = {c1, c2}
    Stoppers = {}
    Threads = {p1, p2, c1, c2}
    Values = {v1, v2, v3}
    NoValue = NoValue
PROPERTIES EverythingIsDelivered ProducersReturn
