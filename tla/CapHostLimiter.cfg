SPECIFICATION LimiterLiveSpec
CONSTANTS
    p1 = p1
    p2 = p2
    p3 = p3
    p4 = p4
    h1 = h1
    h2 = h2
    h3 = h3
    Callers = {p1, p2, p3, p4}
    Hosts = {h1, h2, h3}
    HostOf <- MCHostOf
    MinHostInterval = 1
    MaxParallelHosts = 2
INVARIANTS LimiterTypeOK OnePerHost MaxParallel
PROPERTIES MinGap Served
