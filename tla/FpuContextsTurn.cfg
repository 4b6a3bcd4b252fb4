CONSTANTS
    c1 = c1
    c2 = c2
    c3 = c3
    NoContext = NoContext
    Context = {c1, c2}
    NotPreempted = NotPreempted
    Lane = {"a", "b"}
    CacheCapacity = 2
    MaxAge = 3
SPECIFICATION ContextSpec
PROPERTY RestoreExact
