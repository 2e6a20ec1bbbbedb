SPECIFICATION FairSpec
CONSTANTS
    Workers = {w1, w2}
    Topics = {t1, t2}
    EventsTopic = te
    w1 = w1
    w2 = w2
    t1 = t1
    t2 = t2
    te = te
    Rounds = 2
    StartAttempts = 3
    RedisRetries = 2
    StartCap = 30
    RedisCap = 8
    MaxOutages = 1
INVARIANTS
    TypeOK
    ConsumersHaveTopics
    TopicsAsPlanned
PROPERTIES
    StorageComesUp
    CacheStartEnds
CHECK_DEADLOCK FALSE
