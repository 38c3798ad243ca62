SPECIFICATION PublisherFairSpec
CONSTANTS
    c1 = c1
    c2 = c2
    Conns = {c1, c2}
    TopicSets <- AllTopicSets
    Cap = 1
    MaxEvents = 2
INVARIANT BrokerSafe
PROPERTIES ImplementsPresence ImplementsFeed PublishReturns
CHECK_DEADLOCK FALSE
