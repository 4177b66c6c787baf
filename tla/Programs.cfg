SPECIFICATION ProgramsSpec
CONSTANTS
    \* BatchTask
    Goal = 7
    Batch = 2
    \* BoundedBuffer
    Producer = producer
    Consumers = {c1, c2, c3}
    Free = free
    capicity = 2
    MaxSpurious = 2
    \* ForkServer
    Server = server
    Client = {k1, k2}
    Listener = listener
    \* Daemon
    MaxFd = 5
    \* Pipes
    Buffer = 4
    Message = 3
    Capacity = 8
    \* Datagrams
    Receiver = {r1, r2}
    MaxLines = 2
    MaxLength = 2
    \* EchoServer
    EchoClient = {e1, e2}
    MaxClients = 2
    MaxWords = 3
    WordLength = {1, 3}
    Room = 4
    Prefix = 2
    \* Singleton
    Thread = {t1, t2, t3}
    \* SmartPointers
    Object = {o1, o2}
    Pointer = {s1, s2, s3}
    Null = null
    \* MemoryPool
    Block = {b1, b2}
    User = {u1, u2, u3}
    NoBlock = nullptr
    \* WeatherStation
    Observer = {d1, d2}
    Weather = {w1, w2}
    MaxEntries = 3
    \* JoinedThreads
    Workers = 3
    Slice = 2
INVARIANTS
    ProgramsTyped
    NoForgottenBatch
    IndexInBounds
    NoForgottenConsumer
    NoForgottenProducer
    NoChildForgotten
    OwnClientOnly
    Detached
    StaleOnlyUnsent
    PrintedAsSent
    EchoInStep
    OneInstance
    OwnedOnce
    BlockHeldOnce
    PrintedWhenJoined
PROPERTIES
    EveryBatchTaken
    KeepsMoving
    EveryClientServed
    PipeDelivers
    RemovalComplete
CHECK_DEADLOCK FALSE
