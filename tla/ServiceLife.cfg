SPECIFICATION FairSpec
CONSTANTS
    fd1 = fd1
    fd2 = fd2
    fd3 = fd3
    Numbers = {fd1, fd2, fd3}
    NoNumber = NoNumber
    MaxCreates = 2
INVARIANTS
    TypeOK
    ListOwned
    TunIsOwn
    OwnStop
    SocketsListed
PROPERTIES
    StopReturns
    ImplementsLoop
