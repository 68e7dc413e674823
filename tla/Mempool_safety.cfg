SPECIFICATION Spec
CONSTANTS
    c1 = c1
    c2 = c2
    t1 = t1
    t2 = t2
    t3 = t3
    t4 = t4
    NoClient = NoClient
    NoTx = NoTx
    Clients <- MCClients
    PartitionCount = 2
    Addresses <- MCAddresses
    PartitionForAddress <- MCPartitionForAddress
    Txs <- MCTxs
    From <- MCFrom
    ChannelCapacity = 1
    MaxPerAddress = 1
    BlockLimits = {2}
    MaxSubmissions = 3
SYMMETRY Symmetry
INVARIANTS
    TypeOK
    NoTransactionLost
    NoTransactionTwice
    SenderCapPerBlock
    SenderFifo
    LenSeesOwnAdds
    RequestProtocol
    LoopSelectsClosedForm
