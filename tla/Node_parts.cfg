SPECIFICATION MCSpec
CONSTANTS
    w1 = w1
    w2 = w2
    a1 = a1
    b1 = b1
    c2 = c2
    n1 = n1
    n2 = n2
    n3 = n3
    alice = alice
    bob = bob
    Nothing = Nothing
    Writers = {w1, w2}
    Blocks = {a1, b1, c2}
    HeightOf <- MCHeightOf
    MaxHeight = 2
    Notes = {n1, n2, n3}
    HintOf <- MCHintOf
    peer1 = peer1
    peer2 = peer2
    v1 = v1
    ta = ta
    tb = tb
    Nodes = {peer1, peer2}
    Proposers = {v1}
    Txs = {ta, tb}
    Pool <- MCPool
    TxSize <- MCTxSize
    MaxSize = 5
    MaxTxs = 4
    MaxBody = 4
    MaxProposals = 3
    HashRank <- MCHashRank
    Stakes = {0, 1}
    Wallets = {gen1, gen2}
    Keys = {ka, kb}
    Passphrases = {pa, pb, Blank}
    Blank = Blank
    BadDigits = BadDigits
    BadTexts = {BadDigits, ShortHex, Blank}
    Absent = Absent
    NoKey = NoKey
    Unset = Unset
    op1 = op1
    op2 = op2
    Operators = {op1, op2}
    MaxCommands = 3
    NoFile = NoFile
    Hole = Hole
    p1 = p1
    p2 = p2
    Never = Never
    Peers = {p1, p2}
    MaxInvalid = 2
    BanSecs = 3
    ReconnectDelay = 2
    MaxTime = 6
    MaxMessages = 4
    s1 = s1
    near = near
    far = far
    stuck = stuck
    CrossTxs = {near, far, stuck}
    SourceShard <- MCSource
    DestinationShard <- MCDestination
    InitialCount = 2
    Proposals = {0, 1, 2, 3, 4}
    Slots = {s1}
    Foreign <- MCForeign
    MaxReceipts = 3
SYMMETRY Symmetry
CHECK_DEADLOCK FALSE
INVARIANTS
    
    BodyIsCommitted
    ForkChoiceConverges
    BansAreExact
    OffencesAreCounted
    ConfiguredKeyLoads
    CeremonyIsAuditable
    FinalMeansThreeReceipts
PROPERTIES
    PhasesKeepVerdict
    FinalityOutlivesPhases
