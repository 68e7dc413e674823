SPECIFICATION GossipSpec
CONSTANTS
    vote = vote
    tx = tx
    badtx = badtx
    text = text
    PeerMessages = {vote, tx, badtx, text}
    MessageKind <- MCMessageKind
    Decodes <- MCDecodes
    MaxCount = 2
    Starts = {1, 3}
    WordSize = 4
    MaxNoPeers = 1
    MaxQueueFull = 2
    HasHello = TRUE
    MaxSubs = 2
CHECK_DEADLOCK FALSE
INVARIANT GossipIsExact
PROPERTY FloodEnds
