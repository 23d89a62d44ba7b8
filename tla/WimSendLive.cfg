SPECIFICATION FairSpec
CONSTANTS
    im1 = im1
    im2 = im2
    info1 = info1
    info2 = info2
    sendIM = sendIM
    getInfo = getInfo
    NoPacket = NoPacket
    Methods = {sendIM, getInfo}
    Method <- MCMethod
    Priority <- MCPriority
    Packets = {im1, im2}
    ParallelCounts = {3}
    MaxPosts = 2
    MaxSessions = 1
INVARIANTS
    RetriesBounded
PROPERTIES
    WaitingPacketIsTaken
    KeyIsReleased
