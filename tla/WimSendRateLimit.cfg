SPECIFICATION Spec
CONSTANTS
    im1 = im1
    im2 = im2
    info1 = info1
    info2 = info2
    sendIM = sendIM
    getInfo = getInfo
    NoPacket = NoPacket
    Methods = {sendIM, getInfo}
    Method <- MCMethod
    Priority <- MCPriority
    Packets = {im1, info1}
    ParallelCounts = {4}
    MaxPosts = 1
    MaxSessions = 0
PROPERTIES
    RateLimitWaits
