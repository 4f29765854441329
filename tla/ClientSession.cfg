\* One client and a peer, two player ids, both kinds of network; the client
\* opens two connections, the service crashes once.
CONSTANTS
    Guids = {"me", "peer"}
    Ids = {1, 2}
    Nobody = "nobody"
    Me = "me"
    Peer = "peer"
    Disks <- SomeDisks
    RetryPolls = 2
    DefaultHeartbeat = 10
    TimeoutTicks = 6
    Chatter = 1
    MaxOpens = 2
    MaxFaults <- OneIfPrompt
    MaxInFlight = 2
SPECIFICATION FairSpec
INVARIANTS IdentityAgrees ProxiesAreCurrent
PROPERTIES KeepsSeat JoinIsResilient
