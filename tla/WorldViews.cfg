\* A network that keeps order.
CONSTANTS
    Clients = {1, 2}
    Places = {"here", "there"}
    Origin = "here"
    Bubble = {"here"}
    Near <- HereOnly
    Settlements = {"s1"}
    Allowed <- Reach
    Budget <- Limit
    MaxObjects = 1
    Actors = {1}
    ActorPlace <- Standing
    MaxDespawn = 1
    MaxOutputs = 64
    MaxNetId = 3
    Window = 1
    MaxInFlight = 0
    MaxProxyObjects = 2
SPECIFICATION RSpec
INVARIANTS ActorViewsConverge ObjectViewsConverge
