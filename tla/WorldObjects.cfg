\* Two settlements that compete for two object slots.
CONSTANTS
    Clients = {1, 2}
    Places = {"here", "there"}
    Origin = "here"
    Bubble = {"here"}
    Near <- HereOnly
    Settlements = {"s1", "s2"}
    Allowed <- Reach
    Budget <- Limit
    MaxObjects = 2
    Actors = {1}
    ActorPlace <- Standing
    MaxDespawn = 1
    MaxOutputs = 64
    MaxNetId = 4
SPECIFICATION Spec
INVARIANTS BudgetIsKept NetIdsAreUnique NoCorpseStays
PROPERTIES DespawnIsAnnounced
