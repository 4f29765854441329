\* One remote player, whose id may become the client's own; a second local id.
CONSTANTS
    Players = {1}
    LocalIds = {1, 2}
    MaxPos = 5
    TeleportDistance = 4
    PolicyAlpha <- Third
    InterpAlpha <- Quarter
    SuppressSelf = TRUE
    ContractLocal = 2
    MaxMoves = 2
    MaxJoins = 1
SPECIFICATION FairSpec
INVARIANTS SceneMatchesProxy PendingIsExact
PROPERTIES ActorSettles
