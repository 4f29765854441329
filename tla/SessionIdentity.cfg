\* Three clients, one of them with a 64-byte GUID and one with two addresses,
\* compete for two player ids, four registry entries and three bindings; a
\* player that is silent for two ticks is removed; a join replays part of the
\* world.
CONSTANTS
    e1 = e1  e2 = e2  e3 = e3  e4 = e4
    g1 = g1  g2 = g2  g3 = g3
    Endpoints = {e1, e2, e3, e4}
    Guids = {g1, g2, g3}
    EmptyGuids = {}
    LongGuids = {g3}
    Speaks <- OwnGuid
    MaxPlayers = 3
    MaxRegistry = 4
    MaxBindings = 3
    MaxOutputs = 64
    TimeoutTicks = 2
    States <- OneStamp
    WorldReplay = {50}
SPECIFICATION Spec
INVARIANTS TypeOK SlotIdentity OneSlotPerGuid RouteIsOwn NoGhostIsSent
PROPERTIES LeaveIsAnnounced ImplementsMembership
