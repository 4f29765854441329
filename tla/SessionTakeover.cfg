\* A leaves, B joins, A comes back.
CONSTANTS
    e1 = e1  e2 = e2  e3 = e3  e4 = e4
    g1 = g1  g2 = g2  g3 = g3
    Endpoints = {e1, e2}
    Guids = {g1, g2, g3}
    EmptyGuids = {}
    LongGuids = {}
    Speaks <- OwnGuid
    MaxPlayers = 3
    MaxRegistry = 4
    MaxBindings = 3
    MaxOutputs = 64
    TimeoutTicks = 0
    States <- OneStamp
    WorldReplay = {0}
SPECIFICATION Spec
PROPERTIES LivePlayerKeepsSlot
