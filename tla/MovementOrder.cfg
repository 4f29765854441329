\* A network that reorders, loses and duplicates; restarts and reconnects.
CONSTANTS
    Looks = {"standing"}
    MinInterval = 0
    ForceResend = 1
    Window = 3
    Unreliable = TRUE
    MaxMoves = 0
    MaxInputs = 1
    MaxOpens = 2
    MaxHellos = 0
    MaxRuns = 2
    MaxSeq = 2
    MaxInFlight = 3
SPECIFICATION Spec
PROPERTIES NeverBackwards
