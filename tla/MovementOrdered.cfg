\* A network that keeps order; the publisher restarts and reconnects.
CONSTANTS
    Looks = {"standing", "crouching"}
    MinInterval = 2
    ForceResend = 0
    Window = 1
    Unreliable = FALSE
    MaxMoves = 2
    MaxInputs = 0
    MaxOpens = 2
    MaxHellos = 1
    MaxRuns = 2
    MaxSeq = 3
    MaxInFlight = 2
SPECIFICATION FairSpec
INVARIANTS ShownIsRelayed NoGhostPlayer
PROPERTIES StillPlayerIsShown
