\* Two guests; a close of another dialogue; a list longer than the limit.
CONSTANTS
    Guests = {g1, g2}
    Dialogues = {5, 6}
    Npcs = {20}
    Texts = {"", "yes", "no", "ask", "go"}
    ChoiceLists <- Offers
    MaxChoices = 3
    QuestIds = {7}
    Stages = {1, 2}
    ObjectiveLists <- Reports
    MaxObjectives = 1
    QuestMirror = TRUE
    MaxInFlight = 0
    MaxReports = 3
SPECIFICATION Spec
INVARIANTS DialogueIsMirrored AnsweredOnce QuestIsMirrored
PROPERTIES GuestStageNeverFalls
SYMMETRY GuestSymmetry
