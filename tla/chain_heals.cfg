SPECIFICATION FairSpec

CONSTANTS
    Scripts = {1, 2}
    Pids = {1, 2, 3, 4}
    Slots = {10, 11}
    Tries = 2
    Overlap = FALSE
    SleepsSuffice = TRUE
    MaxKills = 3

INVARIANTS
    OneOfEach
    SlotsDistinct

PROPERTIES
    SelfHeals
    

CHECK_DEADLOCK FALSE
