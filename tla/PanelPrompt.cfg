SPECIFICATION GuiSpec
CONSTANTS
    MaxPendingSends = 1
    MaxEdits = 0
    MaxRequests = 2
    MaxDrops = 0
    MaxGuiFaults = 0
INVARIANTS
    PromptsVisible
CHECK_DEADLOCK FALSE
