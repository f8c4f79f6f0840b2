SPECIFICATION TaskPagesSpec
CONSTANTS
    PageSize = 2
    MaxTasks = 5
    MaxEvents = 1
    MaxOffset = 6
    Tasks = {"a"}
    Shared = {"a"}
    First = "a"
    Texts = {1, 2}
    None = None
    Slots = {1}
CHECK_DEADLOCK FALSE
INVARIANTS
    TaskPagesTypeOK
    NoDuplicateRows
    EnteredIsAnnounced
PROPERTIES
    
    ConfirmedTextPublished
    
