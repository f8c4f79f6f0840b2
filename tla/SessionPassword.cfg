SPECIFICATION SessionSpec
CONSTANTS
    Users = {"u", "w"}
    Slots = {1, 2}
    MaxVersion = 2
INVARIANT
    PasswordChangeKeepsSession
