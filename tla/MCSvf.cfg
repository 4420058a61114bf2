CONSTANTS
    Width = 4
    DigitWidth = 2
    Commands <- MCCommands
    MaxCommands = 4
SPECIFICATION Spec
INVARIANTS
    TapAgrees
    ShiftsAreMeant
CHECK_DEADLOCK FALSE
