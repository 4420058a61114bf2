CONSTANTS
    MaxPlugs = 3
    MaxRuns = 2
SPECIFICATION Spec
INVARIANTS
    SettlesOnWhatIsThere
    InterfaceHasItsDevice
CHECK_DEADLOCK FALSE
