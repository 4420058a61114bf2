CONSTANTS
    Nibble = 2
    Lines <- MCLines
    MaxLines = 3
    Memories = {"flash", "signature"}
    Flash = "flash"
    Signature = "signature"
    PageSize = 16
    Chunk = 2
    MaxRetries = 2
SPECIFICATION Spec
INVARIANTS
    HexImage
    AccessIsAsked
    FlashedIsFile
CHECK_DEADLOCK FALSE
