CONSTANTS
    UMax = 255
    IMax = 127
    MaxExp = 309
    IndentStep = 2
    MaxDigits = 15
    Files <- MCFiles
    Documents <- MCDocuments
    Names <- MCNames
    Values <- MCValues
    MaxEdits = 1
SPECIFICATION Spec
CHECK_DEADLOCK FALSE
INVARIANTS Grammar ReadsBack PointersName
