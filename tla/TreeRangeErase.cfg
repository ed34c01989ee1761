\* Data blocks of two pairs under an index block of four.
SPECIFICATION TreeSpec
CONSTANTS
    Key = {1, 2, 3, 4, 5}
    Value = {0}
    Pair = 8
    DataRoom = 16
    IndexRoom = 32
    HeadRoom = 1
    RecordRoom = 2
    MaxTotal = 8
VIEW Shape
CHECK_DEADLOCK FALSE
PROPERTIES
    KeepsMap
