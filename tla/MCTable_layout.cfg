\* Tables of one or two rows at widths from too narrow to more than enough.
CONSTANTS
    Columns = 2
    Texts <- MCTexts
    Headers <- MCHeaders
    Widths = {1, 16, 18, 27, 50}
    MaxRows = 2
SPECIFICATION TableSpec
INVARIANTS TableTypeOK Rectangular NarrowLinesFit NothingLost
CHECK_DEADLOCK FALSE
