\* Two edits, one of each registry or two of one, over two connections.
SPECIFICATION FairSpec
CONSTANTS
    Contents <- MCContents
    MaxEdits = 2
    MaxDials = 2
INVARIANT NamesAreRight
PROPERTY NamesSettle
\* The edits are used up and the last connection stays.
CHECK_DEADLOCK FALSE
