SPECIFICATION RowsSpec
CONSTANTS
    Calls <- MCCalls
    Chunks <- MCChunks
    NoRows = NoRows
    Missing = Missing
INVARIANTS UnflattenedFills EventsNeverSlip OffenderNamed
CHECK_DEADLOCK FALSE
