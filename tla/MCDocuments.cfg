SPECIFICATION FairSpec
CONSTANTS
    MaxNotes = 3
    MaxBusy = 2
INVARIANTS RemoteDocumentAgrees PublishedCoversItsVersion HighlightsMatchVersion
PROPERTY EditsAreDiagnosed
CHECK_DEADLOCK FALSE
