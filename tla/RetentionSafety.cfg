SPECIFICATION RetentionSpec
CONSTANTS
    Drafts = {"refund"}
    MaxSignals = 1
    MaxCrashes = 0
    MaxLostWakes = 0
INVARIANT RetentionTypeOK
INVARIANT ArchivedTicketsDecided
INVARIANT TicketReadable
PROPERTY NoAgentWorkAfterArchive
CHECK_DEADLOCK FALSE
